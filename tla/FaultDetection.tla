-------------------------- MODULE FaultDetection --------------------------
(***************************************************************************)
(* The detection thread of one computing node: DetectionThread.run and the *)
(* FaultDetectionStrategy it calls.                                        *)
(*                                                                         *)
(* A probe of a layer takes seconds, so every probe is a step of its own   *)
(* and the world (the faults, the BMC, libvirtd, the set of protected      *)
(* instances) may change between any two of them.  Results are kept per    *)
(* layer, as in _detection_result_list: "failed" at layer l stands for     *)
(* FAIL_LEVEL[l].                                                          *)
(***************************************************************************)
EXTENDS LayerTree

CONSTANTS
    Instances,       \* names of the instances that may be protected on the node
    NoInstance,      \* Python's None as a failed_instance_name
    LayerStrings,    \* the protected layers a cluster may have been created with
    IpmiConfigs,     \* how /etc/hass.conf may describe the node's BMC
    MaxWorldChanges  \* bound: how often the world changes in a behaviour

ASSUME LayerStringsKnown == LayerStrings \subseteq KnownLayerStrings
ASSUME NoInstanceIsNone == NoInstance \notin Instances
ASSUME BoundTyped == MaxWorldChanges \in Nat
\* "unlisted": not in [ipmi]; "no account": not in [ipmi_user]; "no sensors":
\* none of the configured hardware sensors exists on the node.
ASSUME IpmiConfigsTyped ==
    IpmiConfigs \subseteq {"unlisted", "no account", "no sensors", "full"}

VARIABLES
    \* the world
    hostFault,    \* lowest failed host layer, NoFault when the host is well
    vmFault,      \* lowest failed layer of each instance
    coming,       \* libvirt events under way: <<i, l>> reports a failure of layer l
    dictionary,   \* keys of the instance dictionary
    vmState,      \* what the instance dictionary says of each instance's state
    flag,         \* lowest layer whose failure flag is set in the dictionary
    bmc,          \* is the BMC reachable through ipmitool?
    libvirtd,     \* can a libvirt connection be opened?
    changes,      \* how often the world has changed (bound)
    \* attributes fixed when the node is added
    ipmi,         \* the node's entry in hass.conf
    protected,    \* cluster_protected_layers_string
    \* the thread
    connection,   \* __libvirt_connection: "none", "alive" or "dead"
    pc, status, counter, loop_exit,
    active,       \* active_layers_string
    temp,         \* temp_active_layers_string
    unchecked,    \* the instances of instance_name_list still to be pinged
    target,       \* failed_instance_name
    node,         \* position in the tree of the layer being verified
    results,      \* _detection_result_list
    fault,        \* the diagnosed layer
    recovery_list, \* the layers still to be recovered
    quiet         \* history: the world has not changed since detect() began

faults   == <<hostFault, vmFault, dictionary>>
entries  == <<coming, vmState, flag>>
devices  == <<bmc, libvirtd>>
config   == <<ipmi, protected>>
control  == <<status, counter, loop_exit>>
scratch  == <<temp, unchecked, target, node, results, fault, recovery_list>>
vars == <<faults, entries, devices, changes, config, connection, pc, control,
          active, scratch, quiet>>

NoFault == 7   \* above every layer: nothing has failed
NoLayer == 8   \* no fault has been diagnosed
NoNode  == 0   \* no position in a tree
----------------------------------------------------------------------------
(***************************************************************************)
(* The detectors (Detector.py, IPMIModule.py, InstanceDetector.py): the    *)
(* results a probe may give in the present world.  "raises" is an          *)
(* exception that leaves detect().                                         *)
(***************************************************************************)
Seen(failing) == IF failing THEN "failed" ELSE "health"

check_power_status ==
    IF ipmi = "unlisted" THEN "not supported"
    ELSE IF ipmi = "no account" \/ ~bmc THEN "detector failed"
    ELSE Seen(hostFault = 0)

\* A BMC that does not answer lists no sensor, and neither does a powered-off
\* node: its sensors read "disabled", which counts as good.
check_hardware_status ==
    IF ipmi \in {"unlisted", "no sensors"} THEN "not supported"
    ELSE IF ipmi = "no account" THEN "detector failed"
    ELSE IF ~bmc THEN "not supported"
    ELSE Seen(hostFault = 1)

\* get_os_status subtracts what _get_os_value returns before it asks whether
\* that is DETECTOR_FAILED.
check_os_status ==
    IF ipmi = "unlisted" THEN "not supported"
    ELSE IF ipmi = "no account" \/ ~bmc THEN "raises"
    ELSE Seen(hostFault <= 2)

\* Mutant: off by one.
check_network_status_BelowOnly == Seen(hostFault < 3)

check_network_status == Seen(hostFault <= 3)

\* Mutant: the power check reads the flag of the os.
InstanceFlag_OsFlag(layer, instance) ==
    CASE connection = "none"     -> "raises"
      [] connection = "dead"     -> "detector failed"
      [] instance \notin dictionary -> "not protected"
      [] OTHER -> Seen(flag[instance] <= 5)

\* check_instance_power_failure and check_instance_os_failure read the flags that the
\* libvirt callbacks set.  Both ask the libvirt connection first; asking None raises.
InstanceFlag(layer, instance) ==
    CASE connection = "none"     -> "raises"
      [] connection = "dead"     -> "detector failed"
      [] instance \notin dictionary -> "not protected"
      [] OTHER -> Seen(flag[instance] <= layer)

\* The addresses of a protected instance are strings of Nova's, never None.
PingAnswered(instance) == hostFault > 3 /\ vmFault[instance] > 6

\* Mutant: the instances that are pinged are those that are operated upon.
check_instance_network_failure_Inverted(instance) ==
    IF instance \notin dictionary THEN "not protected"
    ELSE Seen(vmState[instance] # "healthy" /\ ~PingAnswered(instance))

\* Only an instance whose state is "healthy" can have a network fault.
check_instance_network_failure(instance) ==
    IF instance \notin dictionary THEN "not protected"
    ELSE Seen(vmState[instance] = "healthy" /\ ~PingAnswered(instance))

\* function_map[layer]
Detect(layer, instance) ==
    CASE layer = 0 -> check_power_status
      [] layer = 1 -> check_hardware_status
      [] layer = 2 -> check_os_status
      [] layer = 3 -> check_network_status
      [] layer \in {4, 5} -> InstanceFlag(layer, instance)
      [] OTHER -> check_instance_network_failure(instance)

\* revert_to_default: the entry of a protected instance is that of a healthy one.
RevertToDefault(instance) ==
    IF instance \in dictionary
    THEN /\ vmState' = [vmState EXCEPT ![instance] = "healthy"]
         /\ flag' = [flag EXCEPT ![instance] = NoFault]
    ELSE UNCHANGED <<vmState, flag>>

\* An answered ping does that to an instance whose state was left by a restart or by a
\* failed recovery; one that is operated upon is not pinged, and of one whose state is
\* healthy the flags stay set.
EntryAfterPing(instance) ==
    IF instance \in dictionary /\ vmState[instance] = "other" /\ PingAnswered(instance)
    THEN RevertToDefault(instance) ELSE UNCHANGED <<vmState, flag>>
----------------------------------------------------------------------------
CanConnect == connection = "alive" \/ libvirtd

\* register_instance_state_callback and its twin for the watchdog.
ConnectionAfterRegistering == IF CanConnect THEN "alive" ELSE connection

\* Mutant: the detectors of layers that are not protected are started, too.
Reenabled_Unprotected ==
    {layer \in Layers \ active :
        IF layer \in {4, 5} THEN CanConnect ELSE Detect(layer, NoInstance) # "detector failed"}

\* Mutant: the libvirt detectors are not tried again.
Reenabled_HostOnly ==
    {layer \in (protected \ active) \ {4, 5} : Detect(layer, NoInstance) # "detector failed"}

\* check_protected_layers_detector: every layer whose detector does not answer
\* DETECTOR_FAILED is active again.
Reenabled ==
    {layer \in protected \ active :
        IF layer \in {4, 5} THEN CanConnect ELSE Detect(layer, NoInstance) # "detector failed"}

\* Mutant: the layer that needs libvirt is taken for the highest one.
ActiveAfterSetup_Network(layers, connected) ==
    IF GUEST_OS_LAYER_NUM \notin protected THEN layers
    ELSE IF connected THEN layers \cup {INSTANCE_NETWORK_LAYER_NUM}
    ELSE layers \ {INSTANCE_NETWORK_LAYER_NUM}

\* setup_libvirt_detector: both of its entries name the guest OS layer.
ActiveAfterSetup(layers, connected) ==
    IF GUEST_OS_LAYER_NUM \notin protected THEN layers
    ELSE IF connected THEN layers \cup {GUEST_OS_LAYER_NUM}
    ELSE layers \ {GUEST_OS_LAYER_NUM}

ConnectionAfterSetup ==
    IF GUEST_OS_LAYER_NUM \in protected THEN ConnectionAfterRegistering ELSE connection

\* Mutant: merged layers are not skipped.
get_higher_active_layer_num_Next(layer) == layer + 1

get_higher_active_layer_num(layer) == Min({l \in active : l > layer})

\* Mutant: the layer below is recovered, too.
get_recovery_list_FromBelow(layers, layer) ==
    LET below == {l \in layers : l < layer}
    IN  IF below = {} THEN 0..layer ELSE Max(below)..layer

\* The layers merged into the diagnosed one: the inactive ones right below it.
get_recovery_list(layers, layer) ==
    LET below == {l \in layers : l < layer}
    IN  IF below = {} THEN 0..layer ELSE (Max(below) + 1)..layer
----------------------------------------------------------------------------
Unknown == [layer \in 0..5 |-> "none"]

Init ==
    /\ hostFault = NoFault
    /\ vmFault = [i \in Instances |-> NoFault]
    /\ coming = {}
    /\ dictionary \in SUBSET Instances
    /\ vmState = [i \in Instances |-> "healthy"]
    /\ flag = [i \in Instances |-> NoFault]
    /\ bmc = TRUE
    /\ libvirtd \in BOOLEAN
    /\ changes = 0
    /\ ipmi \in IpmiConfigs
    /\ protected \in LayerStrings
    /\ connection =
          IF libvirtd /\ GUEST_OS_LAYER_NUM \in protected THEN "alive" ELSE "none"
    /\ active = ActiveAfterSetup(protected, libvirtd)
    /\ pc = "poll"
    /\ status = "health"
    /\ counter = 1
    /\ loop_exit = FALSE
    /\ temp = {}
    /\ unchecked = {}
    /\ target = NoInstance
    /\ node = NoNode
    /\ results = Unknown
    /\ fault = NoLayer
    /\ recovery_list = {}
    /\ quiet = TRUE
----------------------------------------------------------------------------
(***************************************************************************)
(* The world.                                                              *)
(***************************************************************************)
WorldChanges ==
    /\ changes < MaxWorldChanges
    /\ changes' = changes + 1
    /\ quiet' = FALSE
    /\ UNCHANGED <<config, control, active, scratch>>

HostChanges ==
    /\ WorldChanges
    /\ hostFault' \in (HOST_LEVEL_RANGE \cup {NoFault}) \ {hostFault}
    /\ UNCHANGED <<vmFault, dictionary, entries, devices, connection, pc>>

\* Of a crash (layer 4) or a watchdog's action (layer 5) libvirt tells whoever is
\* connected when it happens, and nobody else ever.
InstanceChanges(i) ==
    /\ WorldChanges
    /\ \E l \in (INSTANCE_LEVEL_RANGE \cup {NoFault}) \ {vmFault[i]} :
          /\ vmFault' = [vmFault EXCEPT ![i] = l]
          /\ coming' = IF l \in {4, 5} /\ connection = "alive"
                       THEN coming \cup {<<i, l>>} ELSE coming
    /\ UNCHANGED <<hostFault, dictionary, vmState, flag, devices, connection, pc>>

\* The thread of the callbacks comes to an event: a crash sets both flags of the
\* instance, the watchdog that of its os; of an unprotected instance it is forgotten.
Callback(i, l) ==
    /\ <<i, l>> \in coming
    /\ coming' = coming \ {<<i, l>>}
    /\ flag' = IF i \in dictionary /\ l < flag[i] THEN [flag EXCEPT ![i] = l] ELSE flag
    /\ quiet' = FALSE
    /\ UNCHANGED <<faults, vmState, devices, changes, config, connection, pc, control, active,
                   scratch>>

\* A libvirt event: the user shuts the instance down or migrates it
\* ("operated"), or it has started ("other").
UserOperates(i) ==
    /\ WorldChanges
    /\ i \in dictionary
    /\ \E s \in {"operated", "other"} : vmState' = [vmState EXCEPT ![i] = s]
    /\ UNCHANGED <<faults, coming, flag, devices, connection, pc>>

\* The update queue is drained: protection of i begins or ends.  An evacuated
\* instance arrives in state "evacuating"; either way its entry is a new one.
InstanceAdded(i) ==
    /\ WorldChanges
    /\ dictionary' = dictionary \cup {i}
    /\ \E s \in {"healthy", "other"} : vmState' = [vmState EXCEPT ![i] = s]
    /\ flag' = [flag EXCEPT ![i] = NoFault]
    /\ UNCHANGED <<hostFault, vmFault, coming, devices, connection, pc>>

\* A callback that drains the queue while run brings the instance table up to date may
\* take away the entry whose state is asked for next: None is no string, and the thread
\* ends.
InstanceRemoved(i) ==
    /\ WorldChanges
    /\ i \in dictionary
    /\ dictionary' = dictionary \ {i}
    /\ flag' = [flag EXCEPT ![i] = NoFault]
    /\ pc' \in IF pc = "update" THEN {pc, "exited"} ELSE {pc}
    /\ UNCHANGED <<hostFault, vmFault, coming, vmState, devices, connection>>

BmcChanges ==
    /\ WorldChanges
    /\ bmc' = ~bmc
    /\ UNCHANGED <<faults, entries, libvirtd, connection, pc>>

\* The events of a connection are lost with it.
LibvirtdChanges ==
    /\ WorldChanges
    /\ libvirtd' = ~libvirtd
    /\ IF connection = "alive" THEN connection' = "dead" /\ coming' = {}
       ELSE UNCHANGED <<connection, coming>>
    /\ UNCHANGED <<faults, vmState, flag, bmc, pc>>

World ==
    \/ HostChanges \/ BmcChanges \/ LibvirtdChanges
    \/ \E i \in Instances :
          \/ InstanceChanges(i) \/ UserOperates(i)
          \/ InstanceAdded(i) \/ InstanceRemoved(i)
          \/ \E l \in {4, 5} : Callback(i, l)
----------------------------------------------------------------------------
(***************************************************************************)
(* detect()                                                                *)
(***************************************************************************)
StartDetect ==
    /\ pc = "poll" /\ ~loop_exit /\ status = "health"
    /\ unchecked' = dictionary
    /\ pc' = IF dictionary = {} \/ INSTANCE_NETWORK_LAYER_NUM \notin active
             THEN "host level" ELSE "instance level"
    /\ quiet' = TRUE
    /\ UNCHANGED <<faults, entries, devices, changes, config, connection, control, active,
                   temp, target, node, results, fault, recovery_list>>

\* detect() returns the fault of a layer, or HEALTH when layer is NoLayer.
Return(layer) ==
    /\ pc' = "returned"
    /\ fault' = layer
    /\ temp' = {} /\ unchecked' = {} /\ node' = NoNode /\ results' = Unknown

\* An exception leaves detect(); run() logs it and polls again at once.
Raise ==
    /\ pc' = "poll"
    /\ fault' = NoLayer /\ target' = NoInstance
    /\ temp' = {} /\ unchecked' = {} /\ node' = NoNode /\ results' = Unknown

\* __verify begins with the tree of these layers; an empty tree leaves only
\* the highest layer to blame.
Verify(layers) ==
    /\ temp' = layers
    /\ unchecked' = {}
    /\ results' = Unknown
    /\ IF Len(TREE_DICTIONARY[layers]) = 0
       THEN pc' = "confirm" /\ fault' = HighestOf(layers) /\ node' = NoNode
       ELSE pc' = "verify"  /\ fault' = NoLayer           /\ node' = 1

DetectHostHighest ==
    /\ pc = "host level"
    /\ IF check_network_status = "health" THEN Return(NoLayer)
       ELSE Verify(active \cap HOST_LEVEL_RANGE)
    /\ UNCHANGED <<faults, entries, devices, changes, config, connection, control, active,
                   target, recovery_list, quiet>>

\* The first instance whose ping fails is verified; when none fails, the result
\* of the last instance is that of the whole list.
DetectInstanceHighest(i) ==
    /\ pc = "instance level" /\ i \in unchecked
    /\ EntryAfterPing(i)
    /\ LET result == check_instance_network_failure(i)
       IN  CASE result = "failed" -> Verify(active) /\ target' = i
             [] result # "failed" /\ unchecked # {i} ->
                    /\ unchecked' = unchecked \ {i}
                    /\ UNCHANGED <<pc, temp, target, node, results, fault>>
             [] result = "health" /\ unchecked = {i} ->
                    Return(NoLayer) /\ UNCHANGED target
             [] OTHER -> Verify(active) /\ UNCHANGED target
    /\ UNCHANGED <<faults, coming, devices, changes, config, connection, control, active,
                   recovery_list, quiet>>

Tree == TREE_DICTIONARY[temp]
VerifiedLayer == Tree[node]
Verified == Detect(VerifiedLayer, target)

Diagnose(layer) == pc' = "confirm" /\ fault' = layer /\ node' = NoNode

\* One turn of __verify's loop that ends on a healthy layer: the fault is above.
VerifyHealthy ==
    /\ pc = "verify" /\ Verified = "health"
    /\ results' = [results EXCEPT ![VerifiedLayer] = "health"]
    /\ IF RightSubtree(Tree, node) = {}
       THEN Diagnose(get_higher_active_layer_num(VerifiedLayer))
       ELSE node' = Min(RightSubtree(Tree, node)) /\ UNCHANGED <<pc, fault>>
    /\ UNCHANGED <<faults, entries, devices, changes, config, connection, control, active,
                   temp, unchecked, target, recovery_list, quiet>>

\* ... on a failed layer: the fault is there or below.
VerifyFailed ==
    /\ pc = "verify" /\ Verified = "failed"
    /\ results' = [results EXCEPT ![VerifiedLayer] = "failed"]
    /\ IF LeftSubtree(Tree, node) = {}
       THEN Diagnose(VerifiedLayer)
       ELSE node' = Min(LeftSubtree(Tree, node)) /\ UNCHANGED <<pc, fault>>
    /\ UNCHANGED <<faults, entries, devices, changes, config, connection, control, active,
                   temp, unchecked, target, recovery_list, quiet>>

\* ... on a failed detector: its layer is merged and the verification begins anew.
VerifyDisables ==
    /\ pc = "verify" /\ Verified = "detector failed"
    /\ active' = active \ {VerifiedLayer}
    /\ Verify(temp \ {VerifiedLayer})
    /\ UNCHANGED <<faults, entries, devices, changes, config, connection, control,
                   target, recovery_list, quiet>>

\* ... on an exception: the detector's, or the use of an unbound next_layer when
\* the root's result takes none of the branches.
VerifyRaises ==
    /\ pc = "verify"
    /\ \/ Verified = "raises"
       \/ Verified \in {"not supported", "not protected"} /\ node = 1
    /\ Raise
    /\ UNCHANGED <<faults, entries, devices, changes, config, connection, control, active,
                   recovery_list, quiet>>

\* Below the root next_layer still names this layer, whose result is kept.
VerifyRepeats ==
    /\ pc = "verify" /\ node # 1
    /\ Verified \in {"not supported", "not protected"}
    /\ pc' = "spin"
    /\ UNCHANGED <<faults, entries, devices, changes, config, connection, control, active,
                   scratch, quiet>>

Spin == pc = "spin" /\ UNCHANGED vars

\* __confirm_permanent_fault: anything but HEALTH confirms the fault.
Confirm ==
    /\ pc = "confirm"
    /\ IF fault = INSTANCE_NETWORK_LAYER_NUM
       THEN EntryAfterPing(target) ELSE UNCHANGED <<vmState, flag>>
    /\ LET result == Detect(fault, target)
       IN  CASE result = "raises" -> Raise
             [] result = "health" -> Return(NoLayer) /\ UNCHANGED target
             [] OTHER -> IF fault \in HOST_LEVEL_RANGE
                         THEN Return(fault) /\ UNCHANGED target
                         ELSE /\ pc' = "third check"
                              /\ UNCHANGED <<temp, unchecked, target, node, results, fault>>
    /\ UNCHANGED <<faults, coming, devices, changes, config, connection, control, active,
                   recovery_list, quiet>>

\* check_instance_state_for_recovery
CheckRecoverable ==
    /\ pc = "third check"
    /\ IF target \in dictionary /\ vmState[target] # "operated"
       THEN Return(fault) ELSE Return(NoLayer)
    /\ UNCHANGED <<faults, entries, devices, changes, config, connection, control, active,
                   target, recovery_list, quiet>>
----------------------------------------------------------------------------
(***************************************************************************)
(* DetectionThread.run                                                     *)
(***************************************************************************)
\* detect() has returned: every fourth time the merged layers are looked at
\* again, and only then is the recovery list read off the active layers.
CountDetection ==
    /\ pc = "returned"
    /\ IF counter < 4
       THEN counter' = counter + 1 /\ UNCHANGED <<active, connection>>
       ELSE /\ counter' = 1
            /\ active' = active \cup Reenabled
            /\ connection' = IF (protected \ active) \cap {4, 5} # {}
                             THEN ConnectionAfterRegistering ELSE connection
    /\ IF fault = NoLayer
       THEN pc' = "update" /\ UNCHANGED recovery_list
       ELSE pc' = "recover" /\ recovery_list' = get_recovery_list(active', fault)
    /\ UNCHANGED <<faults, entries, devices, changes, config, status, loop_exit,
                   temp, unchecked, target, node, results, fault, quiet>>

\* _recover answers something true; whether anything was repaired is up to the
\* controller.  The entry of a recovered instance is that of a healthy one.
RecoverySucceeds ==
    /\ pc = "recover"
    /\ pc' = "update"
    /\ recovery_list' = {}
    /\ IF fault \in HOST_LEVEL_RANGE
       THEN /\ hostFault' \in {hostFault, NoFault}
            /\ status' = "health"
            /\ active' = ActiveAfterSetup(active, CanConnect)
            /\ connection' = ConnectionAfterSetup
            /\ UNCHANGED <<vmFault, vmState, flag>>
       ELSE /\ \E l \in {vmFault[target], NoFault} :
                  vmFault' = [vmFault EXCEPT ![target] = l]
            /\ RevertToDefault(target)
            /\ UNCHANGED <<hostFault, status, active, connection>>
    /\ UNCHANGED <<dictionary, coming, devices, changes, config, counter, loop_exit, temp,
                   unchecked, target, node, results, fault, quiet>>

RecoveryFails ==
    /\ pc = "recover"
    /\ recovery_list' = recovery_list \ {Min(recovery_list)}
    /\ pc' = IF recovery_list' = {} THEN "update" ELSE "recover"
    /\ IF fault \in HOST_LEVEL_RANGE
       THEN status' = "recover fail" /\ UNCHANGED vmState
       ELSE /\ vmState' = IF target \in dictionary
                          THEN [vmState EXCEPT ![target] = "other"] ELSE vmState
            /\ UNCHANGED status
    /\ UNCHANGED <<faults, coming, flag, devices, changes, config, connection, counter,
                   loop_exit, active, temp, unchecked, target, node, results, fault, quiet>>

\* The instance table is brought up to date and the thread sleeps.
UpdateAndSleep ==
    /\ pc = "update"
    /\ pc' = "poll" /\ fault' = NoLayer /\ target' = NoInstance
    /\ UNCHANGED <<faults, entries, devices, changes, config, connection, control, active,
                   temp, unchecked, node, results, recovery_list, quiet>>

\* A node whose recovery failed is only watched until its network answers.
AwaitHost ==
    /\ pc = "poll" /\ ~loop_exit /\ status # "health"
    /\ pc' = "await"
    /\ UNCHANGED <<faults, entries, devices, changes, config, connection, control, active,
                   scratch, quiet>>

HostIsBack ==
    /\ pc = "await" /\ check_network_status = "health"
    /\ status' = "health" /\ pc' = "update"
    /\ UNCHANGED <<faults, entries, devices, changes, config, connection, counter, loop_exit,
                   active, scratch, quiet>>

KeepAwaiting == pc = "await" /\ check_network_status # "health" /\ UNCHANGED vars

\* delete_node stops the thread.
Stop ==
    /\ ~loop_exit
    /\ loop_exit' = TRUE
    /\ UNCHANGED <<faults, entries, devices, changes, config, connection, pc, status, counter,
                   active, scratch, quiet>>

Exit ==
    /\ pc = "poll" /\ loop_exit
    /\ pc' = "exited"
    /\ UNCHANGED <<faults, entries, devices, changes, config, connection, control, active,
                   scratch, quiet>>

Thread ==
    \/ StartDetect \/ DetectHostHighest
    \/ \E i \in Instances : DetectInstanceHighest(i)
    \/ VerifyHealthy \/ VerifyFailed \/ VerifyDisables \/ VerifyRaises \/ VerifyRepeats
    \/ Spin \/ Confirm \/ CheckRecoverable \/ CountDetection
    \/ RecoverySucceeds \/ RecoveryFails \/ UpdateAndSleep
    \/ AwaitHost \/ HostIsBack \/ KeepAwaiting \/ Exit

Next == Thread \/ World \/ Stop

Spec == Init /\ [][Next]_vars

\* Python runs the thread: as long as it has a step to take it takes one.
FairSpec == Spec /\ WF_vars(Thread)
----------------------------------------------------------------------------
Stages == {"poll", "host level", "instance level", "verify", "spin", "confirm",
           "third check", "returned", "recover", "update", "await", "exited"}

WorldTyped ==
    /\ hostFault \in HOST_LEVEL_RANGE \cup {NoFault}
    /\ vmFault \in [Instances -> INSTANCE_LEVEL_RANGE \cup {NoFault}]
    /\ coming \subseteq Instances \X {4, 5}
    /\ dictionary \subseteq Instances
    /\ vmState \in [Instances -> {"healthy", "operated", "other"}]
    /\ flag \in [Instances -> {4, 5, NoFault}]
    /\ bmc \in BOOLEAN /\ libvirtd \in BOOLEAN
    /\ changes \in 0..MaxWorldChanges
    /\ ipmi \in IpmiConfigs /\ protected \in LayerStrings
    /\ connection \in {"none", "alive", "dead"}
    /\ quiet \in BOOLEAN

ControlTyped ==
    /\ pc \in Stages
    /\ status \in {"health", "recover fail"}
    /\ counter \in 1..4
    /\ loop_exit \in BOOLEAN

LayersTyped ==
    /\ active \in KnownLayerStrings
    /\ temp \in KnownLayerStrings \cup {{}}
    /\ unchecked \subseteq Instances
    /\ target \in Instances \cup {NoInstance}
    /\ node \in 0..6
    /\ results \in [0..5 -> {"none", "health", "failed"}]
    /\ fault \in Layers \cup {NoLayer}
    /\ recovery_list \subseteq Layers

\* Every variable has its type, and the two layer strings are ones the tree
\* dictionary has a row for: TreeBuilder.build_tree never raises KeyError.
TypeOK == WorldTyped /\ ControlTyped /\ LayersTyped

\* The two network layers are never merged, since no tree holds the layer whose
\* failure starts its verification and the host network detector always answers;
\* so a host fault is always noticed, and an instance fault whenever the instance
\* network layer is protected.  Nothing unprotected is ever watched.
NetworkLayersKept ==
    /\ HOST_NETWORK_LAYER_NUM \in active
    /\ INSTANCE_NETWORK_LAYER_NUM \in protected => INSTANCE_NETWORK_LAYER_NUM \in active
    /\ active \subseteq protected

\* What is known when the n-th node of the order is about to be probed: nothing
\* of it and the nodes after it; of the earlier ones, the healthy lie below it, the
\* failed above it, and one that was passed by lies beyond one that was probed.
WalkSeen(order, seen, n) ==
    /\ n \in 1..Len(order)
    /\ \A k \in n..Len(order) : seen[order[k]] = "none"
    /\ \A k \in 1..(n - 1) :
          /\ seen[order[k]] = "health" => order[k] < order[n]
          /\ seen[order[k]] = "failed" => order[k] > order[n]
          /\ seen[order[k]] = "none" =>
                \E z \in 1..(n - 1) :
                    seen[order[z]] # "none" /\ Separates(order[z], order[k], order[n])

\* __verify walks the tree of the layers that are active now, or of the host layers
\* among them, and its walk is a bisection: it never turns its back on a layer
\* without a result that already rules that layer out.
WalkOrdered ==
    pc = "verify" =>
        /\ temp \in {active, active \cap HOST_LEVEL_RANGE}
        /\ WalkSeen(Tree, results, node)

\* Whatever changed while __verify was walking the tree, the layer it blames
\* was itself seen failing (or is the layer whose failure started the
\* verification), and the next active layer below it was seen healthy: no
\* active layer is skipped.
DiagnosisBracketed ==
    pc = "confirm" =>
        /\ fault \in temp
        /\ fault # HighestOf(temp) => results[fault] = "failed"
        /\ LET below == {l \in temp : l < fault}
           IN  below # {} => results[Max(below)] = "health"

\* The layer that failed, as far as the detectors can see it: what failed inside an
\* instance is what the callbacks have reported of it since its entry was last made or
\* reverted, and an unreported failure looks like one of the instance's network.
FailedLayer ==
    IF hostFault # NoFault THEN hostFault
    ELSE IF target = NoInstance THEN NoFault
    ELSE IF flag[target] # NoFault THEN flag[target]
    ELSE INSTANCE_NETWORK_LAYER_NUM

\* A powered-off node whose power layer is not watched still looks healthy to
\* the hardware detector.
PowerFaultHidden == hostFault = 0 /\ 0 \notin active /\ 1 \in active

\* When nothing changed during a detection, neither the world nor what the callbacks
\* have reported of it, the layer it blames is the failed one, merged upwards into the
\* lowest layer whose detector works.
DiagnosisExact ==
    (pc = "confirm" /\ quiet /\ ~PowerFaultHidden) =>
        fault = Min({l \in active : FailedLayer <= l})

\* A recovery never mixes the two levels: a host fault is recovered by host
\* recoveries and an instance fault by instance recoveries, because the host
\* network layer is never merged.  _recover takes the level of each entry to
\* say whose name the failed component is.
RecoveryStaysInLevel ==
    recovery_list \subseteq HOST_LEVEL_RANGE \/ recovery_list \subseteq INSTANCE_LEVEL_RANGE

\* get_recovery_list hands the layer that failed to recovery, also when it was
\* merged into the diagnosed one.  (A recovery that was just tried and failed
\* has changed status.)
RecoveryCoversFault ==
    (pc = "recover" /\ quiet /\ fault \in HOST_LEVEL_RANGE /\ status = "health"
       /\ ~PowerFaultHidden) => hostFault \in recovery_list

Attended == dictionary = {} \/ \E i \in dictionary : vmState[i] = "healthy"

\* The thread is neither caught in __verify nor ended by the TypeError of the look-up of
\* an instance that a callback has just taken away.
ThreadLives == [](pc \notin {"spin", "exited"})

\* A permanent host fault keeps being handed to recovery (or its recovery has
\* failed and the node is watched), given a BMC that answers, a thread that was
\* not stopped, caught in __verify or ended by an exception, and an instance (or
\* none at all) that is still pinged.
PermanentHostFaultRecovered ==
    (/\ <>[](hostFault # NoFault /\ bmc /\ ~loop_exit /\ ipmi = "full" /\ Attended)
     /\ ThreadLives)
        => []<>(pc \in {"recover", "await"})

\* The same, whatever the states of the protected instances are.
HostFaultAlwaysRecovered ==
    (/\ <>[](hostFault # NoFault /\ bmc /\ ~loop_exit /\ ipmi = "full")
     /\ ThreadLives)
        => []<>(pc \in {"recover", "await"})

AllWell(i) == /\ i \in dictionary /\ vmState[i] = "healthy" /\ libvirtd /\ bmc
              /\ hostFault = NoFault /\ ~loop_exit /\ ipmi = "full"

\* A permanent fault of a protected, healthy-state instance keeps being handed
\* to recovery once libvirt has been reached.
PermanentInstanceFaultRecovered ==
    \A i \in Instances :
        (/\ <>[](vmFault[i] # NoFault /\ AllWell(i) /\ connection # "none")
         /\ ThreadLives)
            => []<>(pc = "recover")

\* The same, whether or not a libvirt connection was ever opened.
InstanceFaultAlwaysRecovered ==
    \A i \in Instances :
        (/\ <>[](vmFault[i] # NoFault /\ AllWell(i))
         /\ ThreadLives)
            => []<>(pc = "recover")

\* Merging is temporary: when every detector works again and nothing is at
\* fault, every protected layer becomes active again and stays so.
MergedLayersRestored ==
    (/\ <>[](/\ hostFault = NoFault /\ bmc /\ libvirtd /\ ~loop_exit /\ ipmi = "full"
             /\ \A i \in dictionary : vmFault[i] = NoFault)
     /\ ThreadLives)
        => <>[](active = protected)

\* detect() returns, if only with None "if in an unexpected state".
DetectReturns == pc = "verify" ~> pc # "verify" /\ pc # "spin"
=============================================================================
