------------------------------ MODULE Failover ------------------------------
(***************************************************************************)
(* The recovery of a failed node: its detection thread asks the REST       *)
(* service for one recovery after the other (DetectionThread, RESTClient), *)
(* a handler evacuates the node's instances and restarts the node          *)
(* (RecoveryManager, NovaClient, Node), while Nova, the other handlers and *)
(* the nodes go on.  A handler whose client has given up goes on, too.     *)
(*                                                                         *)
(* How a thread finds the fault is in FaultDetection; here it knows.       *)
(***************************************************************************)
EXTENDS Protection

CONSTANT MaxFaults  \* bound: nodes that break, instances that crash, calls that fail

ASSUME MaxFaultsTyped == MaxFaults \in Nat

VARIABLES
    power,          \* of each host: "up", "off", or "cut": it runs, and is not reached
    domain,         \* its libvirt's domains: "on", "off" (defined) or "none"
    forced,         \* the hosts whose compute service is forced down
    evacuating,     \* the host Nova rebuilds the instance on
    thread,         \* a node's thread: it watches, is about to call, awaits the
                    \* answer, or waits until the node it could not recover is up
    layers,         \* the recoveries still to be tried
    caller,         \* the node whose thread waits for the handler
    failing, means, \* the node a handler recovers, and how: "start" or "reboot"
    target,         \* where its instances go
    affected,       \* protected_instance_list: the instances it had
    todo,           \* those still to be evacuated, then those still to be updated
    result,         \* what recover returns
    faults,
    stuck,          \* history: nodes whose last evacuation raised, the service down
    healed,         \* history: cut nodes that came back by themselves
    overtaken,      \* history: nodes whose thread has given up on a recovery under way
    calm            \* history: has the recovery had the system for itself?

cloud    == <<power, domain, forced, evacuating>>
threads  == <<thread, layers, caller>>
recovery == <<failing, means, target, affected, todo, result>>
history  == <<stuck, healed, overtaken, calm>>
past     == <<stuck, healed, overtaken>>
failoverVars == <<cloud, threads, recovery, faults, history>>
vars == <<protectionVars, failoverVars>>

Recoveries == {<<"start">>, <<"reboot">>, <<"start", "reboot">>}

Init ==
    /\ ProtectionInit
    /\ power = [n \in Hosts |-> "up"]
    /\ domain \in [Hosts -> [Instances -> {"none", "off", "on"}]]
    /\ \A n \in Hosts, i \in Instances : (domain[n][i] = "on") <=> (nova_host[i] = n)
    /\ forced = {} /\ evacuating = [i \in Instances |-> None]
    /\ thread = [n \in Hosts |-> "watch"] /\ layers = [n \in Hosts |-> <<>>]
    /\ caller = [h \in Handlers |-> None]
    /\ failing = [h \in Handlers |-> None] /\ means = [h \in Handlers |-> None]
    /\ target = [h \in Handlers |-> None]
    /\ affected = [h \in Handlers |-> {}] /\ todo = [h \in Handlers |-> {}]
    /\ result = [h \in Handlers |-> "none"]
    /\ faults = 0
    /\ stuck = {} /\ healed = {} /\ overtaken = {} /\ calm = [h \in Handlers |-> FALSE]

Fault == faults < MaxFaults /\ faults' = faults + 1
NoFault == UNCHANGED <<faults, calm>>
Unrest == calm' = [h \in Handlers |-> FALSE]
Domain(n, i, state) == domain' = [domain EXCEPT ![n][i] = state]
Halted(n) == [i \in Instances |-> IF domain[n][i] = "on" THEN "off" ELSE domain[n][i]]
----------------------------------------------------------------------------
(***************************************************************************)
(* The hosts and Nova.                                                     *)
(***************************************************************************)
Breaks(n) ==
    /\ Fault /\ Unrest
    /\ power[n] = "up"
    /\ \/ power' = [power EXCEPT ![n] = "cut"] /\ UNCHANGED <<domain, healed>>
       \/ /\ power' = [power EXCEPT ![n] = "off"]
          /\ domain' = [domain EXCEPT ![n] = Halted(n)] /\ healed' = healed \ {n}
    /\ UNCHANGED <<protectionVars, forced, evacuating, threads, recovery, stuck, overtaken>>

Heals(n) ==
    /\ power[n] = "cut" /\ power' = [power EXCEPT ![n] = "up"]
    /\ healed' = healed \cup {n} /\ Unrest
    /\ UNCHANGED <<protectionVars, domain, forced, evacuating, threads, recovery, faults,
                   stuck, overtaken>>

Crashes(i) ==
    /\ Fault /\ Unrest
    /\ \E n \in Hosts : nova_host[i] = n /\ domain[n][i] = "on" /\ Domain(n, i, "off")
    /\ UNCHANGED <<protectionVars, power, forced, evacuating, threads, recovery, past>>

\* A user migrates a running instance, or deletes it.
Migrates(i, n) ==
    /\ Moves(i, n) /\ Unrest
    /\ evacuating[i] = None
    /\ LET here == nova_host[i]
       IN  /\ power[here] = "up" /\ here \notin forced /\ domain[here][i] = "on"
           /\ IF n = None THEN Domain(here, i, "none")
              ELSE /\ power[n] = "up" /\ n \notin forced /\ domain[n][i] = "none"
                   /\ domain' = [domain EXCEPT ![here][i] = "none", ![n][i] = "on"]
    /\ UNCHANGED <<power, forced, evacuating, threads, recovery, faults, past>>

\* Nova rebuilds the instance; a domain that is left on the target makes that fail.
Evacuates(i) ==
    /\ evacuating[i] # None /\ evacuating' = [evacuating EXCEPT ![i] = None]
    /\ LET n == evacuating[i]
       IN  IF power[n] = "up" /\ domain[n][i] = "none"
           THEN Domain(n, i, "on") /\ Placed(i, n)
           ELSE UNCHANGED <<domain, nova_host, disturbed>>
    /\ UNCHANGED <<memory, watched, pc, local, requests, moves>>
    /\ UNCHANGED <<power, forced, threads, recovery, faults, history>>
----------------------------------------------------------------------------
(***************************************************************************)
(* The detection threads.                                                  *)
(***************************************************************************)
\* The list of recoveries goes from the lowest layer without a detector to the one
\* diagnosed; only that of the power layer starts the node.
Detects(n) ==
    /\ n \in node_list /\ power[n] # "up"
    /\ thread[n] = "watch" /\ thread' = [thread EXCEPT ![n] = "call"]
    /\ \E list \in Recoveries :
          /\ list # (IF power[n] = "off" THEN <<"reboot">> ELSE <<"start">>)
          /\ layers' = [layers EXCEPT ![n] = list]
    /\ UNCHANGED <<protectionVars, cloud, caller, recovery, faults, history>>

\* Nothing else goes on, every record is right, and no instance has two.
Alone(n) ==
    /\ \A o \in ToSet(instance_list) : host[o] = nova_host[id[o]]
    /\ \A o, p \in ToSet(instance_list) : id[o] = id[p] => o = p
    /\ \A m \in Hosts : (power[m] = "up") <=> (m # n)
    /\ \A h \in Handlers : pc[h] = "idle"
    /\ \A i \in Instances : evacuating[i] = None

Calls(n, h) ==
    /\ thread[n] = "call" /\ thread' = [thread EXCEPT ![n] = "await"]
    /\ Begins(h, "recover", None) /\ UNCHANGED requests
    /\ caller' = [caller EXCEPT ![h] = n]
    /\ failing' = [failing EXCEPT ![h] = n]
    /\ means' = [means EXCEPT ![h] = Head(layers[n])]
    /\ layers' = [layers EXCEPT ![n] = Tail(@)]
    /\ calm' = [g \in Handlers |-> g = h /\ Alone(n)]
    /\ UNCHANGED <<cloud, target, affected, todo, result, faults, past>>

\* The recovery has failed: the next one is called, or the thread waits for the node.
Fails(n) == thread' = [thread EXCEPT ![n] = IF layers[n] = <<>> THEN "wait" ELSE "call"]

\* The client waits 500 s.
TimesOut(n) ==
    /\ Fault /\ thread[n] = "await" /\ Fails(n)
    /\ overtaken' = overtaken \cup {n}
    /\ \E h \in Handlers : /\ caller[h] = n /\ pc[h] # "answer"
                           /\ caller' = [caller EXCEPT ![h] = None]
    /\ UNCHANGED <<protectionVars, cloud, layers, recovery, stuck, healed, calm>>

Rechecks(n) ==
    /\ thread[n] = "wait" /\ power[n] = "up"
    /\ thread' = [thread EXCEPT ![n] = "watch"]
    /\ UNCHANGED <<protectionVars, cloud, layers, caller, recovery, faults, history>>

\* Mutant: an answer is never a failure.
AnswerRecovery_Trusting(h) ==
    /\ At(h, "answer") /\ op[h] = "recover"
    /\ IF caller[h] = None THEN UNCHANGED thread
       ELSE thread' = [thread EXCEPT ![caller[h]] = "watch"]
    /\ Forget(h)
    /\ caller' = [caller EXCEPT ![h] = None]
    /\ failing' = [failing EXCEPT ![h] = None] /\ means' = [means EXCEPT ![h] = None]
    /\ target' = [target EXCEPT ![h] = None]
    /\ affected' = [affected EXCEPT ![h] = {}] /\ todo' = [todo EXCEPT ![h] = {}]
    /\ result' = [result EXCEPT ![h] = "none"] /\ calm' = [calm EXCEPT ![h] = FALSE]
    /\ UNCHANGED <<nova_host, memory, watched, requests, moves, disturbed>>
    /\ UNCHANGED <<cloud, layers, faults, past>>

\* An exception in the recovery is answered with a dictionary, which the thread takes
\* for a success.
AnswerRecovery(h) ==
    /\ At(h, "answer") /\ op[h] = "recover"
    /\ IF caller[h] = None THEN UNCHANGED thread
       ELSE IF result[h] = "false" THEN Fails(caller[h])
       ELSE thread' = [thread EXCEPT ![caller[h]] = "watch"]
    /\ Forget(h)
    /\ caller' = [caller EXCEPT ![h] = None]
    /\ failing' = [failing EXCEPT ![h] = None] /\ means' = [means EXCEPT ![h] = None]
    /\ target' = [target EXCEPT ![h] = None]
    /\ affected' = [affected EXCEPT ![h] = {}] /\ todo' = [todo EXCEPT ![h] = {}]
    /\ result' = [result EXCEPT ![h] = "none"] /\ calm' = [calm EXCEPT ![h] = FALSE]
    /\ UNCHANGED <<nova_host, memory, watched, requests, moves, disturbed>>
    /\ UNCHANGED <<cloud, layers, faults, past>>
----------------------------------------------------------------------------
(***************************************************************************)
(* RecoveryManager: the instances.                                         *)
(***************************************************************************)
\* A handler of a recovery that changes only itself and the cloud.
Recovering == UNCHANGED <<nova_host, memory, watched, op, what, original, final, index,
                          requests, moves, disturbed, threads, failing, means>>

Returns(h, value) == Goto(h, "answer") /\ result' = [result EXCEPT ![h] = value]

\* The target is chosen at random, the instances are those whose record names the
\* node.  A cluster of one node has nowhere to evacuate to.
_recover_vm(h) ==
    /\ At(h, "begin") /\ op[h] = "recover"
    /\ LET n == failing[h]
       IN  IF n \notin node_list THEN Returns(h, "raised") /\ UNCHANGED <<target, affected, todo>>
           ELSE IF Cardinality(node_list) < 2
           THEN Goto(h, "boot") /\ UNCHANGED <<target, affected, todo, result>>
           ELSE /\ \E t \in node_list \ {n} : target' = [target EXCEPT ![h] = t]
                /\ affected' = [affected EXCEPT ![h] = HostedBy(n)]
                /\ todo' = [todo EXCEPT ![h] = HostedBy(n)]
                /\ Goto(h, "evacuate") /\ UNCHANGED result
    /\ Recovering /\ NoFault /\ UNCHANGED <<cloud, object, past>>

\* Mutant: what is left on the target stays there.
undefine_instance_Skipped(h) ==
    /\ At(h, "evacuate") /\ todo[h] # {} /\ Goto(h, "force down")
    /\ \E o \in todo[h] :
          /\ object' = [object EXCEPT ![h] = o]
          /\ todo' = [todo EXCEPT ![h] = @ \ {o}]
    /\ NoFault
    /\ Recovering /\ UNCHANGED <<cloud, target, affected, result, past>>

\* What the target has of the instance is destroyed, over ssh or else the socket,
\* unless both fail.
undefine_instance(h) ==
    /\ At(h, "evacuate") /\ todo[h] # {} /\ Goto(h, "force down")
    /\ \E o \in todo[h] :
          /\ object' = [object EXCEPT ![h] = o]
          /\ todo' = [todo EXCEPT ![h] = @ \ {o}]
          /\ \/ power[target[h]] = "up" /\ Domain(target[h], id[o], "none") /\ NoFault
             \/ power[target[h]] # "up" /\ UNCHANGED domain /\ NoFault
             \/ power[target[h]] = "up" /\ UNCHANGED domain /\ Fault /\ Unrest
    /\ Recovering /\ UNCHANGED <<power, forced, evacuating, target, affected, result, past>>

\* NovaClient.evacuate: each of its calls may raise, and ends it.
_nova_service_down(h) ==
    /\ At(h, "force down")
    /\ \/ forced' = forced \cup {failing[h]} /\ Goto(h, "request") /\ NoFault
       \/ Goto(h, "evacuate") /\ UNCHANGED forced /\ Fault /\ Unrest
    /\ Recovering
    /\ UNCHANGED <<power, domain, evacuating, object, target, affected, todo, result, past>>

\* Nova evacuates an instance from a host that is down, to another one.
evacuate(h) ==
    /\ At(h, "request")
    /\ LET i == id[object[h]]
           n == nova_host[i]
       IN  IF /\ evacuating[i] = None /\ n \notin {None, target[h]}
              /\ n \in forced \/ power[n] # "up"
           THEN /\ evacuating' = [evacuating EXCEPT ![i] = target[h]]
                /\ Goto(h, "force up") /\ UNCHANGED stuck
           ELSE /\ stuck' = stuck \cup {failing[h]}
                /\ Goto(h, "evacuate") /\ UNCHANGED evacuating
    /\ Recovering /\ NoFault
    /\ UNCHANGED <<power, domain, forced, object, target, affected, todo, result,
                   healed, overtaken>>

\* Mutant: the service is not forced up again.
_nova_service_up_Skipped(h) ==
    /\ At(h, "force up") /\ Goto(h, "evacuate") /\ NoFault
    /\ Recovering
    /\ UNCHANGED <<cloud, object, target, affected, todo, result, past>>

_nova_service_up(h) ==
    /\ At(h, "force up") /\ Goto(h, "evacuate")
    /\ \/ forced' = forced \ {failing[h]} /\ stuck' = stuck \ {failing[h]} /\ NoFault
       \/ UNCHANGED forced /\ stuck' = stuck \cup {failing[h]} /\ Fault /\ Unrest
    /\ Recovering
    /\ UNCHANGED <<power, domain, evacuating, object, target, affected, todo, result,
                   healed, overtaken>>

\* Then the hosts of all of them are updated, one after the other.
UpdatesBegin(h) ==
    /\ At(h, "evacuate") /\ todo[h] = {} /\ Goto(h, "updates")
    /\ todo' = [todo EXCEPT ![h] = affected[h]]
    /\ Recovering /\ NoFault
    /\ UNCHANGED <<cloud, object, target, affected, result, past>>

UpdatesNext(h) ==
    /\ At(h, "updates")
    /\ IF todo[h] = {} THEN Goto(h, "boot") /\ UNCHANGED <<what, index, todo>>
       ELSE \E o \in todo[h] :
               /\ todo' = [todo EXCEPT ![h] = @ \ {o}]
               /\ what' = [what EXCEPT ![h] = id[o]]
               /\ index' = [index EXCEPT ![h] = 1]
               /\ Goto(h, "update")
    /\ UNCHANGED <<nova_host, memory, watched, op, object, original, final, requests, moves,
                   disturbed, cloud, threads, failing, means, target, affected, result, past>>
    /\ NoFault
----------------------------------------------------------------------------
(***************************************************************************)
(* RecoveryManager: the node.                                              *)
(***************************************************************************)
\* ipmitool: a node without an account raises, a command that fails is a failure; a
\* node that is reset or started may not come up.  Starting does nothing to a node
\* that runs.
Boot(h) ==
    /\ At(h, "boot")
    /\ LET n == failing[h]
       IN  \/ \E value \in {"raised", "false"} : Returns(h, value) /\ Fault /\ Unrest
              /\ UNCHANGED <<power, domain, healed>>
           \/ /\ means[h] = "start" /\ power[n] # "off"
              /\ Goto(h, "check") /\ NoFault /\ UNCHANGED <<power, domain, healed, result>>
           \/ /\ means[h] = "reboot" \/ power[n] = "off"
              /\ domain' = [domain EXCEPT ![n] = Halted(n)] /\ healed' = healed \ {n}
              /\ \/ power' = [power EXCEPT ![n] = "up"] /\ NoFault
                 \/ power' = [power EXCEPT ![n] = "off"] /\ Fault /\ Unrest
              /\ Goto(h, "check") /\ UNCHANGED result
    /\ Recovering
    /\ UNCHANGED <<forced, evacuating, object, target, affected, todo, stuck, overtaken>>

\* The node is pinged until it answers, or for check_timeout seconds.
_check_node_boot_success(h) ==
    /\ At(h, "check")
    /\ Returns(h, IF power[failing[h]] = "up" THEN "true" ELSE "false")
    /\ Recovering /\ NoFault
    /\ UNCHANGED <<cloud, object, target, affected, todo, past>>
----------------------------------------------------------------------------
(***************************************************************************)
(* RecoveryManager: an instance that has crashed, hangs or has no network. *)
(***************************************************************************)
RecoverInstance(h, i) ==
    /\ requests < MaxRequests /\ requests' = requests + 1
    /\ Begins(h, "recover_instance", i)
    /\ Unrest
    /\ UNCHANGED <<cloud, threads, recovery, faults, past>>

get_protected_instance(h) ==
    /\ At(h, "begin") /\ op[h] = "recover_instance"
    /\ IF Protected(what[h]) THEN Goto(h, "hard reboot") /\ UNCHANGED result
       ELSE Returns(h, "false")
    /\ Recovering /\ NoFault
    /\ UNCHANGED <<cloud, object, target, affected, todo, past>>

\* Mutant: the domain is started on a host the instance may have left.
hard_reboot_instance_Anywhere(h) ==
    /\ At(h, "hard reboot") /\ Goto(h, "validate")
    /\ \E n \in Hosts :
          /\ power[n] = "up" /\ evacuating[what[h]] = None
          /\ Domain(n, what[h], "on")
    /\ Recovering /\ NoFault
    /\ UNCHANGED <<power, forced, evacuating, object, target, affected, todo, result, past>>

\* Nova reboots it where it is; what it refuses is logged, and nothing more.
hard_reboot_instance(h) ==
    /\ At(h, "hard reboot") /\ Goto(h, "validate")
    /\ LET n == nova_host[what[h]]
       IN  IF n # None /\ evacuating[what[h]] = None /\ power[n] = "up" /\ n \notin forced
           THEN Domain(n, what[h], "on")
           ELSE UNCHANGED domain
    /\ Recovering /\ NoFault
    /\ UNCHANGED <<power, forced, evacuating, object, target, affected, todo, result, past>>

\* The instance must be active, and its network answer a ping.
ValidateInstance(h) ==
    /\ At(h, "validate")
    /\ Returns(h, IF \E n \in Hosts : power[n] = "up" /\ domain[n][what[h]] = "on"
                  THEN "true" ELSE "false")
    /\ Recovering /\ NoFault
    /\ UNCHANGED <<cloud, object, target, affected, todo, past>>

AnswerInstance(h) ==
    /\ At(h, "answer") /\ op[h] = "recover_instance"
    /\ Forget(h) /\ result' = [result EXCEPT ![h] = "none"]
    /\ UNCHANGED <<nova_host, memory, watched, requests, moves, disturbed>>
    /\ UNCHANGED <<cloud, threads, failing, means, target, affected, todo, faults, history>>
----------------------------------------------------------------------------
Recover(h) ==
    \/ _recover_vm(h) \/ undefine_instance(h)
    \/ _nova_service_down(h) \/ evacuate(h) \/ _nova_service_up(h)
    \/ UpdatesBegin(h) \/ UpdatesNext(h)
    \/ Boot(h) \/ _check_node_boot_success(h) \/ AnswerRecovery(h)
    \/ get_protected_instance(h) \/ hard_reboot_instance(h) \/ ValidateInstance(h)
    \/ AnswerInstance(h)

Step(h) == Recover(h) \/ (Handle(h) /\ UNCHANGED failoverVars)

Request(h) ==
    \/ /\ \E kind \in Kinds, about \in Hosts \cup Instances \cup {None} : Receive(h, kind, about)
       /\ Unrest /\ UNCHANGED <<cloud, threads, recovery, faults, past>>
    \/ \E i \in Instances : RecoverInstance(h, i)

Thread(n) == Detects(n) \/ Rechecks(n) \/ \E h \in Handlers : Calls(n, h)

World ==
    \/ \E n \in Hosts : Breaks(n) \/ Heals(n) \/ TimesOut(n)
    \/ \E i \in Instances : Crashes(i) \/ Evacuates(i)
    \/ \E i \in Instances, n \in Hosts \cup {None} : Migrates(i, n)

Next ==
    \/ \E h \in Handlers : Step(h) \/ Request(h)
    \/ \E n \in Hosts : Thread(n)
    \/ World

Fairness ==
    /\ \A h \in Handlers : WF_vars(Step(h))
    /\ \A n \in Hosts : WF_vars(Thread(n))

Spec == Init /\ [][Next]_vars
FairSpec == Spec /\ Fairness
----------------------------------------------------------------------------
AllPlaces ==
    Places \cup {"evacuate", "force down", "request", "force up", "updates", "boot", "check",
                 "hard reboot", "validate"}

\* Every variable has its type, and a recovery has what it needs where it needs it.
TypeOK ==
    /\ ProtectionTypeOK
    /\ pc \in [Handlers -> AllPlaces]
    /\ power \in [Hosts -> {"up", "cut", "off"}]
    /\ domain \in [Hosts -> [Instances -> {"none", "off", "on"}]]
    /\ forced \subseteq Hosts /\ {stuck, healed, overtaken} \subseteq SUBSET Hosts
    /\ evacuating \in [Instances -> Hosts \cup {None}]
    /\ thread \in [Hosts -> {"watch", "call", "await", "wait"}]
    /\ \A n \in Hosts : thread[n] = "call" => layers[n] # <<>>
    /\ \A h \in Handlers :
          /\ caller[h] \in Hosts \cup {None} /\ failing[h] \in Hosts \cup {None}
          /\ target[h] \in Hosts \cup {None}
          /\ todo[h] \subseteq Objects /\ affected[h] \subseteq Objects
          /\ result[h] \in {"none", "true", "false", "raised"}
          /\ op[h] = "recover" <=> failing[h] # None
          /\ pc[h] \in {"evacuate", "force down", "request", "force up"} => target[h] \in Hosts
          /\ pc[h] \in {"force down", "request", "force up"} => object[h] \in Objects
    /\ faults \in 0..MaxFaults

\* The compute service of a node is forced down only while an instance of it is being
\* evacuated, or after an evacuation of it raised.
ForcedDownBriefly ==
    \A n \in forced :
        n \in stuck \/ \E h \in Handlers : failing[h] = n /\ pc[h] \in {"request", "force up"}

\* A second copy of an instance runs only on a node that is cut off, or was and came
\* back before it was reset, or whose compute service an evacuation has left down, or
\* whose thread called for a recovery while an earlier one was under way.
RunsOnce ==
    \A i \in Instances, n \in Hosts :
        domain[n][i] = "on" /\ n # nova_host[i] =>
            power[n] = "cut" \/ n \in healed \cup stuck \cup overtaken

\* A recovery that had the system for itself and is about to answer with success has
\* left no affected instance behind: none runs on the node, and each runs or is being
\* rebuilt elsewhere.
RecoveredMeansSafe ==
    \A h \in Handlers :
        At(h, "answer") /\ op[h] = "recover" /\ result[h] = "true" /\ calm[h] =>
            \A o \in affected[h] :
                LET i == id[o]
                IN  /\ domain[failing[h]][i] # "on"
                    /\ \/ evacuating[i] # None
                       \/ nova_host[i] # failing[h] /\ domain[nova_host[i]][i] = "on"

\* A thread neither gives up without knowing nor tries for ever: a node of the cluster
\* that is not up gets up, or its thread knows that it could not be recovered.
FailureHandled ==
    \A n \in Hosts :
        n \in node_list /\ power[n] # "up" ~>
            power[n] = "up" \/ thread[n] = "wait" \/ n \notin node_list
=============================================================================
