-------------------------- MODULE InstanceDetector --------------------------
(***************************************************************************)
(* The instance table of one computing node and the two threads that share *)
(* it: libvirt's event loop, which runs the callbacks of InstanceDetector, *)
(* and the node's detection thread.  The controller reaches the table only *)
(* through a queue that either thread drains under a lock; everything else *)
(* the threads read and write without it, so each access is a step.        *)
(***************************************************************************)
EXTENDS Integers, Sequences

CONSTANTS
    Instances,
    NoInstance,   \* no instance is being looked at
    NoProvider,   \* the instances that Nova knows no address of in the provider network
    MaxEvents,    \* bound: how often an instance changes on its own
    MaxCommands,  \* bound: how often the controller gives a command
    MaxPending    \* bound: events under way

ASSUME NoInstanceIsNone == NoInstance \notin Instances
ASSUME BoundsTyped ==
    /\ MaxEvents \in Nat
    /\ MaxCommands \in Nat
    /\ MaxPending \in Nat

VARIABLES
    \* the world
    vm,           \* what each instance is really doing
    events,       \* libvirt events, the one the callback is handling first
    changes,      \* how often the instances have changed (bound)
    \* the controller
    protected,    \* the instances it wants watched on this node
    given,        \* how many commands it has given (bound)
    status,       \* the status of its Node, which the detection thread sets
    queue,        \* __instance_dict_update_queue
    \* the detector
    dictionary,   \* __instance_dictionary
    lock,         \* who holds __lock
    \* the threads
    pc,           \* where each thread is
    resume,       \* where it goes on when the queue has been drained
    loop_range,   \* how many commands it still drains
    item,         \* the command it has taken off the queue, as <<>> or <<command>>
    previous,     \* instance_previous_state
    current,      \* is failed_instance still the dictionary's list?
    names,        \* the instances of the running loop still to be looked at
    target,       \* instance_name
    confirming,   \* is the check part of __confirm_permanent_fault?
    answered,     \* ping_result
    value,        \* the state about to be written
    loop_exit,
    recorded      \* history: the user's shutdowns the callback has recorded

Callback  == "callback"
Detection == "detection"
Threads == {Callback, Detection}

world      == <<vm, events, changes>>
controller == <<protected, given, status>>
draining   == <<resume, loop_range, item>>
handling   == <<previous, current>>
checking   == <<names, target, confirming, answered, value, loop_exit>>
vars == <<world, controller, queue, dictionary, lock, pc, draining, handling,
          checking, recorded>>

Actions == {"add", "evacuate", "remove"}
Commands == [instance : Instances, action : Actions]
Kinds == {"failed", "watchdog", "destroyed", "started", "shutoff", "migrating"}
Events == [instance : Instances, kind : Kinds]

\* What a list of the dictionary says; an absent entry is NoEntry.
OPERATED == {"shutoff", "destroyed", "migrating"}
States == OPERATED \cup {"healthy", "evacuating", "started", "deleted", "fault"}
Entries == [state : States, os : BOOLEAN, power : BOOLEAN]
Entry(state, os, power) == [state |-> state, os |-> os, power |-> power]
NewEntry(state) == Entry(state, FALSE, FALSE)
NoEntry == NewEntry("absent")

Watched == {i \in Instances : dictionary[i] # NoEntry}

Init ==
    /\ vm = [i \in Instances |-> "running"]
    /\ events = <<>> /\ changes = 0
    /\ protected \in SUBSET Instances
    /\ given = 0 /\ queue = <<>> /\ status = "health"
    /\ dictionary = [i \in Instances |->
                        IF i \in protected \ NoProvider THEN NewEntry("healthy") ELSE NoEntry]
    /\ lock = "free"
    /\ pc = [t \in Threads |-> IF t = Callback THEN "idle" ELSE "poll"]
    /\ resume = [t \in Threads |-> "none"]
    /\ loop_range = [t \in Threads |-> 0]
    /\ item = [t \in Threads |-> <<>>]
    /\ previous = "absent" /\ current = FALSE
    /\ names = {} /\ target = NoInstance /\ confirming = FALSE /\ answered = FALSE
    /\ value = "healthy" /\ loop_exit = FALSE
    /\ recorded = [i \in Instances |-> "none"]
----------------------------------------------------------------------------
(***************************************************************************)
(* The world and the controller.                                           *)
(***************************************************************************)
\* Instance i changes in one of the ways libvirt tells (or does not tell) of.
Changes(i, from, to, kinds) ==
    /\ changes < MaxEvents /\ changes' = changes + 1
    /\ vm[i] \in from
    /\ vm' = [vm EXCEPT ![i] = to]
    /\ \E told \in kinds : events' = events \o told
    /\ Len(events') <= MaxPending

Told(i, kind) == <<[instance |-> i, kind |-> kind]>>

InstanceChanges(i) ==
    /\ \/ Changes(i, {"running", "hung"}, "crashed", {Told(i, "failed")})
       \/ Changes(i, {"running"}, "hung", {<<>>, Told(i, "watchdog")})
       \/ Changes(i, {"running"}, "stopped", {Told(i, "shutoff")})
       \/ Changes(i, {"stopped", "crashed"}, "running", {Told(i, "started")})
       \/ Changes(i, {"running"}, "running", {Told(i, "migrating")})
       \/ Changes(i, {"running", "crashed", "hung"}, "gone", {Told(i, "destroyed")})
    /\ UNCHANGED <<controller, queue, dictionary, lock, pc, draining, handling, checking,
                   recorded>>

\* The libvirt connection breaks: what it had to deliver is lost.
InHand == IF pc[Callback] = "idle" THEN <<>> ELSE <<Head(events)>>

EventsLost ==
    /\ events # InHand
    /\ events' = InHand
    /\ UNCHANGED <<vm, changes, controller, queue, dictionary, lock, pc, draining, handling, checking,
                   recorded>>

\* Node.send_update_instance: the node begins or ends to watch an instance.
send_update_instance(i) ==
    /\ given < MaxCommands /\ given' = given + 1
    /\ \E action \in (IF i \in protected THEN {"remove"} ELSE {"add", "evacuate"}) :
          queue' = Append(queue, [instance |-> i, action |-> action])
    /\ protected' = IF i \in protected THEN protected \ {i} ELSE protected \cup {i}
    /\ UNCHANGED <<world, status, dictionary, lock, pc, draining, handling, checking, recorded>>
----------------------------------------------------------------------------
(***************************************************************************)
(* __check_instance_update, run by either thread.                          *)
(***************************************************************************)
Drain(t, from, then) ==
    /\ pc[t] = from
    /\ pc' = [pc EXCEPT ![t] = "acquire"]
    /\ resume' = [resume EXCEPT ![t] = then]
    /\ UNCHANGED <<queue, dictionary, lock, loop_range, item>>

\* Mutant: the lock is not waited for.
Acquire_Unlocked(t) ==
    /\ pc[t] = "acquire"
    /\ lock' = t
    /\ loop_range' = [loop_range EXCEPT ![t] = Len(queue)]
    /\ pc' = [pc EXCEPT ![t] = "drain"]
    /\ UNCHANGED <<world, controller, queue, dictionary, resume, item, handling, checking,
                   recorded>>

\* lock.acquire() and qsize()
Acquire(t) ==
    /\ pc[t] = "acquire" /\ lock = "free"
    /\ lock' = t
    /\ loop_range' = [loop_range EXCEPT ![t] = Len(queue)]
    /\ pc' = [pc EXCEPT ![t] = "drain"]
    /\ UNCHANGED <<world, controller, queue, dictionary, resume, item, handling, checking,
                   recorded>>

\* queue.get() blocks while the queue is empty.
Get(t) ==
    /\ pc[t] = "drain" /\ loop_range[t] > 0 /\ queue # <<>>
    /\ item' = [item EXCEPT ![t] = <<Head(queue)>>]
    /\ queue' = Tail(queue)
    /\ loop_range' = [loop_range EXCEPT ![t] = @ - 1]
    /\ pc' = [pc EXCEPT ![t] = "apply"]
    /\ UNCHANGED <<world, controller, dictionary, lock, resume, handling, checking, recorded>>

\* The network of the instance is None, of which no list can be made.
Impossible(command) == command.action # "remove" /\ command.instance \in NoProvider

\* A command puts a new list into the dictionary, or takes the old one out of it;
\* a callback that holds the old list goes on writing to that.
Apply(t) ==
    /\ pc[t] = "apply" /\ ~Impossible(item[t][1])
    /\ LET command == item[t][1]
           i == command.instance
       IN  /\ dictionary' = [dictionary EXCEPT ![i] =
                  IF command.action = "remove" THEN NoEntry
                  ELSE NewEntry(IF command.action = "add" THEN "healthy" ELSE "evacuating")]
           /\ recorded' = [recorded EXCEPT ![i] = "none"]
           /\ current' = (current /\ Head(events).instance # i)
    /\ item' = [item EXCEPT ![t] = <<>>]
    /\ pc' = [pc EXCEPT ![t] = "drain"]
    /\ UNCHANGED <<world, controller, queue, lock, resume, loop_range, previous, checking>>

\* Mutant: the lock is not released on the way out.
ApplyRaises_Keeps(t) ==
    /\ pc[t] = "apply" /\ Impossible(item[t][1])
    /\ item' = [item EXCEPT ![t] = <<>>]
    /\ loop_range' = [loop_range EXCEPT ![t] = 0]
    /\ pc' = [pc EXCEPT ![t] = resume[t]]
    /\ UNCHANGED <<world, controller, queue, dictionary, lock, resume, handling, checking,
                   recorded>>

\* Mutant: the list is in the dictionary before it has its network.
ApplyRaises_Enters(t) ==
    /\ pc[t] = "apply" /\ Impossible(item[t][1])
    /\ dictionary' = [dictionary EXCEPT ![item[t][1].instance] = NewEntry("healthy")]
    /\ item' = [item EXCEPT ![t] = <<>>]
    /\ loop_range' = [loop_range EXCEPT ![t] = 0]
    /\ lock' = "free"
    /\ pc' = [pc EXCEPT ![t] = resume[t]]
    /\ UNCHANGED <<world, controller, queue, resume, handling, checking, recorded>>

\* The command is lost.  Those behind it are left to the next drain, and the caller
\* does not ask what became of this one.
ApplyRaises(t) ==
    /\ pc[t] = "apply" /\ Impossible(item[t][1])
    /\ item' = [item EXCEPT ![t] = <<>>]
    /\ loop_range' = [loop_range EXCEPT ![t] = 0]
    /\ lock' = "free"
    /\ pc' = [pc EXCEPT ![t] = resume[t]]
    /\ UNCHANGED <<world, controller, queue, dictionary, resume, handling, checking, recorded>>

\* Mutant: the lock is kept.
Release_Keeps(t) ==
    /\ pc[t] = "drain" /\ loop_range[t] = 0
    /\ lock' = lock
    /\ pc' = [pc EXCEPT ![t] = resume[t]]
    /\ UNCHANGED <<world, controller, queue, dictionary, draining, handling, checking, recorded>>

Release(t) ==
    /\ pc[t] = "drain" /\ loop_range[t] = 0
    /\ lock' = "free"
    /\ pc' = [pc EXCEPT ![t] = resume[t]]
    /\ UNCHANGED <<world, controller, queue, dictionary, draining, handling, checking, recorded>>

check_instance_update(t) ==
    Acquire(t) \/ Get(t) \/ Apply(t) \/ ApplyRaises(t) \/ Release(t)
----------------------------------------------------------------------------
(***************************************************************************)
(* __check_instance_state and __check_instance_watchdog                    *)
(***************************************************************************)
CallbackStarts ==
    /\ events # <<>>
    /\ Drain(Callback, "idle", "lookup")
    /\ UNCHANGED <<world, controller, handling, checking, recorded>>

Step(t, from, to) == pc[t] = from /\ pc' = [pc EXCEPT ![t] = to]

Handled(from) ==
    /\ Step(Callback, from, "idle")
    /\ events' = Tail(events)
    /\ previous' = "absent" /\ current' = FALSE

\* Mutant: an instance that is not protected has its event recorded all the same.
LookUp_Unprotected ==
    /\ Step(Callback, "lookup", "write")
    /\ previous' = dictionary[Head(events).instance].state /\ current' = TRUE
    /\ UNCHANGED events
    /\ UNCHANGED <<vm, changes, controller, queue, dictionary, lock, draining, checking, recorded>>

LookUp ==
    /\ pc[Callback] = "lookup"
    /\ LET i == Head(events).instance
       IN  IF i \in Watched
           THEN /\ Step(Callback, "lookup", "write")
                /\ previous' = dictionary[i].state /\ current' = TRUE
                /\ UNCHANGED events
           ELSE Handled("lookup")
    /\ UNCHANGED <<vm, changes, controller, queue, dictionary, lock, draining, checking, recorded>>

\* The state that an event of this kind leaves behind; the events of a reboot
\* leave the mark of a failed recovery alone.
StateAfter(kind, state) ==
    IF kind \in {"failed", "watchdog"} THEN state
    ELSE IF previous = "fault" /\ kind \in {"destroyed", "started"} THEN state
    ELSE kind

\* The first write of a handler, or all it does.
Write ==
    /\ pc[Callback] = "write"
    /\ LET i    == Head(events).instance
           kind == Head(events).kind
           left == dictionary[i]
       IN  /\ IF current
              THEN /\ dictionary' = [dictionary EXCEPT ![i] =
                          Entry(StateAfter(kind, left.state),
                                left.os \/ kind \in {"failed", "watchdog"}, left.power)]
                   /\ recorded' = [recorded EXCEPT ![i] =
                          IF kind = "shutoff" THEN "now"
                          ELSE IF kind = "started" THEN "none" ELSE @]
              ELSE UNCHANGED <<dictionary, recorded>>
           /\ IF kind = "failed"
              THEN Step(Callback, "write", "write power") /\ UNCHANGED <<events, handling>>
              ELSE Handled("write")
    /\ UNCHANGED <<vm, changes, controller, queue, lock, draining, checking>>

WritePower ==
    /\ Handled("write power")
    /\ LET left == dictionary[Head(events).instance]
       IN  dictionary' = IF current
                         THEN [dictionary EXCEPT ![Head(events).instance] =
                                  Entry(left.state, left.os, TRUE)]
                         ELSE dictionary
    /\ UNCHANGED <<vm, changes, controller, queue, lock, draining, checking, recorded>>
----------------------------------------------------------------------------
(***************************************************************************)
(* The detection thread: the instances are pinged one after the other.     *)
(***************************************************************************)
DStep(from, to) == Step(Detection, from, to)

\* The state that one of the dictionary's setters will leave, for whom.
Assign(from, state, for) ==
    /\ DStep(from, "assign")
    /\ value' = state
    /\ resume' = [resume EXCEPT ![Detection] = for]

\* What a step of the detection thread leaves alone, as a rule.
Elsewhere == <<world, controller, queue, lock, loop_range, item, handling>>

StartDetect ==
    /\ ~loop_exit /\ status = "health"
    /\ Drain(Detection, "poll", "list")
    /\ recorded' = [i \in Instances |->
                       IF recorded[i] = "now" THEN "earlier" ELSE recorded[i]]
    /\ UNCHANGED <<world, controller, handling, checking>>

\* Where a verification ends that is not about an instance (FaultDetection has the walk):
\* with an exception, with no end at all, with a fault that was transient, or with one of
\* the host.
HostLevelEnds == {"poll", "stuck", "update", "recover host"}

\* Without instances only the host is looked at.
ListInstances ==
    /\ \E to \in (IF Watched = {} THEN HostLevelEnds ELSE {"check"}) : DStep("list", to)
    /\ names' = Watched
    /\ UNCHANGED <<Elsewhere, dictionary, resume, target, confirming, answered, value,
                   loop_exit, recorded>>

CheckInstance(i) ==
    /\ i \in names
    /\ Drain(Detection, "check", "guard")
    /\ names' = names \ {i} /\ target' = i /\ confirming' = FALSE
    /\ UNCHANGED <<world, controller, handling, answered, value, loop_exit, recorded>>

\* Where detection goes on from an instance that is well.
NextCheck == IF confirming \/ names = {} THEN "update" ELSE "check"

AfterAssign ==
    IF resume[Detection] = "ping" THEN NextCheck
    ELSE IF resume[Detection] = "recovery" THEN "update" ELSE "inspect"

Operated(i) == dictionary[i].state \in OPERATED

\* The result of the last instance is that of the list: "not protected" has __verify
\* look for the fault of no instance.
LastUnprotected == target \notin Watched /\ ~confirming /\ names = {}

\* The first check.  While a fault is being confirmed, an instance that is no longer
\* protected has one: its result is not HEALTH.
Guard ==
    /\ DStep("guard",
             IF LastUnprotected THEN "diagnose"
             ELSE IF target \notin Watched THEN IF confirming THEN "third check" ELSE "check"
             ELSE IF Operated(target) THEN NextCheck ELSE "ping")
    /\ target' = IF LastUnprotected THEN NoInstance ELSE target
    /\ UNCHANGED <<Elsewhere, dictionary, resume, names, confirming, answered, value,
                   loop_exit, recorded>>

\* The address is read off the dictionary; if the entry has gone that raises
\* KeyError, and run() polls again.
PingInstance ==
    /\ DStep("ping", IF target \in Watched THEN "judge" ELSE "poll")
    /\ answered' = (vm[target] = "running")
    /\ UNCHANGED <<Elsewhere, dictionary, resume, names, target, confirming, value,
                   loop_exit, recorded>>

\* The second check.
Judge ==
    /\ pc[Detection] = "judge"
    /\ LET healthy == dictionary[target].state = "healthy"
       IN  \/ /\ ~answered /\ healthy
              /\ DStep("judge", IF confirming THEN "third check" ELSE "diagnose")
              /\ UNCHANGED <<resume, value>>
           \/ /\ answered /\ ~healthy
              /\ Assign("judge", "healthy", "ping")
           \/ /\ answered <=> healthy
              /\ DStep("judge", NextCheck)
              /\ UNCHANGED <<resume, value>>
    /\ answered' = FALSE
    /\ UNCHANGED <<Elsewhere, dictionary, names, target, confirming, loop_exit, recorded>>

Flagged(i) == dictionary[i].os \/ dictionary[i].power

\* __verify blames the host, a layer whose flag it has read, or the network of the
\* instance, into which the layers of the flags may be merged.
Diagnose ==
    /\ \/ \E to \in HostLevelEnds : DStep("diagnose", to) /\ UNCHANGED <<resume, confirming>>
       \/ /\ target \in Watched /\ Flagged(target)
          /\ DStep("diagnose", "confirm flags")
          /\ UNCHANGED <<resume, confirming>>
       \/ /\ DStep("diagnose", "acquire")
          /\ resume' = [resume EXCEPT ![Detection] = "guard"] /\ confirming' = TRUE
    /\ UNCHANGED <<Elsewhere, dictionary, names, target, answered, value, loop_exit, recorded>>

\* Anything but HEALTH confirms the fault: the flag, an instance that is not protected,
\* and libvirt that has gone.  An entry that goes between two looks raises KeyError.
ConfirmFlags ==
    /\ \/ DStep("confirm flags", "third check")
       \/ target \in Watched /\ ~Flagged(target) /\ DStep("confirm flags", "update")
       \/ target \notin Watched /\ DStep("confirm flags", "poll")
    /\ UNCHANGED <<Elsewhere, dictionary, resume, checking, recorded>>

StartThirdCheck ==
    /\ Drain(Detection, "third check", "recoverable")
    /\ UNCHANGED <<world, controller, handling, checking, recorded>>

\* Mutant: the third check forgets the operations.
check_instance_state_for_recovery_Protected ==
    /\ DStep("recoverable", IF target \in Watched THEN "recover" ELSE "update")
    /\ UNCHANGED <<Elsewhere, dictionary, resume, checking, recorded>>

\* The third check.
check_instance_state_for_recovery ==
    /\ DStep("recoverable",
             IF target \in Watched /\ ~Operated(target) THEN "recover" ELSE "update")
    /\ UNCHANGED <<Elsewhere, dictionary, resume, checking, recorded>>
----------------------------------------------------------------------------
(***************************************************************************)
(* Recovery, and what its outcome leaves in the dictionary.                *)
(***************************************************************************)
\* The controller rebooted the instance, or says so.
RecoverySucceeds ==
    /\ Assign("recover", "healthy", "recovery")
    /\ \/ /\ vm[target] # "gone" /\ Len(events) + 2 <= MaxPending
          /\ vm' = [vm EXCEPT ![target] = "running"]
          /\ events' = events \o Told(target, "destroyed") \o Told(target, "started")
       \/ UNCHANGED <<vm, events>>
    /\ UNCHANGED <<changes, controller, queue, dictionary, lock, loop_range, item, handling,
                   names, target, confirming, answered, loop_exit, recorded>>

RecoveryFails ==
    /\ Assign("recover", "fault", "recovery")
    /\ UNCHANGED <<Elsewhere, dictionary, names, target, confirming, answered, loop_exit,
                   recorded>>

\* The recovery of the host, of all the layers that were merged.
HostRecovers ==
    /\ DStep("recover host", "update")
    /\ status' \in {"health", "failed"}
    /\ UNCHANGED <<world, protected, given, queue, lock, loop_range, item, handling, dictionary,
                   resume, checking, recorded>>

\* After a recovery that failed the node is only pinged until it answers; the thread does
\* nothing else, not even stop.
AwaitHost ==
    /\ ~loop_exit /\ status # "health"
    /\ DStep("poll", "await")
    /\ UNCHANGED <<Elsewhere, dictionary, resume, checking, recorded>>

HostIsBack ==
    /\ DStep("await", "update")
    /\ status' = "health"
    /\ UNCHANGED <<world, protected, given, queue, lock, loop_range, item, handling, dictionary,
                   resume, checking, recorded>>

\* revert_to_default and set_instance_state look the instance up ...
AssignCheck ==
    /\ DStep("assign", IF target \notin Watched THEN AfterAssign
                       ELSE IF value = "healthy" THEN "assign flags" ELSE "assign state")
    /\ UNCHANGED <<Elsewhere, dictionary, resume, checking, recorded>>

\* ... and again for every write.  If the entry has gone in between that raises
\* KeyError: run() polls again after detect(), gives up the thread after a recovery,
\* and does not catch it at all while it brings the table up to date.
AssignRaises ==
    /\ pc[Detection] \in {"assign flags", "assign state"} /\ target \notin Watched
    /\ pc' = [pc EXCEPT ![Detection] =
                 IF resume[Detection] = "ping" THEN "poll"
                 ELSE IF resume[Detection] = "recovery" THEN "update" ELSE "dead"]
    /\ loop_exit' = (loop_exit \/ resume[Detection] = "recovery")
    /\ UNCHANGED <<Elsewhere, dictionary, resume, names, target, confirming, answered, value,
                   recorded>>

AssignFlags ==
    /\ target \in Watched
    /\ DStep("assign flags", "assign state")
    /\ dictionary' = [dictionary EXCEPT ![target] = NewEntry(dictionary[target].state)]
    /\ UNCHANGED <<Elsewhere, resume, checking, recorded>>

AssignState ==
    /\ target \in Watched
    /\ DStep("assign state", AfterAssign)
    /\ dictionary' = [dictionary EXCEPT ![target] =
                          Entry(value, dictionary[target].os, dictionary[target].power)]
    /\ UNCHANGED <<Elsewhere, resume, checking, recorded>>
----------------------------------------------------------------------------
(***************************************************************************)
(* __update_instance_information_in_cluster                                *)
(***************************************************************************)
StartUpdate ==
    /\ Drain(Detection, "update", "names")
    /\ names' = {} /\ target' = NoInstance /\ confirming' = FALSE
    /\ UNCHANGED <<world, controller, handling, answered, value, loop_exit, recorded>>

get_instance_name_list ==
    /\ DStep("names", "inspect")
    /\ names' = Watched
    /\ UNCHANGED <<Elsewhere, dictionary, resume, target, confirming, answered, value,
                   loop_exit, recorded>>

\* Of an instance that has gone the state is None, and asking whether None is in a
\* string raises TypeError, which nobody catches.  A destroyed instance that Nova
\* does not know any more is marked and deleted from the cluster.
InspectInstance(i) ==
    /\ i \in names
    /\ names' = names \ {i}
    /\ LET deleted == dictionary[i].state = "destroyed" /\ vm[i] = "gone"
       IN  \/ /\ i \in Watched /\ deleted
              /\ Assign("inspect", "deleted", "table")
              /\ target' = i
           \/ /\ ~(i \in Watched /\ deleted)
              /\ DStep("inspect", IF i \in Watched THEN "inspect" ELSE "dead")
              /\ UNCHANGED <<resume, value, target>>
    /\ UNCHANGED <<Elsewhere, dictionary, confirming, answered, loop_exit, recorded>>

Sleep ==
    /\ names = {}
    /\ DStep("inspect", IF loop_exit THEN "exited" ELSE "poll")
    /\ UNCHANGED <<Elsewhere, dictionary, resume, checking, recorded>>
----------------------------------------------------------------------------
CallbackThread ==
    CallbackStarts \/ check_instance_update(Callback) \/ LookUp \/ Write \/ WritePower

DetectionThread ==
    \/ StartDetect \/ check_instance_update(Detection) \/ ListInstances
    \/ \E i \in Instances : CheckInstance(i) \/ InspectInstance(i)
    \/ Guard \/ PingInstance \/ Judge \/ Diagnose \/ ConfirmFlags
    \/ StartThirdCheck \/ check_instance_state_for_recovery
    \/ RecoverySucceeds \/ RecoveryFails \/ HostRecovers \/ AwaitHost
    \/ AssignCheck \/ AssignRaises \/ AssignFlags \/ AssignState
    \/ StartUpdate \/ get_instance_name_list \/ Sleep

World == EventsLost \/ \E i \in Instances : InstanceChanges(i) \/ send_update_instance(i)

Next == CallbackThread \/ DetectionThread \/ HostIsBack \/ World

Spec == Init /\ [][Next]_vars

\* Python runs both threads, and a lock that is free is taken; but nothing says that a
\* node that is awaited ever answers.
FairSpec == Spec /\ WF_vars(CallbackThread) /\ WF_vars(DetectionThread)
----------------------------------------------------------------------------
DetectionPlaces ==
    {"poll", "acquire", "drain", "apply", "list", "check", "guard", "ping", "judge", "diagnose",
     "confirm flags", "third check", "recoverable", "recover", "recover host", "await", "assign",
     "assign flags", "assign state", "update", "names", "inspect", "stuck", "dead", "exited"}
CallbackPlaces == {"idle", "acquire", "drain", "apply", "lookup", "write", "write power"}

\* Every variable has its type; the callback is at work only on an event, and
\* detection pings, judges and recovers only an instance that has a name.
TypeOK ==
    /\ vm \in [Instances -> {"running", "crashed", "hung", "stopped", "gone"}]
    /\ events \in Seq(Events) /\ Len(events) <= MaxPending
    /\ changes \in 0..MaxEvents /\ given \in 0..MaxCommands
    /\ protected \subseteq Instances /\ status \in {"health", "failed"}
    /\ queue \in Seq(Commands) /\ Len(queue) <= MaxCommands
    /\ dictionary \in [Instances -> Entries \cup {NoEntry}]
    /\ lock \in Threads \cup {"free"}
    /\ pc[Detection] \in DetectionPlaces /\ pc[Callback] \in CallbackPlaces
    /\ loop_range \in [Threads -> 0..MaxCommands]
    /\ \A t \in Threads : item[t] = <<>> \/ item[t][1] \in Commands
    /\ previous \in States \cup {"absent"} /\ current \in BOOLEAN
    /\ pc[Callback] # "idle" => events # <<>>
    /\ names \subseteq Instances /\ target \in Instances \cup {NoInstance}
    /\ pc[Detection] \in {"ping", "judge", "confirm flags", "recover", "assign state"}
          => target \in Instances
    /\ confirming \in BOOLEAN /\ answered \in BOOLEAN /\ loop_exit \in BOOLEAN
    /\ value \in {"healthy", "fault", "deleted"}
    /\ recorded \in [Instances -> {"none", "now", "earlier"}]

\* Queue.get never blocks a thread that holds the lock: each finds the commands it
\* has counted, though the two threads drain one queue.
GetNeverBlocks == \A t \in Threads : pc[t] = "drain" => loop_range[t] <= Len(queue)

\* Whichever thread drains them, the controller's commands take effect once each
\* and in the order they were given, but for those that cannot be obeyed.
List == INSTANCE WatchList WITH watched <- Watched,
                                pending <- item[Callback] \o item[Detection] \o queue
WatchListImplemented == List!Spec

\* Detection's table catches up with the controller's, but for the instances that it
\* cannot watch, and whatever their commands do to the others': unless the thread has
\* ended or never leaves __verify, or awaits for ever a node whose recovery has failed,
\* for meanwhile it drains no queue.
TableCatchesUp ==
    \/ <>(loop_exit \/ pc[Detection] \in {"dead", "stuck"})
    \/ <>[](pc[Detection] = "await")
    \/ <>[](Watched = protected \ NoProvider)

RecoveryStarts == pc[Detection] # "recover" /\ pc'[Detection] = "recover"

\* The three checks of a detection: an instance whose shutdown the callback has
\* recorded while the detection ran is not handed to recovery by it.
RecentShutdownRespected ==
    [][RecoveryStarts => recorded[target] # "now"]_vars

\* An instance whose shutdown was ever recorded is not started again by a recovery,
\* until its user has started it.
ShutdownRespected ==
    [][RecoveryStarts => recorded[target] = "none"]_vars

\* The detection thread outlives what it does to the table.
ThreadSurvives == pc[Detection] # "dead" /\ ~loop_exit
=============================================================================
