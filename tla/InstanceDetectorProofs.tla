---------------------- MODULE InstanceDetectorProofs ----------------------
(***************************************************************************)
(* Proofs about InstanceDetector, for every set of instances and all       *)
(* bounds: types, the discipline of the lock, that the table obeys the     *)
(* commands of the controller as WatchList says, and that a detection sees *)
(* the shutdowns that are recorded while it runs.                          *)
(***************************************************************************)
EXTENDS InstanceDetector, SequenceTheorems, TLAPS

Draining == {"drain", "apply"}
Assigning == {"assign", "assign flags", "assign state"}

\* The thread that holds the lock is the one that drains, and each thread goes on
\* from a drain or an assignment where it can.
Locked ==
    /\ lock \in Threads \cup {"free"}
    /\ DOMAIN pc = Threads
    /\ pc[Detection] \in DetectionPlaces /\ pc[Callback] \in CallbackPlaces
    /\ \A t \in Threads : pc[t] \in Draining <=> lock = t
    /\ DOMAIN resume = Threads
    /\ pc[Callback] \in Draining \cup {"acquire"} => resume[Callback] = "lookup"
    /\ pc[Detection] \in Draining \cup {"acquire"} =>
          resume[Detection] \in {"list", "guard", "recoverable", "names"}
    /\ pc[Detection] \in Assigning => resume[Detection] \in {"ping", "recovery", "table"}

\* The queue, what the draining thread has counted and what it has taken.
Queued ==
    /\ queue \in Seq(Commands)
    /\ given \in 0..MaxCommands /\ Len(queue) <= given
    /\ loop_range \in [Threads -> 0..MaxCommands]
    /\ \A t \in Threads : pc[t] \in Draining => loop_range[t] <= Len(queue)
    /\ item \in [Threads -> Seq(Commands)]
    /\ \A t \in Threads : pc[t] # "apply" => item[t] = <<>>
    /\ \A t \in Threads : pc[t] = "apply" => \E c \in Commands : item[t] = <<c>>

\* The events, and the table; as long as the list the callback holds is the
\* dictionary's, its instance is watched.
Tabled ==
    /\ events \in Seq(Events) /\ Len(events) <= MaxPending
    /\ pc[Callback] # "idle" => events # <<>>
    /\ dictionary \in [Instances -> Entries \cup {NoEntry}]
    /\ previous \in States \cup {"absent"} /\ current \in BOOLEAN
    /\ value \in {"healthy", "fault", "deleted"}
    /\ current => /\ pc[Callback] \in {"write", "write power"}
                  /\ dictionary[Head(events).instance] # NoEntry

\* The instance that detection pings, judges, recovers or writes of.
Looking ==
    /\ names \subseteq Instances /\ target \in Instances \cup {NoInstance}
    /\ confirming \in BOOLEAN /\ answered \in BOOLEAN /\ loop_exit \in BOOLEAN
    /\ pc[Detection] \in {"ping", "judge", "confirm flags", "recover"} \cup Assigning
          => target \in Instances

\* The world, and what is recorded of it.
Outside ==
    /\ vm \in [Instances -> {"running", "crashed", "hung", "stopped", "gone"}]
    /\ changes \in 0..MaxEvents
    /\ protected \subseteq Instances /\ status \in {"health", "failed"}
    /\ recorded \in [Instances -> {"none", "now", "earlier"}]

\* The inductive invariant.
IInv == Locked /\ Queued /\ Tabled /\ Looking /\ Outside
----------------------------------------------------------------------------
\* A step of the detection thread outside a drain: where it goes, and what it leaves.
DetectionMoves ==
    /\ pc[Detection] \notin Draining
    /\ DOMAIN pc' = Threads /\ pc'[Callback] = pc[Callback]
    /\ pc'[Detection] \in DetectionPlaces \ Draining
    /\ DOMAIN resume' = Threads /\ resume'[Callback] = resume[Callback]
    /\ pc'[Detection] = "acquire" =>
          resume'[Detection] \in {"list", "guard", "recoverable", "names"}
    /\ pc'[Detection] \in Assigning => resume'[Detection] \in {"ping", "recovery", "table"}
    /\ UNCHANGED <<queue, given, protected, lock, loop_range, item, previous, current>>

DetectionAside ==
    \/ StartDetect \/ ListInstances
    \/ \E i \in Instances : CheckInstance(i) \/ InspectInstance(i)
    \/ Guard \/ PingInstance \/ Judge \/ Diagnose \/ ConfirmFlags
    \/ StartThirdCheck \/ check_instance_state_for_recovery
    \/ RecoverySucceeds \/ RecoveryFails \/ HostRecovers \/ AwaitHost \/ HostIsBack
    \/ AssignCheck \/ AssignRaises \/ AssignFlags \/ AssignState
    \/ StartUpdate \/ get_instance_name_list \/ Sleep

\* Every step of the detection thread outside a drain is such a move.
LEMMA DetectionAsideMoves == ASSUME Locked, DetectionAside PROVE DetectionMoves
<1> USE DEF Locked, DetectionMoves, DetectionPlaces, Draining, Assigning, Threads, Callback,
            Detection, DStep, Step, Elsewhere, world, controller, handling, checking
<1>1. CASE StartDetect
  BY <1>1 DEF StartDetect, Drain
<1>2. CASE ListInstances
  BY <1>2 DEF ListInstances, HostLevelEnds
<1>3. ASSUME NEW i \in Instances, CheckInstance(i) PROVE DetectionMoves
  BY <1>3 DEF CheckInstance, Drain
<1>4. ASSUME NEW i \in Instances, InspectInstance(i) PROVE DetectionMoves
  BY <1>4 DEF InspectInstance, Assign
<1>5. CASE Guard
  BY <1>5 DEF Guard, NextCheck
<1>6. CASE PingInstance
  BY <1>6 DEF PingInstance
<1>7. CASE Judge
  BY <1>7 DEF Judge, Assign, NextCheck
<1>8. CASE Diagnose
  BY <1>8 DEF Diagnose, HostLevelEnds
<1>9. CASE ConfirmFlags
  BY <1>9 DEF ConfirmFlags
<1>10. CASE StartThirdCheck
  BY <1>10 DEF StartThirdCheck, Drain
<1>11. CASE check_instance_state_for_recovery
  BY <1>11 DEF check_instance_state_for_recovery
<1>12. CASE RecoverySucceeds
  BY <1>12 DEF RecoverySucceeds, Assign
<1>13. CASE RecoveryFails
  BY <1>13 DEF RecoveryFails, Assign
<1>14. CASE AssignCheck
  BY <1>14 DEF AssignCheck, AfterAssign, NextCheck
<1>15. CASE AssignRaises
  BY <1>15 DEF AssignRaises
<1>16. CASE AssignFlags
  BY <1>16 DEF AssignFlags
<1>17. CASE AssignState
  BY <1>17 DEF AssignState, AfterAssign, NextCheck
<1>18. CASE StartUpdate
  BY <1>18 DEF StartUpdate, Drain
<1>19. CASE get_instance_name_list
  BY <1>19 DEF get_instance_name_list
<1>20. CASE Sleep
  BY <1>20 DEF Sleep
<1>21. CASE HostRecovers
  BY <1>21 DEF HostRecovers
<1>22. CASE AwaitHost
  BY <1>22 DEF AwaitHost
<1>23. CASE HostIsBack
  BY <1>23 DEF HostIsBack
<1> QED
  BY <1>1, <1>2, <1>3, <1>4, <1>5, <1>6, <1>7, <1>8, <1>9, <1>10, <1>11, <1>12, <1>13, <1>14,
     <1>15, <1>16, <1>17, <1>18, <1>19, <1>20, <1>21, <1>22, <1>23 DEF DetectionAside

\* A step of the callback outside a drain, likewise.
CallbackMoves ==
    /\ pc[Callback] \notin Draining
    /\ DOMAIN pc' = Threads /\ pc'[Detection] = pc[Detection]
    /\ pc'[Callback] \in CallbackPlaces \ Draining
    /\ DOMAIN resume' = Threads /\ resume'[Detection] = resume[Detection]
    /\ pc'[Callback] = "acquire" => resume'[Callback] = "lookup"
    /\ UNCHANGED <<queue, given, protected, lock, loop_range, item, value>>

CallbackAside == CallbackStarts \/ LookUp \/ Write \/ WritePower

\* Every step of the callback outside a drain is such a move.
LEMMA CallbackAsideMoves == ASSUME Locked, CallbackAside PROVE CallbackMoves
<1> USE DEF Locked, CallbackMoves, CallbackPlaces, Draining, Threads, Callback, Detection, Step,
            Handled, world, controller, draining, handling, checking
<1>1. CASE CallbackStarts
  BY <1>1 DEF CallbackStarts, Drain
<1>2. CASE LookUp
  BY <1>2 DEF LookUp
<1>3. CASE Write
  BY <1>3 DEF Write
<1>4. CASE WritePower
  BY <1>4 DEF WritePower
<1> QED
  BY <1>1, <1>2, <1>3, <1>4 DEF CallbackAside

\* The steps that concern neither thread.
WorldAside == EventsLost \/ \E i \in Instances : InstanceChanges(i)
Commanded == \E i \in Instances : send_update_instance(i)
Drains == \E t \in Threads : check_instance_update(t)

\* What happens to the instances and their events touches nothing of the threads.
LEMMA WorldAsideMoves ==
    ASSUME WorldAside
    PROVE  UNCHANGED <<queue, given, protected, lock, loop_range, item, pc, resume, dictionary,
                       handling, checking, recorded>>
  BY DEF WorldAside, EventsLost, InstanceChanges, controller, draining, handling, checking

\* A step is one of a thread outside a drain, of a drain, of the world or of the
\* controller.
LEMMA NextSplits ==
    ASSUME [Next]_vars
    PROVE  DetectionAside \/ CallbackAside \/ WorldAside \/ Commanded \/ Drains \/ UNCHANGED vars
  BY DEF Next, CallbackThread, DetectionThread, World, DetectionAside, CallbackAside, WorldAside,
         Commanded, Drains, Threads
----------------------------------------------------------------------------
\* At first no thread drains and the lock is free.
LEMMA InitLocked == Init => Locked
  BY DEF Init, Locked, Threads, Callback, Detection, DetectionPlaces, CallbackPlaces, Draining,
         Assigning

\* Only the holder of the lock drains: a step takes it when it is free and gives it
\* back when it has drained.
LEMMA NextLocked == ASSUME Locked, [Next]_vars PROVE Locked'
<1>1. CASE DetectionAside
  BY <1>1, DetectionAsideMoves
     DEF DetectionMoves, Locked, Threads, Callback, Detection, Draining
<1>2. CASE CallbackAside
  BY <1>2, CallbackAsideMoves
     DEF CallbackMoves, Locked, Threads, Callback, Detection, Draining
<1>3. CASE WorldAside
  BY <1>3, WorldAsideMoves DEF Locked
<1>4. CASE Commanded
  BY <1>4 DEF Commanded, send_update_instance, draining, Locked
<1>5. ASSUME NEW t \in Threads, check_instance_update(t) PROVE Locked'
  <2> USE DEF Locked, Threads, Callback, Detection, DetectionPlaces, CallbackPlaces, Draining,
              Assigning, draining
  <2>1. CASE Acquire(t)
    BY <2>1 DEF Acquire
  <2>2. CASE Get(t)
    BY <2>2 DEF Get
  <2>3. CASE Apply(t)
    BY <2>3 DEF Apply
  <2>4. CASE Release(t) \/ ApplyRaises(t)
    <3>1. /\ lock = t /\ lock' = "free" /\ resume' = resume
          /\ DOMAIN pc' = Threads /\ pc'[t] = resume[t]
          /\ \A u \in Threads : u # t => pc'[u] = pc[u]
      BY <2>4 DEF Release, ApplyRaises
    <3>2. \A u \in Threads : pc'[u] \notin Draining
      BY <2>4, <3>1 DEF Release, ApplyRaises
    <3>3. CASE t = Detection
      BY <2>4, <3>1, <3>2, <3>3 DEF Release, ApplyRaises
    <3>4. CASE t = Callback
      BY <2>4, <3>1, <3>2, <3>4 DEF Release, ApplyRaises
    <3> QED
      BY <3>3, <3>4
  <2> QED
    BY <1>5, <2>1, <2>2, <2>3, <2>4 DEF check_instance_update
<1>6. CASE UNCHANGED vars
  BY <1>6 DEF vars, draining, Locked
<1> QED
  BY <1>1, <1>2, <1>3, <1>4, <1>5, <1>6, NextSplits DEF Drains
----------------------------------------------------------------------------
\* At first no command is queued and none is taken.
LEMMA InitQueued == Init => Queued
  BY BoundsTyped DEF Init, Queued, Threads, Callback, Detection, Draining

\* No other thread takes a command that the holder of the lock has counted.
LEMMA NextQueued == ASSUME Locked, Queued, [Next]_vars PROVE Queued'
<1>1. CASE DetectionAside
  BY <1>1, DetectionAsideMoves
     DEF DetectionMoves, Queued, Threads, Callback, Detection, Draining
<1>2. CASE CallbackAside
  BY <1>2, CallbackAsideMoves
     DEF CallbackMoves, Queued, Threads, Callback, Detection, Draining
<1>3. CASE WorldAside
  BY <1>3, WorldAsideMoves DEF Queued
<1>4. CASE Commanded
  <2>1. PICK i \in Instances : send_update_instance(i)
    BY <1>4 DEF Commanded
  <2>2. PICK action \in Actions : queue' = Append(queue, [instance |-> i, action |-> action])
    BY <2>1 DEF send_update_instance, Actions
  <2>3. [instance |-> i, action |-> action] \in Commands
    BY DEF Commands
  <2>4. given' = given + 1 /\ given < MaxCommands /\ UNCHANGED <<loop_range, pc, item>>
    BY <2>1 DEF send_update_instance, draining
  <2>5. queue' \in Seq(Commands) /\ Len(queue') = Len(queue) + 1
    BY <2>2, <2>3 DEF Queued
  <2>6. queue' \in Seq(Commands) /\ given' \in 0..MaxCommands /\ Len(queue') <= given'
    BY <2>4, <2>5, BoundsTyped DEF Queued
  <2>7. \A t \in Threads : pc'[t] \in Draining => loop_range'[t] <= Len(queue')
    BY <2>4, <2>5 DEF Queued
  <2>8. /\ loop_range' \in [Threads -> 0..MaxCommands]
        /\ item' \in [Threads -> Seq(Commands)]
        /\ \A t \in Threads : pc'[t] # "apply" => item'[t] = <<>>
        /\ \A t \in Threads : pc'[t] = "apply" => \E c \in Commands : item'[t] = <<c>>
    BY <2>4 DEF Queued
  <2> QED
    BY <2>6, <2>7, <2>8 DEF Queued
<1>5. ASSUME NEW t \in Threads, check_instance_update(t) PROVE Queued'
  <2> USE DEF Queued, Locked, Threads, Callback, Detection, Draining, draining, controller
  <2>1. CASE Acquire(t)
    BY <2>1, BoundsTyped DEF Acquire
  <2>2. CASE Get(t)
    BY <2>2, BoundsTyped DEF Get
  <2>3. CASE Apply(t)
    BY <2>3, BoundsTyped DEF Apply
  <2>4. CASE Release(t)
    BY <2>4, BoundsTyped DEF Release
  <2>5. CASE ApplyRaises(t)
    BY <2>5, BoundsTyped DEF ApplyRaises
  <2> QED
    BY <1>5, <2>1, <2>2, <2>3, <2>4, <2>5 DEF check_instance_update
<1>6. CASE UNCHANGED vars
  BY <1>6 DEF vars, draining, controller, Queued
<1> QED
  BY <1>1, <1>2, <1>3, <1>4, <1>5, <1>6, NextSplits DEF Drains
----------------------------------------------------------------------------
\* At first detection looks at no instance.
LEMMA InitLooking == Init => Looking
  BY DEF Init, Looking, Draining, Assigning, Detection, Threads, Callback

\* Detection has an instance wherever it needs one.
LEMMA NextLooking ==
    ASSUME Locked, Looking, Tabled, [Next]_vars PROVE Looking'
<1> USE DEF Looking, Draining, Assigning, Detection
<1>1. CASE DetectionAside
  <2> USE DEF Locked, Threads, Callback, DStep, Step, Elsewhere, world, controller, handling,
              checking
  <2>1. CASE StartDetect
    BY <2>1 DEF StartDetect, Drain
  <2>2. CASE ListInstances
    BY <2>2 DEF ListInstances, Watched, HostLevelEnds
  <2>3. ASSUME NEW i \in Instances, CheckInstance(i) PROVE Looking'
    BY <2>3 DEF CheckInstance, Drain
  <2>4. ASSUME NEW i \in Instances, InspectInstance(i) PROVE Looking'
    BY <2>4 DEF InspectInstance, Assign
  <2>5. CASE Guard
    BY <2>5 DEF Guard, NextCheck, Watched
  <2>6. CASE PingInstance
    BY <2>6 DEF PingInstance
  <2>7. CASE Judge
    BY <2>7 DEF Judge, Assign, NextCheck
  <2>8. CASE Diagnose
    BY <2>8 DEF Diagnose, HostLevelEnds, Watched
  <2>9. CASE ConfirmFlags
    BY <2>9 DEF ConfirmFlags
  <2>10. CASE StartThirdCheck
    BY <2>10 DEF StartThirdCheck, Drain
  <2>11. CASE check_instance_state_for_recovery
    BY <2>11 DEF check_instance_state_for_recovery, Watched
  <2>12. CASE RecoverySucceeds
    BY <2>12 DEF RecoverySucceeds, Assign
  <2>13. CASE RecoveryFails
    BY <2>13 DEF RecoveryFails, Assign
  <2>14. CASE AssignCheck
    BY <2>14 DEF AssignCheck, AfterAssign, NextCheck
  <2>15. CASE AssignRaises
    BY <2>15 DEF AssignRaises
  <2>16. CASE AssignFlags
    BY <2>16 DEF AssignFlags
  <2>17. CASE AssignState
    BY <2>17 DEF AssignState, AfterAssign, NextCheck
  <2>18. CASE StartUpdate
    BY <2>18 DEF StartUpdate, Drain
  <2>19. CASE get_instance_name_list
    BY <2>19 DEF get_instance_name_list, Watched
  <2>20. CASE Sleep
    BY <2>20 DEF Sleep
  <2>21. CASE HostRecovers
    BY <2>21 DEF HostRecovers
  <2>22. CASE AwaitHost
    BY <2>22 DEF AwaitHost
  <2>23. CASE HostIsBack
    BY <2>23 DEF HostIsBack
  <2> QED
    BY <1>1, <2>1, <2>2, <2>3, <2>4, <2>5, <2>6, <2>7, <2>8, <2>9, <2>10, <2>11, <2>12, <2>13,
       <2>14, <2>15, <2>16, <2>17, <2>18, <2>19, <2>20, <2>21, <2>22, <2>23 DEF DetectionAside
<1>2. CASE CallbackAside
  <2>1. UNCHANGED checking
    BY <1>2 DEF CallbackAside, CallbackStarts, LookUp, Write, WritePower
  <2> QED
    BY <1>2, <2>1, CallbackAsideMoves DEF CallbackMoves, checking
<1>3. CASE WorldAside
  BY <1>3, WorldAsideMoves DEF checking
<1>4. CASE Commanded
  BY <1>4 DEF Commanded, send_update_instance, draining, checking
<1>5. ASSUME NEW t \in Threads, check_instance_update(t) PROVE Looking'
  <2> USE DEF Locked, Threads, Callback, DetectionPlaces, CallbackPlaces, draining, checking
  <2>1. CASE Acquire(t)
    BY <2>1 DEF Acquire
  <2>2. CASE Get(t)
    BY <2>2 DEF Get
  <2>3. CASE Apply(t)
    BY <2>3 DEF Apply
  <2>4. CASE Release(t)
    BY <2>4 DEF Release
  <2>5. CASE ApplyRaises(t)
    BY <2>5 DEF ApplyRaises
  <2> QED
    BY <1>5, <2>1, <2>2, <2>3, <2>4, <2>5 DEF check_instance_update
<1>6. CASE UNCHANGED vars
  BY <1>6 DEF vars, draining, checking
<1> QED
  BY <1>1, <1>2, <1>3, <1>4, <1>5, <1>6, NextSplits DEF Drains
----------------------------------------------------------------------------
\* The lists of the dictionary.
LEMMA EntryTyped ==
    ASSUME NEW state \in States, NEW os \in BOOLEAN, NEW power \in BOOLEAN
    PROVE  Entry(state, os, power) \in Entries
  BY DEF Entry, Entries

\* The elements of a list, which is not an absent one.
LEMMA EntryFields ==
    ASSUME NEW e \in Entries
    PROVE  /\ e.state \in States /\ e.os \in BOOLEAN /\ e.power \in BOOLEAN
           /\ e # NoEntry
  BY DEF Entries, NoEntry, NewEntry, Entry, States, OPERATED

\* A new list is one; the states that the code writes.
LEMMA NewEntryTyped ==
    /\ \A state \in States : NewEntry(state) \in Entries
    /\ {"healthy", "evacuating", "fault", "deleted", "shutoff", "destroyed", "started",
        "migrating"} \subseteq States
<1>1. \A state \in States : NewEntry(state) \in Entries
  BY EntryTyped DEF NewEntry
<1> QED
  BY <1>1 DEF States, OPERATED

\* More events behind the first leave the first one first.
LEMMA EventsGrow ==
    ASSUME NEW old \in Seq(Events), NEW new \in Seq(Events)
    PROVE  /\ old \o new \in Seq(Events)
           /\ Len(old \o new) = Len(old) + Len(new)
           /\ old # <<>> => old \o new # <<>> /\ Head(old \o new) = Head(old)
<1>1. old \o new \in Seq(Events) /\ Len(old \o new) = Len(old) + Len(new)
  BY ConcatProperties
<1>2. ASSUME old # <<>> PROVE old \o new # <<>> /\ Head(old \o new) = Head(old)
  <2>1. Len(old) \in Nat \ {0} /\ Len(new) \in Nat
    BY <1>2, EmptySeq, LenProperties
  <2>2. Len(old \o new) = Len(old) + Len(new) /\ (old \o new)[1] = old[1]
    BY <2>1, ConcatProperties
  <2>3. old \o new # <<>>
    BY <2>1, <2>2
  <2> QED
    BY <1>1, <1>2, <2>2, <2>3
<1> QED
  BY <1>1, <1>2

\* What libvirt tells is one event.
LEMMA ToldTyped ==
    ASSUME NEW i \in Instances, NEW kind \in Kinds
    PROVE  Told(i, kind) \in Seq(Events) /\ Len(Told(i, kind)) = 1
<1>1. [instance |-> i, kind |-> kind] \in Events
  BY DEF Events
<1> QED
  BY <1>1 DEF Told

\* The events that are under way still are, the first of them first.
EventsKept ==
    /\ events' \in Seq(Events) /\ Len(events') <= MaxPending
    /\ events # <<>> => events' # <<>> /\ Head(events') = Head(events)

\* An instance that changes keeps the events under way.
LEMMA InstanceChangesKeepEvents ==
    ASSUME Tabled, NEW i \in Instances, InstanceChanges(i) PROVE EventsKept
<1>1. /\ Told(i, "failed") \in Seq(Events) /\ Told(i, "watchdog") \in Seq(Events)
      /\ Told(i, "shutoff") \in Seq(Events) /\ Told(i, "started") \in Seq(Events)
      /\ Told(i, "migrating") \in Seq(Events) /\ Told(i, "destroyed") \in Seq(Events)
      /\ <<>> \in Seq(Events)
  BY ToldTyped DEF Kinds
<1>2. PICK told \in Seq(Events) : events' = events \o told /\ Len(events') <= MaxPending
  BY <1>1, Zenon DEF InstanceChanges, Changes
<1>3. events \in Seq(Events)
  BY DEF Tabled
<1> QED
  BY <1>2, <1>3, EventsGrow, Zenon DEF EventsKept

\* A reboot, which is told in two events, keeps the events under way.
LEMMA RecoveryKeepsEvents ==
    ASSUME Tabled, Looking, RecoverySucceeds PROVE EventsKept
<1>1. CASE UNCHANGED events
  BY <1>1 DEF EventsKept, Tabled
<1>2. CASE /\ Len(events) + 2 <= MaxPending
           /\ events' = events \o Told(target, "destroyed") \o Told(target, "started")
  <2>1. target \in Instances /\ "destroyed" \in Kinds /\ "started" \in Kinds
    BY DEF RecoverySucceeds, Looking, Assign, DStep, Step, Kinds
  <2> DEFINE destroyed == Told(target, "destroyed")
             started == Told(target, "started")
             first == events \o destroyed
             second == first \o started
  <2>2. destroyed \in Seq(Events) /\ Len(destroyed) = 1
    BY <2>1, ToldTyped, Zenon
  <2>3. started \in Seq(Events) /\ Len(started) = 1
    BY <2>1, ToldTyped, Zenon
  <2>4. events \in Seq(Events) /\ Len(events) \in Nat
    BY LenProperties DEF Tabled
  <2>5. events' = second
    BY <1>2
  <2> HIDE DEF destroyed, started
  <2>6. /\ first \in Seq(Events) /\ Len(first) = Len(events) + Len(destroyed)
        /\ events # <<>> => first # <<>> /\ Head(first) = Head(events)
    BY <2>2, <2>4, EventsGrow, Zenon
  <2> HIDE DEF first
  <2>7. /\ second \in Seq(Events) /\ Len(second) = Len(first) + Len(started)
        /\ first # <<>> => second # <<>> /\ Head(second) = Head(first)
    BY <2>3, <2>6, EventsGrow, Zenon
  <2> HIDE DEF second
  <2>8. Len(second) = Len(events) + 2
    BY <2>2, <2>3, <2>4, <2>6, <2>7
  <2> QED
    BY <1>2, <2>5, <2>6, <2>7, <2>8 DEF EventsKept
<1> QED
  BY <1>1, <1>2 DEF RecoverySucceeds
----------------------------------------------------------------------------
\* At first the table has a list for each protected instance.
LEMMA InitTabled == Init => Tabled
<1> SUFFICES ASSUME Init PROVE Tabled
  OBVIOUS
<1>1. events \in Seq(Events) /\ Len(events) <= MaxPending
  BY BoundsTyped DEF Init
<1>2. dictionary \in [Instances -> Entries \cup {NoEntry}]
  BY NewEntryTyped DEF Init
<1> QED
  BY <1>1, <1>2 DEF Init, Tabled, Threads, Callback

\* No instance is given a list that has none, and none is taken away.
WatchingKept ==
    /\ dictionary' \in [Instances -> Entries \cup {NoEntry}]
    /\ \A i \in Instances : dictionary[i] # NoEntry <=> dictionary'[i] # NoEntry

TableKept == WatchingKept /\ value' \in {"healthy", "fault", "deleted"} /\ EventsKept

\* A list in the place of another.
LEMMA EntryReplaced ==
    ASSUME Tabled, NEW i \in Watched, NEW e \in Entries,
           dictionary' = [dictionary EXCEPT ![i] = e]
    PROVE  WatchingKept
  BY EntryFields DEF WatchingKept, Tabled, Watched

\* Detection writes only into lists that are there.
LEMMA DetectionKeepsTable ==
    ASSUME Tabled, Looking, DetectionAside PROVE TableKept
<1>1. events \in Seq(Events) /\ (UNCHANGED events => EventsKept)
  BY DEF Tabled, EventsKept
<1>2. CASE /\ UNCHANGED <<events, dictionary>>
           /\ value' \in {value, "healthy", "fault", "deleted"}
  BY <1>1, <1>2 DEF TableKept, WatchingKept, Tabled
<1>3. CASE RecoverySucceeds
  BY <1>3, RecoveryKeepsEvents DEF RecoverySucceeds, Assign, TableKept, WatchingKept, Tabled
<1>4. ASSUME UNCHANGED <<events, value>>, target \in Watched,
             \E e \in Entries : dictionary' = [dictionary EXCEPT ![target] = e]
      PROVE  TableKept
  BY <1>1, <1>4, EntryReplaced DEF TableKept, Tabled
<1>5. CASE AssignFlags
  <2>1. target \in Watched /\ UNCHANGED <<events, value>>
    BY <1>5 DEF AssignFlags, Elsewhere, world, checking
  <2>2. dictionary[target] \in Entries
    BY <2>1 DEF Watched, Tabled
  <2>3. NewEntry(dictionary[target].state) \in Entries
    BY <2>2, EntryFields, NewEntryTyped
  <2> QED
    BY <1>4, <1>5, <2>1, <2>3 DEF AssignFlags
<1>6. CASE AssignState
  <2>1. target \in Watched /\ UNCHANGED <<events, value>>
    BY <1>6 DEF AssignState, Elsewhere, world, checking
  <2>2. dictionary[target] \in Entries /\ value \in States
    BY <2>1, NewEntryTyped DEF Watched, Tabled
  <2>3. Entry(value, dictionary[target].os, dictionary[target].power) \in Entries
    BY <2>2, EntryFields, EntryTyped
  <2> QED
    BY <1>4, <1>6, <2>1, <2>3 DEF AssignState
<1>7. CASE ~(RecoverySucceeds \/ AssignFlags \/ AssignState)
  <2> USE DEF Elsewhere, world, checking
  <2>1. UNCHANGED <<events, dictionary>>
    BY <1>7 DEF DetectionAside, StartDetect, ListInstances, CheckInstance, InspectInstance, Guard,
                PingInstance, Judge, Diagnose, ConfirmFlags, StartThirdCheck,
                check_instance_state_for_recovery, RecoveryFails, HostRecovers, AwaitHost,
                HostIsBack, AssignCheck, AssignRaises,
                StartUpdate, get_instance_name_list, Sleep, Drain
  <2>2. value' \in {value, "healthy", "fault", "deleted"}
    BY <1>7 DEF DetectionAside, StartDetect, ListInstances, CheckInstance, InspectInstance, Guard,
                PingInstance, Judge, Diagnose, ConfirmFlags, StartThirdCheck,
                check_instance_state_for_recovery, RecoveryFails, HostRecovers, AwaitHost,
                HostIsBack, AssignCheck, AssignRaises,
                StartUpdate, get_instance_name_list, Sleep, Drain, Assign
  <2> QED
    BY <1>2, <2>1, <2>2
<1> QED
  BY <1>3, <1>5, <1>6, <1>7

\* A callback writes only into the list it holds, of the instance of the first event.
LEMMA FirstEvent ==
    ASSUME Tabled, pc[Callback] # "idle"
    PROVE  /\ Head(events) \in Events /\ Head(events).instance \in Instances
           /\ Tail(events) \in Seq(Events) /\ Len(Tail(events)) <= MaxPending
<1>1. events \in Seq(Events) /\ events # <<>> /\ Len(events) <= MaxPending
  BY DEF Tabled
<1>2. /\ Head(events) \in Events /\ Tail(events) \in Seq(Events)
      /\ Len(Tail(events)) = Len(events) - 1 /\ Len(events) \in Nat
  BY <1>1, HeadTailProperties, LenProperties
<1> QED
  BY <1>1, <1>2, BoundsTyped DEF Events

\* So does a callback: it holds the list that is there, or writes into one of the past.
LEMMA CallbackWrites == ASSUME Tabled, CallbackAside PROVE WatchingKept
<1> DEFINE i == Head(events).instance
           kind == Head(events).kind
           left == dictionary[i]
<1>1. CASE UNCHANGED dictionary
  BY <1>1 DEF WatchingKept, Tabled
<1>2. ASSUME pc[Callback] \in {"write", "write power"}, current
      PROVE  /\ i \in Watched /\ Head(events) \in Events
             /\ left.state \in States /\ left.os \in BOOLEAN /\ left.power \in BOOLEAN
  <2>1. i \in Instances /\ Head(events) \in Events /\ left # NoEntry
    BY <1>2, FirstEvent DEF Tabled
  <2>2. left \in Entries
    BY <2>1 DEF Tabled
  <2> QED
    BY <2>1, <2>2, EntryFields DEF Watched
<1>3. CASE Write /\ current
  <2>1. kind \in {"failed", "watchdog"} \/ kind \in States
    BY <1>2, <1>3 DEF Write, Events, Kinds, States, OPERATED
  <2>2. StateAfter(kind, left.state) \in States
    BY <1>2, <1>3, <2>1 DEF StateAfter, Write
  <2>3. (left.os \/ kind \in {"failed", "watchdog"}) \in BOOLEAN
    OBVIOUS
  <2> DEFINE after == Entry(StateAfter(kind, left.state),
                            left.os \/ kind \in {"failed", "watchdog"}, left.power)
  <2>4. after \in Entries
    BY <1>2, <1>3, <2>2, <2>3, EntryTyped, Zenon DEF Write
  <2>5. dictionary' = [dictionary EXCEPT ![i] = after]
    BY <1>3 DEF Write
  <2> HIDE DEF after
  <2> QED
    BY <1>2, <1>3, <2>4, <2>5, EntryReplaced DEF Write
<1>4. CASE WritePower /\ current
  <2>1. pc[Callback] = "write power"
    BY <1>4 DEF WritePower, Handled, Step
  <2>2. Entry(left.state, left.os, TRUE) \in Entries
    BY <1>2, <1>4, <2>1, EntryTyped
  <2>3. dictionary' = [dictionary EXCEPT ![i] = Entry(left.state, left.os, TRUE)]
    BY <1>4 DEF WritePower
  <2> QED
    BY <1>2, <1>4, <2>1, <2>2, <2>3, EntryReplaced
<1> QED
  BY <1>1, <1>3, <1>4 DEF CallbackAside, CallbackStarts, Drain, LookUp, Write, WritePower

\* A callback leaves the table and the events typed.
LEMMA CallbackKeepsTable ==
    ASSUME Locked, Tabled, CallbackAside PROVE Tabled'
<1> USE DEF Callback, Detection, Threads, Step
<1>1. DOMAIN pc = Threads /\ UNCHANGED value
  BY CallbackAsideMoves DEF Locked, CallbackMoves
<1>2. CASE CallbackStarts
  BY <1>1, <1>2 DEF CallbackStarts, Drain, Tabled, world, handling
<1>3. dictionary' \in [Instances -> Entries \cup {NoEntry}]
  BY CallbackWrites DEF WatchingKept
<1>4. ASSUME Handled(pc[Callback]), pc[Callback] # "idle" PROVE Tabled'
  BY <1>1, <1>3, <1>4, FirstEvent DEF Handled, Tabled
<1>5. CASE LookUp
  <2>1. pc[Callback] = "lookup" /\ UNCHANGED dictionary
    BY <1>5 DEF LookUp
  <2>2. CASE Handled("lookup")
    BY <1>4, <2>1, <2>2 DEF Tabled
  <2>3. CASE ~Handled("lookup")
    <3>1. /\ Head(events).instance \in Watched /\ pc' = [pc EXCEPT ![Callback] = "write"]
          /\ previous' = dictionary[Head(events).instance].state /\ current' = TRUE
          /\ UNCHANGED <<events, dictionary>>
      BY <1>5, <2>3 DEF LookUp
    <3>2. dictionary[Head(events).instance] \in Entries
      BY <3>1 DEF Watched, Tabled
    <3>3. previous' \in States
      BY <3>1, <3>2, EntryFields
    <3> QED
      BY <1>1, <2>1, <3>1, <3>3 DEF Tabled, Watched
  <2> QED
    BY <2>2, <2>3
<1>6. CASE Write
  <2>1. pc[Callback] = "write" /\ Head(events).instance \in Instances
    BY <1>6, FirstEvent DEF Write
  <2>2. CASE Head(events).kind = "failed"
    <3>1. pc' = [pc EXCEPT ![Callback] = "write power"] /\ UNCHANGED <<events, previous, current>>
      BY <1>6, <2>2 DEF Write, handling
    <3>2. current => dictionary'[Head(events).instance] # NoEntry
      BY <2>1, CallbackWrites DEF WatchingKept, Tabled
    <3> QED
      BY <1>1, <1>3, <2>1, <3>1, <3>2 DEF Tabled
  <2>3. CASE Head(events).kind # "failed"
    BY <1>4, <1>6, <2>1, <2>3 DEF Write
  <2> QED
    BY <2>2, <2>3
<1>7. CASE WritePower
  BY <1>4, <1>7 DEF WritePower, Handled
<1> QED
  BY <1>2, <1>5, <1>6, <1>7 DEF CallbackAside

\* The table stays typed, and the callback's list is the dictionary's as long as
\* current says so.
LEMMA NextTabled ==
    ASSUME Locked, Queued, Tabled, Looking, [Next]_vars PROVE Tabled'
<1> USE DEF Callback, Detection, Threads, Draining
<1>1. CASE DetectionAside
  <2>1. TableKept /\ DetectionMoves
    BY <1>1, DetectionKeepsTable, DetectionAsideMoves
  <2>2. pc[Callback] # "idle" => Head(events) \in Events
    BY HeadTailProperties DEF Tabled
  <2> QED
    BY <2>1, <2>2 DEF TableKept, WatchingKept, EventsKept, DetectionMoves, Tabled, Events
<1>2. CASE CallbackAside
  BY <1>2, CallbackKeepsTable
<1>3. CASE WorldAside
  <2>1. UNCHANGED <<pc, dictionary, previous, current, value>>
    BY <1>3, WorldAsideMoves DEF handling, checking
  <2>2. CASE EventsLost
    <3>1. events' = IF pc[Callback] = "idle" THEN <<>> ELSE <<Head(events)>>
      BY <2>2 DEF EventsLost, InHand
    <3>2. CASE pc[Callback] = "idle"
      BY <2>1, <3>1, <3>2, BoundsTyped DEF Tabled
    <3>3. CASE pc[Callback] # "idle"
      <4>1. events \in Seq(Events) /\ events # <<>> /\ Len(events) <= MaxPending
        BY <3>3 DEF Tabled
      <4>2. Head(events) \in Events /\ Len(events) \in Nat \ {0}
        BY <4>1, EmptySeq, LenProperties, HeadTailProperties
      <4>3. events' \in Seq(Events) /\ Len(events') = 1 /\ Head(events') = Head(events)
        BY <3>1, <3>3, <4>2
      <4>4. Len(events) \in Nat \ {0} /\ Len(events) <= MaxPending /\ MaxPending \in Nat
        BY <4>1, <4>2, BoundsTyped
      <4>5. Len(events') <= MaxPending
        BY <4>3, <4>4
      <4>6. events' # <<>>
        BY <3>1, <3>3
      <4> QED
        BY <2>1, <4>3, <4>5, <4>6 DEF Tabled
    <3> QED
      BY <3>2, <3>3
  <2>3. ASSUME NEW i \in Instances, InstanceChanges(i) PROVE Tabled'
    BY <2>1, <2>3, InstanceChangesKeepEvents DEF EventsKept, Tabled
  <2> QED
    BY <1>3, <2>2, <2>3 DEF WorldAside
<1>4. CASE Commanded
  <2>1. UNCHANGED <<events, pc, dictionary, previous, current, value>>
    BY <1>4 DEF Commanded, send_update_instance, world, handling, checking
  <2> QED
    BY <2>1 DEF Tabled
<1>5. ASSUME NEW t \in Threads, check_instance_update(t) PROVE Tabled'
  <2> USE DEF Locked, world, handling, checking
  <2>1. CASE Acquire(t)
    BY <2>1 DEF Acquire, Tabled
  <2>2. CASE Get(t)
    BY <2>2 DEF Get, Tabled
  <2>3. CASE Apply(t)
    <3> DEFINE command == item[t][1]
               i == command.instance
               new == IF command.action = "remove" THEN NoEntry
                      ELSE NewEntry(IF command.action = "add" THEN "healthy" ELSE "evacuating")
    <3>1. command \in Commands /\ i \in Instances
      BY <2>3 DEF Apply, Queued, Commands
    <3>2. new \in Entries \cup {NoEntry}
      BY NewEntryTyped
    <3> HIDE DEF new
    <3>3. /\ dictionary' = [dictionary EXCEPT ![i] = new]
          /\ current' = (current /\ Head(events).instance # i)
          /\ pc' = [pc EXCEPT ![t] = "drain"] /\ pc[t] = "apply"
          /\ UNCHANGED <<events, previous, value>>
      BY <2>3 DEF Apply, new
    <3>4. dictionary' \in [Instances -> Entries \cup {NoEntry}]
      BY <3>1, <3>2, <3>3 DEF Tabled
    <3>5. pc[Callback] # "idle" => Head(events) \in Events
      BY HeadTailProperties DEF Tabled
    <3>6. pc[Callback] # "idle" => Head(events).instance \in Instances
      BY <3>5 DEF Events
    <3> QED
      BY <3>1, <3>3, <3>4, <3>6 DEF Tabled
  <2>4. CASE Release(t)
    BY <2>4 DEF Release, Tabled
  <2>5. CASE ApplyRaises(t)
    BY <2>5 DEF ApplyRaises, Tabled
  <2> QED
    BY <1>5, <2>1, <2>2, <2>3, <2>4, <2>5 DEF check_instance_update
<1>6. CASE UNCHANGED vars
  BY <1>6 DEF vars, world, handling, checking, Tabled
<1> QED
  BY <1>1, <1>2, <1>3, <1>4, <1>5, <1>6, NextSplits DEF Drains
----------------------------------------------------------------------------
\* At first all instances run and nothing is recorded.
LEMMA InitOutside == Init => Outside
  BY BoundsTyped DEF Init, Outside

\* The world and the record of it stay typed.
LEMMA NextOutside ==
    ASSUME Tabled, Looking, Outside, [Next]_vars PROVE Outside'
<1> DEFINE VM == {"running", "crashed", "hung", "stopped", "gone"}
           Recorded == {"none", "now", "earlier"}
<1>1. CASE DetectionAside
  <2> USE DEF Elsewhere, world, controller
  <2>1. UNCHANGED <<changes, protected>> /\ status' \in {status, "health", "failed"}
    BY <1>1 DEF DetectionAside, StartDetect, ListInstances, CheckInstance, InspectInstance, Guard,
                PingInstance, Judge, Diagnose, ConfirmFlags, StartThirdCheck,
                check_instance_state_for_recovery, RecoverySucceeds, RecoveryFails, HostRecovers,
                AwaitHost, HostIsBack, AssignCheck, AssignRaises, AssignFlags, AssignState, StartUpdate, get_instance_name_list, Sleep
  <2>2. vm' \in [Instances -> VM]
    <3>1. CASE RecoverySucceeds
      BY <3>1 DEF RecoverySucceeds, Outside
    <3>2. CASE ~RecoverySucceeds
      BY <1>1, <3>2
         DEF DetectionAside, StartDetect, ListInstances, CheckInstance, InspectInstance, Guard,
             PingInstance, Judge, Diagnose, ConfirmFlags, StartThirdCheck,
             check_instance_state_for_recovery, RecoveryFails, HostRecovers, AwaitHost, HostIsBack,
             AssignCheck, AssignRaises, AssignFlags, AssignState, StartUpdate, get_instance_name_list, Sleep, Outside
    <3> QED
      BY <3>1, <3>2
  <2>3. recorded' \in [Instances -> Recorded]
    <3>1. CASE StartDetect
      BY <3>1 DEF StartDetect, Outside
    <3>2. CASE ~StartDetect
      BY <1>1, <3>2
         DEF DetectionAside, ListInstances, CheckInstance, InspectInstance, Guard, PingInstance,
             Judge, Diagnose, ConfirmFlags, StartThirdCheck, check_instance_state_for_recovery,
             RecoverySucceeds, RecoveryFails, HostRecovers, AwaitHost, HostIsBack, AssignCheck,
             AssignRaises, AssignFlags, AssignState,
             StartUpdate, get_instance_name_list, Sleep, checking, Outside
    <3> QED
      BY <3>1, <3>2
  <2> QED
    BY <2>1, <2>2, <2>3 DEF Outside
<1>2. CASE CallbackAside
  <2> USE DEF world, controller, Outside
  <2>1. CASE CallbackStarts
    BY <2>1 DEF CallbackStarts
  <2>2. CASE LookUp
    BY <2>2 DEF LookUp
  <2>3. CASE Write
    <3>1. UNCHANGED <<vm, changes, protected, status>>
      BY <2>3 DEF Write
    <3>2. \/ UNCHANGED recorded
          \/ LET i == Head(events).instance
                 kind == Head(events).kind
             IN  recorded' = [recorded EXCEPT ![i] =
                                 IF kind = "shutoff" THEN "now"
                                 ELSE IF kind = "started" THEN "none" ELSE @]
      BY <2>3 DEF Write
    <3> QED
      BY <3>1, <3>2
  <2>4. CASE WritePower
    BY <2>4 DEF WritePower
  <2> QED
    BY <1>2, <2>1, <2>2, <2>3, <2>4 DEF CallbackAside
<1>3. CASE EventsLost
  BY <1>3, BoundsTyped DEF EventsLost, controller, Outside
<1>4. ASSUME NEW i \in Instances, InstanceChanges(i) PROVE Outside'
  <2>1. UNCHANGED <<protected, status, recorded>> /\ changes < MaxEvents /\ changes' = changes + 1
    BY <1>4 DEF InstanceChanges, Changes, controller
  <2>2. \E to \in VM : vm' = [vm EXCEPT ![i] = to]
    BY <1>4 DEF InstanceChanges, Changes
  <2>3. vm' \in [Instances -> VM]
    BY <2>2 DEF Outside
  <2>4. changes' \in 0..MaxEvents
    BY <2>1, BoundsTyped DEF Outside
  <2> QED
    BY <2>1, <2>3, <2>4 DEF Outside
<1>5. CASE Commanded
  BY <1>5 DEF Commanded, send_update_instance, world, Outside
<1>6. ASSUME NEW t \in Threads, check_instance_update(t) PROVE Outside'
  <2> USE DEF world, controller, Outside
  <2>1. CASE Acquire(t)
    BY <2>1 DEF Acquire
  <2>2. CASE Get(t)
    BY <2>2 DEF Get
  <2>3. CASE Apply(t)
    BY <2>3 DEF Apply
  <2>4. CASE Release(t)
    BY <2>4 DEF Release
  <2>5. CASE ApplyRaises(t)
    BY <2>5 DEF ApplyRaises
  <2> QED
    BY <1>6, <2>1, <2>2, <2>3, <2>4, <2>5 DEF check_instance_update
<1>7. CASE UNCHANGED vars
  BY <1>7 DEF vars, world, controller, Outside
<1> QED
  BY <1>1, <1>2, <1>3, <1>4, <1>5, <1>6, <1>7, NextSplits DEF Drains, WorldAside
----------------------------------------------------------------------------
\* The strengthening is an invariant, whatever the threads, the instances and the
\* controller do.
THEOREM Invariance == Spec => []IInv
<1>1. Init => IInv
  BY InitLocked, InitQueued, InitTabled, InitLooking, InitOutside DEF IInv
<1>2. IInv /\ [Next]_vars => IInv'
  BY NextLocked, NextQueued, NextTabled, NextLooking, NextOutside DEF IInv
<1> QED
  BY <1>1, <1>2, PTL DEF Spec

\* Every variable has its type: in particular the callback is at work only on an
\* event, and detection pings, judges and recovers only an instance.
THEOREM TypeCorrect == Spec => []TypeOK
<1>1. IInv => TypeOK
  <2> SUFFICES ASSUME IInv PROVE TypeOK
    OBVIOUS
  <2>1. Len(queue) <= MaxCommands
    BY BoundsTyped, LenProperties DEF IInv, Queued
  <2>2. \A t \in Threads : item[t] = <<>> \/ item[t][1] \in Commands
    BY DEF IInv, Queued
  <2> QED
    BY <2>1, <2>2
       DEF TypeOK, IInv, Locked, Queued, Tabled, Looking, Outside, Assigning, Draining, Threads,
           Callback, Detection
<1> QED
  BY <1>1, Invariance, PTL

\* A thread that drains the queue holds the lock, alone, and finds every command it
\* has counted: queue.get never blocks the holder of the lock.
THEOREM LockHoldersFindCommands == Spec => []GetNeverBlocks
<1>1. IInv => GetNeverBlocks
  BY DEF IInv, Queued, GetNeverBlocks, Draining
<1> QED
  BY <1>1, Invariance, PTL
----------------------------------------------------------------------------
\* The first of the commands, and those behind it.
LEMMA HeadBeforeTail ==
    ASSUME NEW s \in Seq(Commands), s # <<>>
    PROVE  <<Head(s)>> \o Tail(s) = s
<1>1. /\ Head(s) \in Commands /\ Tail(s) \in Seq(Commands) /\ Len(Tail(s)) = Len(s) - 1
      /\ \A i \in 1..Len(Tail(s)) : Tail(s)[i] = s[i + 1]
  BY HeadTailProperties
<1>2. Len(s) \in Nat \ {0} /\ Head(s) = s[1]
  BY EmptySeq
<1>3. <<Head(s)>> \in Seq(Commands) /\ Len(<<Head(s)>>) = 1 /\ <<Head(s)>>[1] = Head(s)
  BY <1>1
<1> DEFINE first == <<Head(s)>>
           whole == first \o Tail(s)
<1> HIDE DEF first
<1>4. /\ whole \in Seq(Commands) /\ Len(whole) = Len(first) + Len(Tail(s))
      /\ \A i \in 1..(Len(first) + Len(Tail(s))) :
            whole[i] = IF i <= Len(first) THEN first[i] ELSE Tail(s)[i - Len(first)]
  BY <1>1, <1>3, ConcatProperties DEF first
<1>5. Len(first) = 1 /\ first[1] = s[1]
  BY <1>2, <1>3 DEF first
<1> HIDE DEF whole
<1>6. Len(whole) = Len(s)
  BY <1>1, <1>2, <1>4, <1>5
<1>7. \A i \in 1..Len(whole) : whole[i] = s[i]
  BY <1>1, <1>2, <1>4, <1>5
<1>8. whole = s
  BY <1>4, <1>6, <1>7, SeqEqual
<1> QED
  BY <1>8 DEF whole, first

\* A command taken off the queue stands before the others.
LEMMA TakenBefore ==
    ASSUME NEW c \in Commands, NEW s \in Seq(Commands)
    PROVE  <<c>> \o s # <<>> /\ Head(<<c>> \o s) = c /\ Tail(<<c>> \o s) = s
<1> DEFINE first == <<c>>
           whole == first \o s
<1>1. first \in Seq(Commands) /\ Len(first) = 1 /\ first[1] = c
  OBVIOUS
<1> HIDE DEF first
<1>2. /\ whole \in Seq(Commands) /\ Len(whole) = Len(first) + Len(s)
      /\ \A i \in 1..(Len(first) + Len(s)) :
            whole[i] = IF i <= Len(first) THEN first[i] ELSE s[i - Len(first)]
  BY <1>1, ConcatProperties
<1>3. Len(s) \in Nat
  BY LenProperties
<1> HIDE DEF whole
<1>4. whole # <<>> /\ Head(whole) = c
  BY <1>1, <1>2, <1>3
<1>5. /\ Tail(whole) \in Seq(Commands) /\ Len(Tail(whole)) = Len(whole) - 1
      /\ \A i \in 1..Len(Tail(whole)) : Tail(whole)[i] = whole[i + 1]
  BY <1>2, <1>4, HeadTailProperties
<1>6. Len(Tail(whole)) = Len(s)
  BY <1>1, <1>2, <1>3, <1>5
<1>7. \A i \in 1..Len(Tail(whole)) : Tail(whole)[i] = s[i]
  BY <1>1, <1>2, <1>3, <1>5, <1>6
<1>8. Tail(whole) = s
  BY <1>5, <1>6, <1>7, SeqEqual
<1> QED
  BY <1>4, <1>8 DEF whole, first

\* A command is put behind all others.
LEMMA AppendBehind ==
    ASSUME NEW s \in Seq(Commands), NEW q \in Seq(Commands), NEW c \in Commands
    PROVE  s \o Append(q, c) = Append(s \o q, c)
<1>1. <<c>> \in Seq(Commands) /\ s \o q \in Seq(Commands)
  BY ConcatProperties
<1>2. Append(q, c) = q \o <<c>> /\ Append(s \o q, c) = (s \o q) \o <<c>>
  BY <1>1, AppendIsConcat
<1> QED
  BY <1>1, <1>2, ConcatAssociative

\* The commands taken off the queue: the lock holder's, if it has one.
Taken == item[Callback] \o item[Detection]

\* At most one thread, the lock's holder, has taken a command.
LEMMA TakenByLockHolder ==
    ASSUME Locked, Queued
    PROVE  /\ Taken \in Seq(Commands)
           /\ \A t \in Threads : pc[t] = "apply" => Taken = item[t]
           /\ \A t \in Threads : pc[t] = "drain" => Taken = <<>>
<1>1. item[Callback] \in Seq(Commands) /\ item[Detection] \in Seq(Commands)
  BY DEF Queued, Threads
<1>2. Taken \in Seq(Commands)
  BY <1>1, ConcatProperties DEF Taken
<1>3. /\ item[Callback] = <<>> => Taken = item[Detection]
      /\ item[Detection] = <<>> => Taken = item[Callback]
  BY <1>1, ConcatEmptySeq DEF Taken
<1>4. ASSUME NEW t \in Threads, pc[t] \in Draining, NEW u \in Threads, u # t
      PROVE  item[u] = <<>>
  BY <1>4 DEF Locked, Queued, Draining
<1>5. ASSUME NEW t \in Threads, pc[t] \in Draining PROVE Taken = item[t]
  BY <1>3, <1>4, <1>5 DEF Threads, Callback, Detection
<1> QED
  BY <1>2, <1>5 DEF Queued, Draining

\* While no list comes or goes, the watched instances are the same.
LEMMA WatchedKept == ASSUME WatchingKept PROVE Watched' = Watched
  BY DEF WatchingKept, Watched

Pending == Taken \o queue

\* The steps outside a drain, but for the controller's, change neither what is
\* watched nor what is pending.
LEMMA QuietStep ==
    ASSUME Locked, Tabled, Looking,
           UNCHANGED vars \/ DetectionAside \/ CallbackAside \/ WorldAside
    PROVE  UNCHANGED <<protected, Watched, Pending>>
<1>1. CASE UNCHANGED vars
  BY <1>1 DEF vars, controller, draining, Watched, Pending, Taken
<1>2. CASE DetectionAside
  BY <1>2, DetectionAsideMoves, DetectionKeepsTable, WatchedKept
     DEF DetectionMoves, TableKept, Pending, Taken
<1>3. CASE CallbackAside
  BY <1>3, CallbackAsideMoves, CallbackWrites, WatchedKept DEF CallbackMoves, Pending, Taken
<1>4. CASE WorldAside
  BY <1>4, WorldAsideMoves DEF Watched, Pending, Taken
<1> QED
  BY <1>1, <1>2, <1>3, <1>4

\* A command given is put behind all that are pending.
LEMMA GivenStep ==
    ASSUME Locked, Queued, Outside, NEW i \in Instances, send_update_instance(i)
    PROVE  \E command \in Commands : List!Give(command)
<1>1. PICK action \in Actions :
        /\ queue' = Append(queue, [instance |-> i, action |-> action])
        /\ action = "remove" <=> i \in protected
  BY DEF send_update_instance, Actions
<1> DEFINE command == [instance |-> i, action |-> action]
<1>2. command \in Commands /\ command.instance = i /\ command.action = action
  BY DEF Commands
<1>3. Pending' = Append(Pending, command)
  <2>1. Taken' = Taken
    BY DEF send_update_instance, draining, Taken
  <2>2. Taken \in Seq(Commands) /\ queue \in Seq(Commands)
    BY TakenByLockHolder DEF Queued
  <2> QED
    BY <1>1, <1>2, <2>1, <2>2, AppendBehind DEF Pending
<1>4. protected' = List!Obeyed(protected, command)
  BY <1>1, <1>2 DEF send_update_instance, List!Obeyed
<1>5. Watched' = Watched
  BY DEF send_update_instance, Watched
<1> QED
  BY <1>1, <1>2, <1>3, <1>4, <1>5 DEF List!Give, Pending, Taken

\* A command is put into effect, or lost, by the thread that took it, before all others.
LEMMA AppliedStep ==
    ASSUME Locked, Queued, Tabled, NEW t \in Threads, Apply(t) \/ ApplyRaises(t)
    PROVE  List!Obey
<1>1. PICK command \in Commands : item[t] = <<command>>
  BY DEF Queued, Apply, ApplyRaises
<1>2. Pending = <<command>> \o queue /\ queue \in Seq(Commands)
  BY <1>1, TakenByLockHolder DEF Pending, Apply, ApplyRaises, Queued
<1>3. Pending # <<>> /\ Head(Pending) = command /\ Tail(Pending) = queue
  BY <1>2, TakenBefore
<1>4. Pending' = queue
  <2>1. \A u \in Threads : u # t => item[u] = <<>>
    BY DEF Locked, Queued, Apply, ApplyRaises, Draining
  <2>2. item' = [item EXCEPT ![t] = <<>>] /\ queue' = queue /\ item \in [Threads -> Seq(Commands)]
    BY DEF Apply, ApplyRaises, Queued
  <2>3. item'[Callback] = <<>> /\ item'[Detection] = <<>>
    BY <2>1, <2>2 DEF Threads
  <2>4. <<>> \in Seq(Commands)
    OBVIOUS
  <2>5. Taken' = <<>>
    BY <2>3, <2>4, ConcatEmptySeq DEF Taken
  <2> QED
    BY <1>2, <2>2, <2>5, ConcatEmptySeq DEF Pending
<1>5. protected' = protected
  BY DEF Apply, ApplyRaises, controller
<1>6. CASE Apply(t)
  <2> DEFINE new == IF command.action = "remove" THEN NoEntry
                    ELSE NewEntry(IF command.action = "add" THEN "healthy" ELSE "evacuating")
  <2>1. dictionary' = [dictionary EXCEPT ![command.instance] = new] /\ ~List!Impossible(command)
    BY <1>1, <1>6 DEF Apply, Impossible, List!Impossible
  <2>2. command.instance \in Instances
    BY DEF Commands
  <2>3. new = NoEntry <=> command.action = "remove"
    BY NewEntryTyped, EntryFields
  <2> HIDE DEF new
  <2>4. \A i \in Instances : dictionary'[i] = IF i = command.instance THEN new ELSE dictionary[i]
    BY <2>1, <2>2 DEF Tabled
  <2>5. Watched' = List!Obeyed(Watched, command)
    BY <2>2, <2>3, <2>4 DEF Watched, List!Obeyed
  <2> QED
    BY <1>3, <1>4, <1>5, <2>1, <2>5 DEF List!Obey, Pending, Taken
<1>7. CASE ApplyRaises(t)
  <2>1. List!Impossible(command) /\ Watched' = Watched
    BY <1>1, <1>7 DEF ApplyRaises, Impossible, List!Impossible, Watched
  <2> QED
    BY <1>3, <1>4, <1>5, <2>1 DEF List!Obey, Pending, Taken
<1> QED
  BY <1>6, <1>7

LEMMA TakenStep ==
    ASSUME Locked, Queued, NEW t \in Threads, Acquire(t) \/ Get(t) \/ Release(t)
    PROVE  UNCHANGED <<protected, Watched, Pending>>
<1>1. protected' = protected /\ Watched' = Watched
  BY DEF Acquire, Get, Release, controller, Watched
<1>2. CASE Acquire(t) \/ Release(t)
  BY <1>1, <1>2 DEF Acquire, Release, draining, Pending, Taken
<1>3. CASE Get(t)
  <2>1. Taken = <<>> /\ queue \in Seq(Commands) /\ queue # <<>>
    BY <1>3, TakenByLockHolder DEF Get, Queued
  <2>2. item' = [item EXCEPT ![t] = <<Head(queue)>>] /\ queue' = Tail(queue)
    BY <1>3 DEF Get
  <2>3. item[Callback] = <<>> /\ item[Detection] = <<>> /\ item \in [Threads -> Seq(Commands)]
    BY <1>3 DEF Get, Locked, Queued, Draining, Threads
  <2>4. Head(queue) \in Commands
    BY <2>1, HeadTailProperties
  <2>5. <<Head(queue)>> \in Seq(Commands)
    BY <2>4
  <2>6. \/ item'[Callback] = <<Head(queue)>> /\ item'[Detection] = <<>>
        \/ item'[Callback] = <<>> /\ item'[Detection] = <<Head(queue)>>
    BY <2>2, <2>3 DEF Threads, Callback, Detection
  <2>7. Taken' = <<Head(queue)>>
    BY <2>5, <2>6, ConcatEmptySeq DEF Taken
  <2>8. Pending' = queue
    BY <2>1, <2>2, <2>7, HeadBeforeTail DEF Pending
  <2>9. Pending = queue
    BY <2>1, ConcatEmptySeq DEF Pending
  <2> QED
    BY <1>1, <2>8, <2>9
<1> QED
  BY <1>2, <1>3

\* The commands of the controller take effect once each and in the order given,
\* whichever thread drains them: InstanceDetector implements WatchList.
THEOREM ImplementsWatchList == Spec => WatchListImplemented
<1>1. Init => List!Init
  <2> SUFFICES ASSUME Init PROVE List!Init
    OBVIOUS
  <2>1. item[Callback] \o item[Detection] \o queue = <<>>
    <3>1. item[Callback] = <<>> /\ item[Detection] = <<>> /\ queue = <<>>
      BY DEF Init, Threads
    <3>2. <<>> \in Seq(Commands)
      OBVIOUS
    <3> QED
      BY <3>1, <3>2, ConcatEmptySeq
  <2>2. Watched = protected \ NoProvider
    BY NewEntryTyped, EntryFields DEF Init, Watched
  <2> QED
    BY <2>1, <2>2 DEF Init, List!Init
<1>2. IInv /\ [Next]_vars => [List!Next]_List!vars
  <2> SUFFICES ASSUME IInv, [Next]_vars PROVE [List!Next]_List!vars
    OBVIOUS
  <2>1. ASSUME UNCHANGED <<protected, Watched, Pending>> PROVE UNCHANGED List!vars
    BY <2>1 DEF List!vars, Pending, Taken
  <2>2. CASE UNCHANGED vars \/ DetectionAside \/ CallbackAside \/ WorldAside
    BY <2>1, <2>2, QuietStep DEF IInv
  <2>3. CASE Commanded
    BY <2>3, GivenStep
       DEF IInv, Commanded, List!Next, Commands, Actions, List!Commands, List!Actions
  <2>4. ASSUME NEW t \in Threads, check_instance_update(t) PROVE [List!Next]_List!vars
    BY <2>1, <2>4, AppliedStep, TakenStep DEF IInv, check_instance_update, List!Next
  <2> QED
    BY <2>2, <2>3, <2>4, NextSplits DEF Drains
<1> QED
  BY <1>1, <1>2, Invariance, PTL DEF Spec, WatchListImplemented, List!Spec
----------------------------------------------------------------------------
(***************************************************************************)
(* A shutdown recorded while a detection runs.                             *)
(***************************************************************************)
Visiting == {"guard", "ping", "judge", "diagnose", "confirm flags", "third check", "recoverable"}

\* Where the detection thread is, or will be when it has drained the queue.
Place == IF pc[Detection] \in Draining \cup {"acquire"} THEN resume[Detection] ELSE pc[Detection]

\* The thread is at an instance, and may go on to the next.
AtInstance == Place \in Visiting \/ (Place \in Assigning /\ resume[Detection] = "ping")

\* The running detection has yet to judge instance i, or to judge it again.
Regarded(i) ==
    \/ Place = "list"
    \/ i \in names /\ (Place = "check" \/ AtInstance)
    \/ i = target /\ Place \in Visiting

Respected ==
    /\ \A i \in Instances : Regarded(i) /\ recorded[i] = "now" => Operated(i)
    /\ AtInstance => target \notin names

\* No instance comes under the eye of a detection that has begun.
NoneRegardedAnew ==
    /\ \A i \in Instances : Regarded(i)' => Regarded(i)
    /\ AtInstance' => target' \notin names'

\* A step that writes nothing and brings no instance under the eye of detection.
LEMMA RespectedKept ==
    ASSUME Respected, NoneRegardedAnew, UNCHANGED <<dictionary, recorded>>
    PROVE  Respected'
  BY DEF Respected, NoneRegardedAnew, Operated

\* At first no shutdown is recorded.
LEMMA InitRespected == Init => Respected
  BY DEF Init, Respected, Regarded, AtInstance, Place, Visiting, Assigning, Draining, Threads,
         Callback, Detection

\* Detection regards an instance anew only when it starts, and writes the state only
\* of one that it regards no more.
LEMMA DetectionRespects ==
    ASSUME Locked, Tabled, Looking, Outside, Respected, DetectionAside PROVE Respected'
<1> USE DEF Locked, Looking, Threads, Callback, Detection, DStep, Step, Elsewhere, world,
            controller, handling, checking
<1> DEFINE Aside == NoneRegardedAnew /\ UNCHANGED <<dictionary, recorded>>
<1>1. CASE StartDetect
  <2>1. \A i \in Instances : recorded'[i] # "now"
    BY <1>1 DEF StartDetect, Outside
  <2>2. ~AtInstance'
    BY <1>1 DEF StartDetect, Drain, AtInstance, Place, Visiting, Assigning, Draining
  <2> QED
    BY <2>1, <2>2 DEF Respected
<1> USE DEF NoneRegardedAnew, Respected, Regarded, AtInstance, Place, Visiting, Assigning, Draining
<1>2. CASE ListInstances
  BY <1>2, RespectedKept DEF ListInstances, Watched, HostLevelEnds
<1>3. ASSUME NEW i \in Instances, CheckInstance(i) PROVE Aside
  BY <1>3 DEF CheckInstance, Drain
<1>4. ASSUME NEW i \in Instances, InspectInstance(i) PROVE Aside
  BY <1>4 DEF InspectInstance, Assign
<1>5. CASE Guard
  BY <1>5, RespectedKept, NoInstanceIsNone DEF Guard, NextCheck, LastUnprotected
<1>6. CASE PingInstance
  BY <1>6, RespectedKept DEF PingInstance
<1>7. CASE Judge
  BY <1>7, RespectedKept DEF Judge, Assign, NextCheck
<1>8. CASE Diagnose
  BY <1>8, RespectedKept DEF Diagnose, HostLevelEnds
<1>9. CASE ConfirmFlags
  BY <1>9, RespectedKept DEF ConfirmFlags
<1>10. CASE StartThirdCheck
  BY <1>10, RespectedKept DEF StartThirdCheck, Drain
<1>11. CASE check_instance_state_for_recovery
  BY <1>11, RespectedKept DEF check_instance_state_for_recovery
<1>12. CASE RecoverySucceeds
  BY <1>12, RespectedKept DEF RecoverySucceeds, Assign
<1>13. CASE RecoveryFails
  BY <1>13, RespectedKept DEF RecoveryFails, Assign
<1>14. CASE AssignCheck
  BY <1>14, RespectedKept DEF AssignCheck, AfterAssign, NextCheck
<1>15. CASE AssignRaises
  BY <1>15, RespectedKept DEF AssignRaises
<1>16. CASE AssignFlags
  <2>1. NoneRegardedAnew /\ UNCHANGED recorded
    BY <1>16 DEF AssignFlags
  <2>2. \A i \in Instances : dictionary'[i].state = dictionary[i].state
    BY <1>16 DEF AssignFlags, NewEntry, Entry, Tabled
  <2> QED
    BY <2>1, <2>2 DEF Operated
<1>17. CASE AssignState
  <2>1. NoneRegardedAnew /\ UNCHANGED recorded
    BY <1>17 DEF AssignState, AfterAssign, NextCheck
  <2>2. ~Regarded(target)'
    BY <1>17 DEF AssignState, AfterAssign, NextCheck
  <2>3. \A i \in Instances : i # target => dictionary'[i].state = dictionary[i].state
    BY <1>17 DEF AssignState, Tabled
  <2>4. target' = target
    BY <1>17 DEF AssignState
  <2> QED
    BY <2>1, <2>2, <2>3, <2>4 DEF Operated
<1>18. CASE StartUpdate
  BY <1>18, RespectedKept DEF StartUpdate, Drain
<1>19. CASE get_instance_name_list
  BY <1>19, RespectedKept DEF get_instance_name_list
<1>20. CASE Sleep
  BY <1>20, RespectedKept DEF Sleep
<1>21. CASE HostRecovers
  BY <1>21, RespectedKept DEF HostRecovers
<1>22. CASE AwaitHost
  BY <1>22, RespectedKept DEF AwaitHost
<1>23. CASE HostIsBack
  BY <1>23, RespectedKept DEF HostIsBack
<1> QED
  BY <1>1, <1>2, <1>3, <1>4, <1>5, <1>6, <1>7, <1>8, <1>9, <1>10, <1>11, <1>12, <1>13, <1>14,
     <1>15, <1>16, <1>17, <1>18, <1>19, <1>20, <1>21, <1>22, <1>23, RespectedKept
     DEF DetectionAside

\* A callback that records a shutdown leaves the instance shut off; what it writes
\* later leaves it so, until it records a start.
LEMMA CallbackRespects ==
    ASSUME Locked, Tabled, Outside, Respected, CallbackAside PROVE Respected'
<1>1. NoneRegardedAnew
  <2>1. UNCHANGED <<names, target>>
    BY DEF CallbackAside, CallbackStarts, LookUp, Write, WritePower, checking
  <2> QED
    BY <2>1, CallbackAsideMoves
       DEF CallbackMoves, NoneRegardedAnew, Respected, Regarded, AtInstance, Place
<1>2. CASE UNCHANGED <<dictionary, recorded>>
  BY <1>1, <1>2, RespectedKept
<1> DEFINE i == Head(events).instance
           kind == Head(events).kind
           left == dictionary[i]
<1>3. CASE Write /\ current
  <2>1. i \in Instances /\ Head(events) \in Events
    BY <1>3, FirstEvent DEF Write
  <2> DEFINE after == StateAfter(kind, left.state)
             flagged == left.os \/ kind \in {"failed", "watchdog"}
  <2>2. dictionary' = [dictionary EXCEPT ![i] = Entry(after, flagged, left.power)]
    BY <1>3 DEF Write
  <2>3. recorded' = [recorded EXCEPT ![i] = IF kind = "shutoff" THEN "now"
                                            ELSE IF kind = "started" THEN "none" ELSE @]
    BY <1>3 DEF Write
  <2>4. recorded'[i] = "now" => after \in OPERATED \/ (recorded[i] = "now" /\ after = left.state)
    BY <2>1, <2>3 DEF StateAfter, OPERATED, Events, Kinds, Outside
  <2> HIDE DEF after, flagged
  <2>5. \A j \in Instances : dictionary'[j] = IF j = i THEN Entry(after, flagged, left.power)
                                              ELSE dictionary[j]
    BY <2>1, <2>2 DEF Tabled
  <2>6. dictionary'[i].state = after
    BY <2>1, <2>5 DEF Entry
  <2>7. \A j \in Instances : j # i => recorded'[j] = recorded[j]
    BY <2>1, <2>3 DEF Outside
  <2> QED
    BY <1>1, <2>1, <2>4, <2>5, <2>6, <2>7 DEF Respected, NoneRegardedAnew, Operated
<1>4. CASE WritePower /\ current
  <2>1. i \in Instances /\ UNCHANGED recorded
    BY <1>4, FirstEvent DEF WritePower, Handled, Step
  <2>2. dictionary' = [dictionary EXCEPT ![i] = Entry(left.state, left.os, TRUE)]
    BY <1>4 DEF WritePower
  <2>3. \A j \in Instances : dictionary'[j].state = dictionary[j].state
    BY <2>1, <2>2 DEF Tabled, Entry
  <2> QED
    BY <1>1, <2>1, <2>3 DEF Respected, NoneRegardedAnew, Operated
<1> QED
  BY <1>2, <1>3, <1>4 DEF CallbackAside, CallbackStarts, Drain, LookUp, Write, WritePower

\* No step of either thread leaves a recorded shutdown unseen by the detection that
\* is running.
LEMMA NextRespected ==
    ASSUME IInv, Respected, [Next]_vars PROVE Respected'
<1> USE DEF IInv
<1>1. CASE DetectionAside
  BY <1>1, DetectionRespects
<1>2. CASE CallbackAside
  BY <1>2, CallbackRespects
<1>3. ASSUME UNCHANGED <<pc, resume, names, target, dictionary, recorded>> PROVE Respected'
  BY <1>3, RespectedKept DEF NoneRegardedAnew, Respected, Regarded, AtInstance, Place
<1>4. CASE WorldAside
  BY <1>3, <1>4, WorldAsideMoves DEF checking
<1>5. CASE Commanded
  BY <1>3, <1>5 DEF Commanded, send_update_instance, draining, checking
<1>6. ASSUME NEW t \in Threads, check_instance_update(t) PROVE Respected'
  <2>1. NoneRegardedAnew
    <3>1. UNCHANGED <<resume, names, target>>
      BY <1>6 DEF check_instance_update, Acquire, Get, Apply, ApplyRaises, Release, draining,
             checking
    <3>2. Place' = Place
      <4> USE DEF Place, Locked, Threads, Callback, Detection, Draining
      <4>1. CASE Acquire(t)
        BY <3>1, <4>1 DEF Acquire
      <4>2. CASE Get(t)
        BY <3>1, <4>2 DEF Get
      <4>3. CASE Apply(t)
        BY <3>1, <4>3 DEF Apply
      <4>4. CASE Release(t)
        BY <3>1, <4>4 DEF Release
      <4>5. CASE ApplyRaises(t)
        BY <3>1, <4>5 DEF ApplyRaises
      <4> QED
        BY <1>6, <4>1, <4>2, <4>3, <4>4, <4>5 DEF check_instance_update
    <3> QED
      BY <3>1, <3>2 DEF NoneRegardedAnew, Respected, Regarded, AtInstance
  <2>2. CASE Apply(t)
    <3> DEFINE i == item[t][1].instance
    <3>1. i \in Instances
      BY <2>2 DEF Apply, Queued, Commands
    <3>2. recorded'[i] = "none" /\ \A j \in Instances : j # i => recorded'[j] = recorded[j]
      BY <2>2, <3>1 DEF Apply, Outside
    <3>3. \A j \in Instances : j # i => dictionary'[j] = dictionary[j]
      BY <2>2, <3>1 DEF Apply, Tabled
    <3> QED
      BY <2>1, <3>1, <3>2, <3>3 DEF Respected, NoneRegardedAnew, Operated
  <2>3. CASE ~Apply(t)
    BY <1>6, <2>1, <2>3, RespectedKept
       DEF check_instance_update, Acquire, Get, ApplyRaises, Release
  <2> QED
    BY <2>2, <2>3
<1>7. CASE UNCHANGED vars
  BY <1>3, <1>7 DEF vars, draining, checking
<1> QED
  BY <1>1, <1>2, <1>4, <1>5, <1>6, <1>7, NextSplits DEF Drains

\* The third check: an instance whose shutdown the callback has recorded since the
\* detection began is not handed to recovery by it.
THEOREM RecentShutdownIsRespected == Spec => RecentShutdownRespected
<1>1. Init => Respected
  BY InitRespected
<1>2. IInv /\ Respected /\ [Next]_vars => Respected'
  BY NextRespected
<1>3. IInv /\ Respected /\ [Next]_vars => [RecoveryStarts => recorded[target] # "now"]_vars
  <2> SUFFICES ASSUME IInv, Respected, Next, RecoveryStarts PROVE recorded[target] # "now"
    OBVIOUS
  <2> USE DEF IInv, Locked, RecoveryStarts, Threads, Callback, Detection
  <2>1. DetectionAside
    <3>1. ~CallbackAside
      BY CallbackAsideMoves DEF CallbackMoves
    <3>2. ~(WorldAside \/ Commanded \/ UNCHANGED vars)
      BY WorldAsideMoves DEF Commanded, send_update_instance, vars
    <3>3. ASSUME NEW t \in Threads, check_instance_update(t) PROVE FALSE
      BY <3>3 DEF check_instance_update, Acquire, Get, Apply, ApplyRaises, Release, Draining
    <3> QED
      BY <3>1, <3>2, <3>3, NextSplits DEF Drains
  <2>2. check_instance_state_for_recovery
    <3> USE DEF DStep, Step
    <3>1. ~(ListInstances \/ Diagnose)
      BY DEF ListInstances, Diagnose, HostLevelEnds
    <3>2. ~(Guard \/ Judge \/ AssignCheck \/ AssignRaises \/ AssignFlags \/ AssignState)
      BY DEF Guard, Judge, AssignCheck, AssignRaises, AssignFlags, AssignState, Assign, AfterAssign,
             NextCheck
    <3>3. ~(StartDetect \/ PingInstance \/ ConfirmFlags \/ StartThirdCheck \/ StartUpdate)
      BY DEF StartDetect, PingInstance, ConfirmFlags, StartThirdCheck, StartUpdate, Drain
    <3>4. ~(RecoverySucceeds \/ RecoveryFails \/ HostRecovers \/ AwaitHost \/ HostIsBack)
      BY DEF RecoverySucceeds, RecoveryFails, HostRecovers, AwaitHost, HostIsBack, Assign
    <3>5. ~(get_instance_name_list \/ Sleep)
      BY DEF get_instance_name_list, Sleep
    <3>6. \A i \in Instances : ~(CheckInstance(i) \/ InspectInstance(i))
      BY DEF CheckInstance, InspectInstance, Drain, Assign
    <3> QED
      BY <2>1, <3>1, <3>2, <3>3, <3>4, <3>5, <3>6 DEF DetectionAside
  <2>3. pc[Detection] = "recoverable" /\ target \in Instances /\ ~Operated(target)
    BY <2>2 DEF check_instance_state_for_recovery, DStep, Step, Watched
  <2> QED
    BY <2>3 DEF Respected, Regarded, Place, Visiting, Draining
<1> QED
  BY <1>1, <1>2, <1>3, Invariance, PTL DEF Spec, RecentShutdownRespected
=============================================================================
