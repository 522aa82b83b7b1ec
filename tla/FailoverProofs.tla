--------------------------- MODULE FailoverProofs ---------------------------
(***************************************************************************)
(* Proofs about Failover, for every set of hosts, instances and handlers   *)
(* and all bounds.  First the cloud: the compute service of a node is      *)
(* forced down only around an evacuation, and an instance runs once but    *)
(* for the nodes of which the controller cannot know.  Then the cluster:   *)
(* the types of Failover, the commands to the nodes and what these watch,  *)
(* and what a recovery that had the system for itself has done.            *)
(***************************************************************************)
EXTENDS Failover, FiniteSetTheorems, SequenceTheorems, WellFoundedInduction, TLAPS

\* A node that the controller has reason to evacuate.
Doubtful(n) == power[n] # "up" \/ n \in healed

\* It may still run what has been evacuated from it.
Excused(n) == power[n] = "cut" \/ n \in healed \cup stuck \cup overtaken

\* The handler has yet to restart its node, or is about to answer that it could not.
Unfinished(h) == pc[h] # "check" /\ (pc[h] = "answer" => result[h] = "false")

Shaped ==
    /\ DOMAIN nova_host = Instances
    /\ DOMAIN pc = Handlers /\ DOMAIN op = Handlers /\ DOMAIN result = Handlers
    /\ failing \in [Handlers -> Hosts \cup {None}]
    /\ caller \in [Handlers -> Hosts \cup {None}]
    /\ DOMAIN thread = Hosts
    /\ power \in [Hosts -> {"up", "cut", "off"}]
    /\ domain \in [Hosts -> [Instances -> {"none", "off", "on"}]]
    /\ DOMAIN evacuating = Instances

\* A handler with a node to recover is recovering it, and the thread that waits for
\* the handler is that node's.
Recovers ==
    \A h \in Handlers :
        /\ failing[h] # None => op[h] = "recover" /\ pc[h] # "idle"
        /\ caller[h] # None => caller[h] = failing[h]

\* A thread waits for one handler at a time, and unless it has once given up, it waits
\* for every handler that recovers its node.
Waits ==
    \A h \in Handlers :
        /\ caller[h] # None => thread[caller[h]] = "await"
        /\ \A g \in Handlers : caller[g] = caller[h] /\ caller[h] # None => g = h
        /\ failing[h] # None /\ failing[h] \notin overtaken => caller[h] = failing[h]

\* Until it has been restarted, a node that is to be recovered is not up, or came
\* back by itself.
Reason ==
    /\ \A n \in Hosts : thread[n] = "call" /\ n \notin overtaken => Doubtful(n)
    /\ \A h \in Handlers :
          failing[h] # None /\ failing[h] \notin overtaken /\ Unfinished(h) =>
              Doubtful(failing[h])

\* Nothing runs on a node that is off.
Halts == \A n \in Hosts, i \in Instances : power[n] = "off" => domain[n][i] # "on"

\* While Nova rebuilds an instance, it does not run where it was, or may.
Leaves ==
    \A n \in Hosts, i \in Instances :
        evacuating[i] # None /\ nova_host[i] = n /\ domain[n][i] = "on" => Excused(n)

IInv ==
    /\ Shaped /\ Recovers /\ Waits /\ Reason /\ Halts /\ Leaves
    /\ ForcedDownBriefly /\ RunsOnce
----------------------------------------------------------------------------
USE NoneIsNoHost

\* The initial states.
LEMMA InitInvariant == Init => IInv
<1> SUFFICES ASSUME Init PROVE IInv
  OBVIOUS
<1> USE DEF Init, ProtectionInit
<1>1. Shaped
  BY DEF Shaped
<1>2. Recovers /\ Waits /\ Reason /\ Leaves
  BY DEF Recovers, Waits, Reason, Leaves
<1>3. Halts /\ ForcedDownBriefly /\ RunsOnce
  BY DEF Halts, ForcedDownBriefly, RunsOnce
<1> QED
  BY <1>1, <1>2, <1>3 DEF IInv

\* What a step of a handler leaves alone when it stays away from the cloud, the
\* threads and the restart of its node.
OnlySelf(h) ==
    /\ nova_host' = nova_host /\ power' = power /\ domain' = domain
    /\ forced' = forced /\ evacuating' = evacuating
    /\ thread' = thread /\ caller' = caller /\ failing' = failing
    /\ stuck' = stuck /\ healed' = healed /\ overtaken' = overtaken
    /\ DOMAIN pc' = Handlers /\ DOMAIN op' = Handlers /\ DOMAIN result' = Handlers
    /\ \A g \in Handlers : g # h => pc'[g] = pc[g] /\ op'[g] = op[g] /\ result'[g] = result[g]
    /\ pc[h] \notin {"request", "force up"}
    /\ failing[h] # None =>
          op'[h] = op[h] /\ pc'[h] # "idle" /\ pc[h] \notin {"check", "answer"}

\* Such a step preserves the invariant.
LEMMA SelfKeeps ==
    ASSUME IInv, NEW h \in Handlers, OnlySelf(h)
    PROVE  IInv'
<1> USE DEF IInv, OnlySelf
<1>1. Shaped'
  BY DEF Shaped
<1>2. Recovers'
  BY DEF Recovers, Shaped
<1>3. Waits'
  BY DEF Waits
<1>4. Reason'
  BY DEF Reason, Doubtful, Unfinished
<1>5. Halts' /\ Leaves' /\ RunsOnce'
  BY DEF Halts, Leaves, RunsOnce, Excused
<1>6. ForcedDownBriefly'
  BY DEF ForcedDownBriefly
<1> QED
  BY <1>1, <1>2, <1>3, <1>4, <1>5, <1>6

\* The methods of Cluster are such steps: a recovery uses them, but does not answer in
\* them.
LEMMA HandleMoves ==
    ASSUME IInv, NEW h \in Handlers, Handle(h), UNCHANGED failoverVars
    PROVE  OnlySelf(h)
<1> USE DEF IInv, Shaped, Recovers, failoverVars, cloud, threads, recovery, history, Kinds
<1>1. CASE Answer(h)
  BY <1>1 DEF Answer, Forget, At, Goto, OnlySelf, memory
<1>2. ASSUME add_node(h) \/ delete_node(h) \/ RemoveNode(h) PROVE OnlySelf(h)
  BY <1>2 DEF add_node, delete_node, RemoveNode, Return, Caller, At, Goto, OnlyNodes, local, OnlySelf
<1>3. ASSUME AddInstanceChecks(h) \/ _check_instance_host(h) \/ add_instance(h) PROVE OnlySelf(h)
  BY <1>3 DEF AddInstanceChecks, _check_instance_host, add_instance, Return, Caller, At, Goto,
              Quietly, OnlySelf
<1>4. ASSUME delete_instance(h) \/ update_instance_host(h) \/ update_instance(h) PROVE OnlySelf(h)
  BY <1>4 DEF delete_instance, update_instance_host, update_instance, Loops, At, Goto, Quietly,
              OnlySelf
<1>5. ASSUME DeleteNext(h) \/ UpdateNext(h) \/ UpdateAllNext(h) PROVE OnlySelf(h)
  BY <1>5 DEF DeleteNext, UpdateNext, UpdateAllNext, NoneLeft, Takes, Return, Caller, At, Goto,
              Quietly, OnlySelf
<1>6. ASSUME Compare(h) \/ Refresh(h) PROVE OnlySelf(h)
  BY <1>6 DEF Compare, Refresh, Return, Caller, At, Goto, Quietly, OnlySelf
<1>7. ASSUME SendAdd(h) \/ SendRemove(h) PROVE OnlySelf(h)
  BY <1>7 DEF SendAdd, SendRemove, Raises, Return, Caller, At, Goto, memory, local, OnlySelf
<1> QED
  BY <1>1, <1>2, <1>3, <1>4, <1>5, <1>6, <1>7 DEF Handle
----------------------------------------------------------------------------
(***************************************************************************)
(* The steps of a recovery.                                                *)
(***************************************************************************)
\* Those that stay away from the cloud.
LEMMA RecoverAsideMoves ==
    ASSUME IInv, NEW h \in Handlers,
           \/ _recover_vm(h) \/ UpdatesBegin(h) \/ UpdatesNext(h)
           \/ get_protected_instance(h) \/ ValidateInstance(h) \/ AnswerInstance(h)
    PROVE  OnlySelf(h)
<1> USE DEF IInv, Shaped, Recovers, cloud, threads, past, history, OnlySelf, At, Goto, Returns,
            Recovering
<1>1. CASE _recover_vm(h)
  BY <1>1 DEF _recover_vm
<1>2. CASE UpdatesBegin(h) \/ UpdatesNext(h)
  BY <1>2 DEF UpdatesBegin, UpdatesNext
<1>3. CASE get_protected_instance(h)
  BY <1>3 DEF get_protected_instance
<1>4. CASE ValidateInstance(h)
  BY <1>4 DEF ValidateInstance
<1>5. CASE AnswerInstance(h)
  BY <1>5 DEF AnswerInstance, Forget
<1> QED
  BY <1>1, <1>2, <1>3, <1>4, <1>5

\* One domain of one host changes.
LEMMA DomainMoves ==
    ASSUME NEW n, NEW i, NEW state \in {"none", "off", "on"}, Shaped, Domain(n, i, state)
    PROVE  /\ domain' \in [Hosts -> [Instances -> {"none", "off", "on"}]]
           /\ \A m \in Hosts, j \in Instances :
                  /\ m = n /\ j = i => domain'[m][j] = state
                  /\ m # n \/ j # i => domain'[m][j] = domain[m][j]
<1> USE DEF Shaped, Domain
<1>1. DOMAIN domain' = Hosts /\ domain' = [m \in Hosts |-> domain'[m]]
  OBVIOUS
<1>2. ASSUME NEW m \in Hosts
      PROVE  /\ domain'[m] \in [Instances -> {"none", "off", "on"}]
             /\ \A j \in Instances :
                    /\ m = n /\ j = i => domain'[m][j] = state
                    /\ m # n \/ j # i => domain'[m][j] = domain[m][j]
  <2>1. domain[m] \in [Instances -> {"none", "off", "on"}]
    BY <1>2
  <2>2. CASE m = n
    <3>1. domain'[m] = [domain[m] EXCEPT ![i] = state]
      BY <1>2, <2>2
    <3> QED
      BY <2>1, <2>2, <3>1
  <2>3. CASE m # n
    <3>1. domain'[m] = domain[m]
      BY <1>2, <2>3
    <3> QED
      BY <2>1, <2>3, <3>1
  <2> QED
    BY <2>2, <2>3
<1> QED
  BY <1>1, <1>2

\* What a handler leaves alone besides the cloud: only its place and result change.
OnlyPlace(h, place) ==
    /\ nova_host' = nova_host /\ thread' = thread /\ caller' = caller /\ failing' = failing
    /\ op' = op
    /\ DOMAIN pc' = Handlers /\ DOMAIN result' = Handlers
    /\ pc'[h] = place
    /\ \A g \in Handlers : g # h => pc'[g] = pc[g] /\ result'[g] = result[g]

\* The thread still waits.
LEMMA PlaceKeeps ==
    ASSUME IInv, NEW h \in Handlers, NEW place, OnlyPlace(h, place), place # "idle",
           overtaken' = overtaken
    PROVE  Recovers' /\ Waits'
<1> USE DEF IInv, OnlyPlace
<1>1. Recovers'
  BY DEF Recovers
<1>2. Waits'
  BY DEF Waits
<1> QED
  BY <1>1, <1>2

\* When what the controller knows of the nodes has not changed, it still has its
\* reasons.
LEMMA ReasonKeeps ==
    ASSUME IInv, NEW h \in Handlers, NEW place, OnlyPlace(h, place), place # "answer",
           pc[h] \notin {"check", "answer"},
           power' = power, healed' = healed, overtaken' = overtaken
    PROVE  Reason'
  BY DEF IInv, OnlyPlace, Reason, Doubtful, Unfinished

\* A service that is down stays accounted for: the step brings it up, or leaves the
\* handler at the evacuation, or remembers that it raised.
LEMMA ForcedKeeps ==
    ASSUME ForcedDownBriefly, NEW h \in Handlers, NEW place, OnlyPlace(h, place),
           \A n \in forced' : n \in forced \/ (n = failing[h] /\ place \in {"request", "force up"}),
           \A n \in forced' : n \in stuck => n \in stuck',
           \/ pc[h] \notin {"request", "force up"}
           \/ place \in {"request", "force up"}
           \/ failing[h] \notin forced' \/ failing[h] \in stuck'
    PROVE  ForcedDownBriefly'
<1> SUFFICES ASSUME NEW n \in forced', n \notin stuck'
             PROVE  \E g \in Handlers : failing'[g] = n /\ pc'[g] \in {"request", "force up"}
  BY DEF ForcedDownBriefly
<1>1. CASE n = failing[h] /\ place \in {"request", "force up"}
  BY <1>1 DEF OnlyPlace
<1>2. CASE n \in forced /\ ~(n = failing[h] /\ place \in {"request", "force up"})
  <2>1. n \notin stuck
    OBVIOUS
  <2>2. PICK g \in Handlers : failing[g] = n /\ pc[g] \in {"request", "force up"}
    BY <1>2, <2>1 DEF ForcedDownBriefly
  <2>3. g # h
    BY <1>2, <2>2
  <2> QED
    BY <2>2, <2>3 DEF OnlyPlace
<1> QED
  BY <1>1, <1>2

\* What is left on the target is destroyed.
LEMMA UndefineKeeps ==
    ASSUME IInv, NEW h \in Handlers, undefine_instance(h)
    PROVE  IInv'
<1> USE DEF IInv
<1>1. /\ UNCHANGED <<power, forced, evacuating, stuck, healed, overtaken>>
      /\ OnlyPlace(h, "force down") /\ pc[h] = "evacuate"
  BY DEF undefine_instance, Recovering, past, threads, At, Goto, OnlyPlace, Shaped
<1>2. /\ domain' \in [Hosts -> [Instances -> {"none", "off", "on"}]]
      /\ \A n \in Hosts, i \in Instances : domain'[n][i] = "on" => domain[n][i] = "on"
  <2>1. CASE domain' = domain
    BY <2>1 DEF Shaped
  <2>2. ASSUME NEW n, NEW i, Domain(n, i, "none") PROVE <1>2!2 /\ <1>2!1
    BY <2>2, DomainMoves
  <2> QED
    BY <2>1, <2>2 DEF undefine_instance
<1>3. Shaped'
  BY <1>1, <1>2 DEF Shaped, OnlyPlace
<1>4. Recovers' /\ Waits' /\ Reason'
  BY <1>1, PlaceKeeps, ReasonKeeps
<1>5. Halts'
  BY <1>1, <1>2 DEF Halts
<1>6. Leaves' /\ RunsOnce'
  BY <1>1, <1>2 DEF Leaves, RunsOnce, Excused, OnlyPlace
<1>7. ForcedDownBriefly'
  BY <1>1 DEF ForcedDownBriefly, OnlyPlace
<1> QED
  BY <1>3, <1>4, <1>5, <1>6, <1>7

\* The service of the node is forced down.
LEMMA DownKeeps ==
    ASSUME IInv, NEW h \in Handlers, _nova_service_down(h)
    PROVE  IInv'
<1> USE DEF IInv
<1>1. /\ UNCHANGED <<power, domain, evacuating, stuck, healed, overtaken>>
      /\ pc[h] = "force down"
      /\ \/ OnlyPlace(h, "request") /\ forced' = forced \cup {failing[h]}
         \/ OnlyPlace(h, "evacuate") /\ forced' = forced
  <2>1. /\ UNCHANGED <<power, domain, evacuating, stuck, healed, overtaken>>
        /\ pc[h] = "force down"
    BY DEF _nova_service_down, past, At
  <2>2. ASSUME NEW place, Goto(h, place), Recovering, result' = result
        PROVE  OnlyPlace(h, place)
    BY <2>2 DEF Recovering, threads, Goto, OnlyPlace, Shaped
  <2>3. CASE forced' = forced \cup {failing[h]} /\ Goto(h, "request")
    BY <2>1, <2>2, <2>3 DEF _nova_service_down
  <2>4. CASE forced' = forced /\ Goto(h, "evacuate")
    BY <2>1, <2>2, <2>4 DEF _nova_service_down
  <2> QED
    BY <2>3, <2>4 DEF _nova_service_down
<1>2. Shaped'
  BY <1>1 DEF Shaped, OnlyPlace
<1>3. Recovers' /\ Waits' /\ Reason'
  BY <1>1, PlaceKeeps, ReasonKeeps
<1>4. Halts' /\ Leaves' /\ RunsOnce'
  BY <1>1 DEF Halts, Leaves, RunsOnce, Excused, OnlyPlace
<1>5. ForcedDownBriefly'
  BY <1>1, ForcedKeeps
<1> QED
  BY <1>2, <1>3, <1>4, <1>5

\* Nova accepts an evacuation from a node whose service is down, that is one which is
\* not up, is about to be restarted, or whose service has been left down: Reason and
\* ForcedDownBriefly.
LEMMA EvacuateKeeps ==
    ASSUME IInv, NEW h \in Handlers, evacuate(h)
    PROVE  IInv'
<1> USE DEF IInv
<1> DEFINE i == id[object[h]]
<1>1. /\ UNCHANGED <<power, domain, forced, healed, overtaken>>
      /\ pc[h] = "request"
      /\ DOMAIN evacuating' = Instances
      /\ \A j \in Instances : j # i => evacuating'[j] = evacuating[j]
      /\ \/ /\ nova_host[i] \in forced \/ power[nova_host[i]] # "up"
            /\ OnlyPlace(h, "force up") /\ stuck' = stuck
         \/ /\ OnlyPlace(h, "evacuate") /\ stuck' = stuck \cup {failing[h]}
            /\ evacuating' = evacuating
  <2>1. /\ UNCHANGED <<power, domain, forced, healed, overtaken>>
        /\ pc[h] = "request" /\ Recovering /\ result' = result
    BY DEF evacuate, At
  <2>2. ASSUME NEW place, Goto(h, place)
        PROVE  OnlyPlace(h, place)
    BY <2>1, <2>2 DEF Recovering, threads, Goto, OnlyPlace, Shaped
  <2>3. CASE /\ nova_host[i] \in forced \/ power[nova_host[i]] # "up"
             /\ evacuating' = [evacuating EXCEPT ![i] = target[h]]
             /\ Goto(h, "force up") /\ stuck' = stuck
    <3>1. DOMAIN evacuating' = Instances /\ \A j \in Instances : j # i => evacuating'[j] = evacuating[j]
      BY <2>3 DEF Shaped
    <3> QED
      BY <2>1, <2>2, <2>3, <3>1
  <2>4. CASE /\ Goto(h, "evacuate") /\ stuck' = stuck \cup {failing[h]}
             /\ evacuating' = evacuating
    BY <2>1, <2>2, <2>4 DEF Shaped
  <2> QED
    BY <2>3, <2>4 DEF evacuate
<1> HIDE DEF i
<1>2. Shaped'
  BY <1>1 DEF Shaped, OnlyPlace
<1>3. Recovers' /\ Waits' /\ Reason'
  BY <1>1, PlaceKeeps, ReasonKeeps
<1>4. Halts' /\ RunsOnce'
  BY <1>1 DEF Halts, RunsOnce, Excused, OnlyPlace
<1>5. ForcedDownBriefly'
  BY <1>1, ForcedKeeps
<1>6. Leaves'
  <2>1. nova_host' = nova_host
    BY <1>1 DEF OnlyPlace
  <2>2. SUFFICES ASSUME NEW n \in Hosts, NEW j \in Instances,
                        evacuating'[j] # None, nova_host[j] = n, domain[n][j] = "on",
                        power[n] # "cut", n \notin healed \cup stuck' \cup overtaken
                 PROVE  FALSE
    BY <1>1, <2>1 DEF Leaves, Excused
  <2>3. evacuating[j] = None /\ j = i /\ n \notin stuck
    BY <1>1, <2>2 DEF Leaves, Excused
  <2>4. power[n] = "up"
    BY <2>2 DEF Halts, Shaped
  <2>5. n \in forced
    BY <1>1, <2>2, <2>3, <2>4
  <2>6. PICK g \in Handlers : failing[g] = n /\ pc[g] \in {"request", "force up"}
    BY <2>3, <2>5 DEF ForcedDownBriefly
  <2>7. Doubtful(n)
    BY <2>2, <2>6 DEF Reason, Unfinished
  <2> QED
    BY <2>2, <2>4, <2>7 DEF Doubtful
<1> QED
  BY <1>2, <1>3, <1>4, <1>5, <1>6

\* The service is up again, or its node is remembered.  The node whose service is up
\* is not up itself, came back by itself, or has been overtaken: Reason.
LEMMA UpKeeps ==
    ASSUME IInv, NEW h \in Handlers, _nova_service_up(h)
    PROVE  IInv'
<1> USE DEF IInv
<1> DEFINE n == failing[h]
<1>1. /\ UNCHANGED <<power, domain, evacuating, healed, overtaken>>
      /\ OnlyPlace(h, "evacuate") /\ pc[h] = "force up"
  BY DEF _nova_service_up, Recovering, threads, At, Goto, OnlyPlace, Shaped
<1>2. \/ forced' = forced \ {n} /\ stuck' = stuck \ {n}
      \/ forced' = forced /\ stuck' = stuck \cup {n}
  BY DEF _nova_service_up
<1>3. n \in Hosts /\ n \notin overtaken => Doubtful(n)
  BY <1>1 DEF Reason, Unfinished
<1> HIDE DEF n
<1>4. Shaped'
  BY <1>1 DEF Shaped, OnlyPlace
<1>5. Recovers' /\ Waits' /\ Reason'
  BY <1>1, PlaceKeeps, ReasonKeeps
<1>6. ASSUME NEW m \in Hosts, NEW i \in Instances, domain[m][i] = "on", Excused(m)
      PROVE  Excused(m)'
  BY <1>1, <1>2, <1>3, <1>6 DEF Excused, Doubtful, Halts, Shaped
<1>7. Halts'
  BY <1>1 DEF Halts
<1>8. Leaves'
  BY <1>1, <1>6 DEF Leaves, OnlyPlace
<1>9. RunsOnce'
  BY <1>1, <1>6 DEF RunsOnce, Excused, OnlyPlace
<1>10. ForcedDownBriefly'
  BY <1>1, <1>2, ForcedKeeps DEF n
<1> QED
  BY <1>4, <1>5, <1>7, <1>8, <1>9, <1>10

\* The node is reset or started, and what ran on it does not run any more: none of its
\* other handlers and no thread is about to act on its having failed, but those that
\* have been overtaken.
LEMMA BootKeeps ==
    ASSUME IInv, NEW h \in Handlers, Boot(h)
    PROVE  IInv'
<1> USE DEF IInv
<1> DEFINE n == failing[h]
<1>1. UNCHANGED <<forced, evacuating, stuck, overtaken>> /\ pc[h] = "boot" /\ Recovering
  BY DEF Boot, At
<1>2. ASSUME NEW place, Goto(h, place),
             result' = result \/ \E value : result' = [result EXCEPT ![h] = value]
      PROVE  OnlyPlace(h, place)
  BY <1>1, <1>2 DEF Recovering, threads, Goto, OnlyPlace, Shaped
<1>3. ASSUME NEW place, place # "idle", OnlyPlace(h, place), power' = power,
             domain' = domain, healed' = healed, Reason'
      PROVE  IInv'
  <2>1. Shaped' /\ Halts' /\ Leaves' /\ RunsOnce'
    BY <1>1, <1>3 DEF Shaped, OnlyPlace, Halts, Leaves, RunsOnce, Excused
  <2>2. Recovers' /\ Waits'
    BY <1>1, <1>3, PlaceKeeps
  <2>3. ForcedDownBriefly'
    BY <1>1, <1>3, ForcedKeeps
  <2> QED
    BY <1>3, <2>1, <2>2, <2>3
<1>4. ASSUME NEW value \in {"raised", "false"}, Returns(h, value),
             UNCHANGED <<power, domain, healed>>
      PROVE  IInv'
  <2>1. OnlyPlace(h, "answer") /\ result'[h] = value
    BY <1>2, <1>4 DEF Returns, Shaped
  <2>2. Reason'
    BY <1>1, <1>4, <2>1 DEF Reason, Doubtful, Unfinished, OnlyPlace
  <2> QED
    BY <1>3, <1>4, <2>1, <2>2
<1>5. ASSUME Goto(h, "check"), UNCHANGED <<power, domain, healed, result>>
      PROVE  IInv'
  <2>1. OnlyPlace(h, "check")
    BY <1>2, <1>5
  <2>2. Reason'
    BY <1>1, <1>5, <2>1, ReasonKeeps
  <2> QED
    BY <1>3, <1>5, <2>1, <2>2
<1>6. ASSUME Goto(h, "check"), result' = result,
             domain' = [domain EXCEPT ![n] = Halted(n)], healed' = healed \ {n},
             NEW value \in {"up", "off"}, power' = [power EXCEPT ![n] = value]
      PROVE  IInv'
  <2>1. OnlyPlace(h, "check")
    BY <1>2, <1>6
  <2>2. /\ power' \in [Hosts -> {"up", "cut", "off"}]
        /\ \A m \in Hosts : m # n => power'[m] = power[m]
    BY <1>6 DEF Shaped
  <2>3. Halted(n) \in [Instances -> {"none", "off", "on"}] \/ n \notin Hosts
    BY DEF Halted, Shaped
  <2>4. \A i \in Instances : Halted(n)[i] # "on"
    BY DEF Halted
  <2>5. /\ domain' \in [Hosts -> [Instances -> {"none", "off", "on"}]]
        /\ \A m \in Hosts : m # n => domain'[m] = domain[m]
        /\ n \in Hosts => domain'[n] = Halted(n)
    BY <1>6, <2>3 DEF Shaped
  <2>6. \A m \in Hosts, i \in Instances : domain'[m][i] = "on" => m # n /\ domain[m][i] = "on"
    BY <2>4, <2>5
  <2>7. Shaped'
    BY <1>1, <2>1, <2>2, <2>5 DEF Shaped, OnlyPlace
  <2>8. Recovers' /\ Waits'
    BY <1>1, <2>1, PlaceKeeps
  <2>9. Halts'
    BY <2>2, <2>6 DEF Halts
  <2>10. Leaves' /\ RunsOnce'
    BY <1>1, <1>6, <2>1, <2>2, <2>6 DEF Leaves, RunsOnce, Excused, OnlyPlace
  <2>11. ForcedDownBriefly'
    BY <1>1, <2>1, ForcedKeeps
  <2>12. \A m \in Hosts : m # n /\ Doubtful(m) => Doubtful(m)'
    BY <1>6, <2>2 DEF Doubtful
  <2>13. n \in Hosts \ overtaken => caller[h] = n /\ thread[n] = "await"
    BY DEF Waits
  <2>14. ASSUME NEW m \in Hosts, thread'[m] = "call", m \notin overtaken'
         PROVE  Doubtful(m)'
    BY <1>1, <2>1, <2>12, <2>13, <2>14 DEF Reason, OnlyPlace
  <2>15. ASSUME NEW g \in Handlers, failing'[g] # None, failing'[g] \notin overtaken', Unfinished(g)'
         PROVE  Doubtful(failing[g])'
    <3>1. g # h
      BY <2>1, <2>15 DEF Unfinished, OnlyPlace
    <3>2. failing[g] \in Hosts \ overtaken /\ caller[g] = failing[g] /\ Unfinished(g)
      BY <1>1, <2>1, <2>15, <3>1 DEF Waits, Shaped, OnlyPlace, Unfinished
    <3>3. failing[g] # n
      BY <2>13, <3>1, <3>2 DEF Waits
    <3> QED
      BY <2>1, <2>12, <3>2, <3>3 DEF Reason, Doubtful, OnlyPlace
  <2>16. Reason'
    BY <2>1, <2>14, <2>15 DEF Reason, OnlyPlace
  <2> QED
    BY <2>7, <2>8, <2>9, <2>10, <2>11, <2>16
<1> QED
  BY <1>4, <1>5, <1>6 DEF Boot

\* The recovery has failed only when the node is still not up.
LEMMA CheckKeeps ==
    ASSUME IInv, NEW h \in Handlers, _check_node_boot_success(h)
    PROVE  IInv'
<1> USE DEF IInv
<1>1. /\ UNCHANGED <<power, domain, forced, evacuating, stuck, healed, overtaken>>
      /\ OnlyPlace(h, "answer") /\ pc[h] = "check"
      /\ result'[h] = "false" => power[failing[h]] # "up"
  BY DEF _check_node_boot_success, Recovering, Returns, cloud, past, threads, At, Goto, OnlyPlace,
         Shaped
<1>2. Shaped' /\ Halts' /\ Leaves' /\ RunsOnce'
  BY <1>1 DEF Shaped, OnlyPlace, Halts, Leaves, RunsOnce, Excused
<1>3. Recovers' /\ Waits'
  BY <1>1, PlaceKeeps
<1>4. ForcedDownBriefly'
  BY <1>1, ForcedKeeps
<1>5. Reason'
  BY <1>1 DEF Reason, Doubtful, Unfinished, OnlyPlace
<1> QED
  BY <1>2, <1>3, <1>4, <1>5

\* The thread is told, and calls for the next recovery only when the node is still not
\* up, came back by itself, or has been overtaken.
LEMMA AnswerKeeps ==
    ASSUME IInv, NEW h \in Handlers, AnswerRecovery(h)
    PROVE  IInv'
<1> USE DEF IInv
<1> DEFINE n == caller[h]
<1>1. /\ UNCHANGED <<nova_host, power, domain, forced, evacuating, stuck, healed, overtaken>>
      /\ pc[h] = "answer" /\ op[h] = "recover"
      /\ pc' = [pc EXCEPT ![h] = "idle"] /\ op' = [op EXCEPT ![h] = None]
      /\ caller' = [caller EXCEPT ![h] = None] /\ failing' = [failing EXCEPT ![h] = None]
      /\ result' = [result EXCEPT ![h] = "none"]
  BY DEF AnswerRecovery, cloud, past, At, Goto, Forget
<1>2. /\ pc'[h] = "idle" /\ op'[h] = None /\ caller'[h] = None /\ failing'[h] = None
      /\ \A g \in Handlers : g # h =>
             /\ pc'[g] = pc[g] /\ op'[g] = op[g] /\ result'[g] = result[g]
             /\ caller'[g] = caller[g] /\ failing'[g] = failing[g]
  BY <1>1 DEF Shaped
<1>3. /\ DOMAIN thread' = Hosts
      /\ \A m \in Hosts : m # n => thread'[m] = thread[m]
      /\ thread'[n] = "call" /\ n \in Hosts => result[h] = "false"
  BY DEF AnswerRecovery, Fails, Shaped
<1> HIDE DEF n
<1>4. Shaped'
  BY <1>1, <1>3 DEF Shaped
<1>5. Recovers'
  BY <1>2 DEF Recovers
<1>6. Waits'
  <2>1. ASSUME NEW g \in Handlers, caller'[g] # None PROVE thread'[caller'[g]] = "await"
    <3>1. g # h /\ caller[g] # n /\ caller'[g] = caller[g] /\ caller[g] \in Hosts
      BY <1>2, <2>1 DEF Waits, Shaped, n
    <3> QED
      BY <1>3, <2>1, <3>1 DEF Waits
  <2> QED
    BY <1>1, <1>2, <2>1 DEF Waits
<1>7. Reason'
  <2>1. ASSUME NEW m \in Hosts, thread'[m] = "call", m \notin overtaken'
        PROVE  Doubtful(m)'
    <3>1. CASE m = n
      <4>1. failing[h] = n /\ Unfinished(h) /\ n # None
        BY <1>1, <1>3, <2>1, <3>1 DEF Recovers, Unfinished, n
      <4> QED
        BY <1>1, <2>1, <3>1, <4>1 DEF Reason, Doubtful
    <3>2. CASE m # n
      BY <1>1, <1>3, <2>1, <3>2 DEF Reason, Doubtful
    <3> QED
      BY <3>1, <3>2
  <2>2. ASSUME NEW g \in Handlers, failing'[g] # None, failing'[g] \notin overtaken', Unfinished(g)'
        PROVE  Doubtful(failing[g])'
    BY <1>1, <1>2, <2>2 DEF Reason, Doubtful, Unfinished
  <2> QED
    BY <2>1, <2>2 DEF Reason
<1>8. Halts' /\ Leaves' /\ RunsOnce'
  BY <1>1 DEF Halts, Leaves, RunsOnce, Excused
<1>9. ForcedDownBriefly'
  <2>1. ASSUME NEW m \in forced, m \notin stuck
        PROVE  \E g \in Handlers : failing'[g] = m /\ pc'[g] \in {"request", "force up"}
    <3>1. PICK g \in Handlers : failing[g] = m /\ pc[g] \in {"request", "force up"}
      BY <2>1 DEF ForcedDownBriefly
    <3>2. g # h
      BY <1>1, <3>1
    <3> QED
      BY <1>2, <3>1, <3>2
  <2> QED
    BY <1>1, <2>1 DEF ForcedDownBriefly
<1> QED
  BY <1>4, <1>5, <1>6, <1>7, <1>8, <1>9
----------------------------------------------------------------------------
(***************************************************************************)
(* The recovery of an instance.                                            *)
(***************************************************************************)
\* Nova starts the domain where it has the instance, and that host is up.
LEMMA HardRebootKeeps ==
    ASSUME IInv, NEW h \in Handlers, hard_reboot_instance(h)
    PROVE  IInv'
<1> USE DEF IInv
<1> DEFINE i == what[h]
<1> DEFINE n == nova_host[i]
<1>1. /\ UNCHANGED <<power, forced, evacuating, stuck, healed, overtaken>>
      /\ OnlyPlace(h, "validate") /\ pc[h] = "hard reboot"
  BY DEF hard_reboot_instance, Recovering, past, threads, At, Goto, OnlyPlace, Shaped
<1>2. /\ domain' \in [Hosts -> [Instances -> {"none", "off", "on"}]]
      /\ \A m \in Hosts, j \in Instances :
             domain'[m][j] = "on" =>
                 \/ domain[m][j] = "on"
                 \/ m = nova_host[j] /\ power[m] = "up" /\ evacuating[j] = None
  <2>1. CASE domain' = domain
    BY <2>1 DEF Shaped
  <2>2. CASE evacuating[i] = None /\ power[n] = "up" /\ Domain(n, i, "on")
    <3>1. /\ domain' \in [Hosts -> [Instances -> {"none", "off", "on"}]]
          /\ \A m \in Hosts, j \in Instances : m # n \/ j # i => domain'[m][j] = domain[m][j]
      BY <2>2, DomainMoves
    <3> QED
      BY <2>2, <3>1
  <2> QED
    BY <2>1, <2>2 DEF hard_reboot_instance
<1> HIDE DEF i, n
<1>3. Shaped'
  BY <1>1, <1>2 DEF Shaped, OnlyPlace
<1>4. Recovers' /\ Waits' /\ Reason'
  BY <1>1, PlaceKeeps, ReasonKeeps
<1>5. Halts'
  <2>1. power' = power
    BY <1>1
  <2>2. ASSUME NEW m \in Hosts, NEW j \in Instances, power[m] = "off"
        PROVE  domain'[m][j] # "on"
    BY <1>2, <2>2 DEF Halts
  <2> QED
    BY <2>1, <2>2 DEF Halts
<1>6. Leaves'
  <2>1. nova_host' = nova_host
    BY <1>1 DEF OnlyPlace
  <2>2. ASSUME NEW m \in Hosts, NEW j \in Instances,
               evacuating[j] # None, nova_host[j] = m, domain'[m][j] = "on"
        PROVE  Excused(m)
    BY <1>2, <2>2 DEF Leaves
  <2> QED
    BY <1>1, <2>1, <2>2 DEF Leaves, Excused
<1>7. RunsOnce'
  <2>1. nova_host' = nova_host
    BY <1>1 DEF OnlyPlace
  <2>2. ASSUME NEW m \in Hosts, NEW j \in Instances,
               domain'[m][j] = "on", m # nova_host[j]
        PROVE  power[m] = "cut" \/ m \in healed \cup stuck \cup overtaken
    BY <1>2, <2>2 DEF RunsOnce
  <2> QED
    BY <1>1, <2>1, <2>2 DEF RunsOnce
<1>8. ForcedDownBriefly'
  BY <1>1, ForcedKeeps
<1> QED
  BY <1>3, <1>4, <1>5, <1>6, <1>7, <1>8

\* Every step of a recovery preserves the invariant.
LEMMA RecoverKeeps ==
    ASSUME IInv, NEW h \in Handlers, Recover(h)
    PROVE  IInv'
<1>1. CASE \/ _recover_vm(h) \/ UpdatesBegin(h) \/ UpdatesNext(h)
           \/ get_protected_instance(h) \/ ValidateInstance(h) \/ AnswerInstance(h)
  BY <1>1, RecoverAsideMoves, SelfKeeps
<1>2. CASE undefine_instance(h)
  BY <1>2, UndefineKeeps
<1>3. CASE _nova_service_down(h)
  BY <1>3, DownKeeps
<1>4. CASE evacuate(h)
  BY <1>4, EvacuateKeeps
<1>5. CASE _nova_service_up(h)
  BY <1>5, UpKeeps
<1>6. CASE Boot(h)
  BY <1>6, BootKeeps
<1>7. CASE _check_node_boot_success(h)
  BY <1>7, CheckKeeps
<1>8. CASE AnswerRecovery(h)
  BY <1>8, AnswerKeeps
<1>9. CASE hard_reboot_instance(h)
  BY <1>9, HardRebootKeeps
<1> QED
  BY <1>1, <1>2, <1>3, <1>4, <1>5, <1>6, <1>7, <1>8, <1>9 DEF Recover

\* A request finds its handler idle.
LEMMA RequestKeeps ==
    ASSUME IInv, NEW h \in Handlers, Request(h)
    PROVE  IInv'
<1>1. ASSUME NEW kind, NEW about, Begins(h, kind, about),
             UNCHANGED <<cloud, threads, recovery, past>>
      PROVE  OnlySelf(h)
  BY <1>1 DEF Begins, cloud, threads, recovery, past, OnlySelf, IInv, Shaped, Recovers
<1>2. OnlySelf(h)
  BY <1>1 DEF Request, Receive, RecoverInstance
<1> QED
  BY <1>2, SelfKeeps
----------------------------------------------------------------------------
(***************************************************************************)
(* The detection threads.                                                  *)
(***************************************************************************)
\* A thread that calls waits for no other handler, unless it has once given up.
LEMMA CallsKeeps ==
    ASSUME IInv, NEW n \in Hosts, NEW h \in Handlers, Calls(n, h)
    PROVE  IInv'
<1> USE DEF IInv
<1>1. /\ UNCHANGED <<nova_host, result, power, domain, forced, evacuating, stuck, healed,
                     overtaken>>
      /\ thread[n] = "call" /\ pc[h] = "idle"
      /\ thread' = [thread EXCEPT ![n] = "await"]
      /\ pc' = [pc EXCEPT ![h] = "begin"] /\ op' = [op EXCEPT ![h] = "recover"]
      /\ caller' = [caller EXCEPT ![h] = n] /\ failing' = [failing EXCEPT ![h] = n]
  BY DEF Calls, Begins, cloud, past
<1>2. /\ pc'[h] = "begin" /\ op'[h] = "recover" /\ caller'[h] = n /\ failing'[h] = n
      /\ \A g \in Handlers : g # h =>
             /\ pc'[g] = pc[g] /\ op'[g] = op[g]
             /\ caller'[g] = caller[g] /\ failing'[g] = failing[g]
      /\ thread'[n] = "await" /\ \A m \in Hosts : m # n => thread'[m] = thread[m]
  BY <1>1 DEF Shaped
<1>3. failing[h] = None /\ n # None
  BY <1>1 DEF Recovers
<1>4. \A g \in Handlers : caller[g] # n
  BY <1>1, <1>3 DEF Waits
<1>5. Shaped'
  BY <1>1 DEF Shaped
<1>6. Recovers'
  BY <1>2 DEF Recovers
<1>7. Waits'
  <2>1. ASSUME NEW g \in Handlers, caller'[g] # None PROVE thread'[caller'[g]] = "await"
    BY <1>2, <1>5, <2>1 DEF Waits, Shaped
  <2>2. ASSUME NEW f \in Handlers, NEW g \in Handlers, caller'[g] = caller'[f], caller'[f] # None
        PROVE  f = g
    BY <1>2, <1>4, <2>2 DEF Waits
  <2>3. ASSUME NEW g \in Handlers, failing'[g] # None, failing'[g] \notin overtaken'
        PROVE  caller'[g] = failing'[g]
    BY <1>1, <1>2, <2>3 DEF Waits
  <2> QED
    BY <2>1, <2>2, <2>3 DEF Waits
<1>8. Reason'
  <2>1. ASSUME NEW m \in Hosts, thread'[m] = "call", m \notin overtaken'
        PROVE  Doubtful(m)'
    BY <1>1, <1>2, <2>1 DEF Reason, Doubtful
  <2>2. ASSUME NEW g \in Handlers, failing'[g] # None, failing'[g] \notin overtaken', Unfinished(g)'
        PROVE  Doubtful(failing[g])'
    <3>1. CASE g = h
      BY <1>1, <1>2, <2>2, <3>1 DEF Reason, Doubtful
    <3>2. CASE g # h
      BY <1>1, <1>2, <2>2, <3>2 DEF Reason, Doubtful, Unfinished
    <3> QED
      BY <3>1, <3>2
  <2> QED
    BY <2>1, <2>2 DEF Reason
<1>9. Halts' /\ Leaves' /\ RunsOnce'
  BY <1>1 DEF Halts, Leaves, RunsOnce, Excused
<1>10. ForcedDownBriefly'
  <2>1. ASSUME NEW m \in forced, m \notin stuck
        PROVE  \E g \in Handlers : failing'[g] = m /\ pc'[g] \in {"request", "force up"}
    <3>1. PICK g \in Handlers : failing[g] = m /\ pc[g] \in {"request", "force up"}
      BY <2>1 DEF ForcedDownBriefly
    <3>2. g # h
      BY <1>1, <3>1
    <3> QED
      BY <1>2, <3>1, <3>2
  <2> QED
    BY <1>1, <2>1 DEF ForcedDownBriefly
<1> QED
  BY <1>5, <1>6, <1>7, <1>8, <1>9, <1>10

\* A thread that finds its node failed, or up again.
LEMMA ThreadKeeps ==
    ASSUME IInv, NEW n \in Hosts, Detects(n) \/ Rechecks(n)
    PROVE  IInv'
<1> USE DEF IInv
<1>1. /\ UNCHANGED <<nova_host, pc, op, result, caller, failing, power, domain, forced,
                     evacuating, stuck, healed, overtaken>>
      /\ thread[n] # "await" /\ DOMAIN thread' = Hosts
      /\ \A m \in Hosts : m # n => thread'[m] = thread[m]
      /\ thread'[n] = "call" => power[n] # "up"
  <2>1. CASE Detects(n)
    BY <2>1 DEF Detects, protectionVars, local, cloud, recovery, history, Shaped
  <2>2. CASE Rechecks(n)
    BY <2>2 DEF Rechecks, protectionVars, local, cloud, recovery, history, Shaped
  <2> QED
    BY <2>1, <2>2
<1>2. Shaped' /\ Recovers'
  BY <1>1 DEF Shaped, Recovers
<1>3. Waits'
  BY <1>1 DEF Waits, Shaped
<1>4. Reason'
  BY <1>1 DEF Reason, Doubtful, Unfinished
<1>5. Halts' /\ Leaves' /\ RunsOnce' /\ ForcedDownBriefly'
  BY <1>1 DEF Halts, Leaves, RunsOnce, Excused, ForcedDownBriefly
<1> QED
  BY <1>2, <1>3, <1>4, <1>5

\* A thread that gives up is remembered.
LEMMA TimesOutKeeps ==
    ASSUME IInv, NEW n \in Hosts, TimesOut(n)
    PROVE  IInv'
<1> USE DEF IInv
<1>1. /\ UNCHANGED <<nova_host, pc, op, result, failing, power, domain, forced, evacuating,
                     stuck, healed>>
      /\ overtaken' = overtaken \cup {n}
  BY DEF TimesOut, protectionVars, local, cloud, recovery
<1>2. DOMAIN thread' = Hosts /\ \A m \in Hosts : m # n => thread'[m] = thread[m]
  BY DEF TimesOut, Fails, Shaped
<1>3. PICK h \in Handlers : caller[h] = n /\ caller' = [caller EXCEPT ![h] = None]
  BY DEF TimesOut
<1>4. caller'[h] = None /\ \A g \in Handlers : g # h => caller'[g] = caller[g] /\ caller[g] # n
  BY <1>3 DEF Waits, Shaped
<1>5. Shaped'
  BY <1>1, <1>2, <1>3 DEF Shaped
<1>6. Recovers'
  BY <1>1, <1>4 DEF Recovers
<1>7. Waits'
  BY <1>1, <1>2, <1>3, <1>4, <1>5 DEF Waits, Shaped
<1>8. Reason'
  BY <1>1, <1>2 DEF Reason, Doubtful, Unfinished
<1>9. Halts' /\ Leaves' /\ RunsOnce' /\ ForcedDownBriefly'
  BY <1>1 DEF Halts, Leaves, RunsOnce, Excused, ForcedDownBriefly
<1> QED
  BY <1>5, <1>6, <1>7, <1>8, <1>9
----------------------------------------------------------------------------
(***************************************************************************)
(* The hosts and Nova.                                                     *)
(***************************************************************************)
\* What the cloud does without the controller.
Outside ==
    /\ UNCHANGED <<pc, op, result, threads, forced, failing, stuck, overtaken>>
    /\ \A n \in Hosts : Doubtful(n) => Doubtful(n)'

\* It leaves the controller its reasons.
LEMMA OutsideKeeps ==
    ASSUME IInv, Outside
    PROVE  Recovers' /\ Waits' /\ Reason' /\ ForcedDownBriefly'
<1> USE DEF IInv, Outside, threads
<1>1. Recovers'
  BY DEF Recovers
<1>2. Waits'
  BY DEF Waits
<1>3. ForcedDownBriefly'
  BY DEF ForcedDownBriefly
<1>4. Reason'
  BY DEF Reason, Unfinished, Shaped
<1> QED
  BY <1>1, <1>2, <1>3, <1>4

\* A host that goes off takes its domains with it; one that is cut off is excused.
LEMMA BreaksKeeps ==
    ASSUME IInv, NEW n \in Hosts, Breaks(n)
    PROVE  IInv'
<1> USE DEF IInv
<1>1. UNCHANGED <<nova_host, pc, op, result, threads, forced, evacuating, failing, stuck, overtaken>>
  BY DEF Breaks, protectionVars, local, recovery
<1>2. PICK value \in {"cut", "off"} :
          /\ power' = [power EXCEPT ![n] = value]
          /\ value = "cut" => domain' = domain /\ healed' = healed
          /\ value = "off" => /\ domain' = [domain EXCEPT ![n] = Halted(n)]
                             /\ healed' = healed \ {n}
  BY DEF Breaks
<1>3. /\ power' \in [Hosts -> {"up", "cut", "off"}] /\ power'[n] = value
      /\ \A m \in Hosts : m # n => power'[m] = power[m]
  BY <1>2 DEF Shaped
<1>4. Halted(n) \in [Instances -> {"none", "off", "on"}]
  BY DEF Halted, Shaped
<1>5. \A i \in Instances : Halted(n)[i] # "on"
  BY DEF Halted
<1>6. /\ domain' \in [Hosts -> [Instances -> {"none", "off", "on"}]]
      /\ \A m \in Hosts, i \in Instances :
             domain'[m][i] = "on" => domain[m][i] = "on" /\ (m = n => value = "cut")
  BY <1>2, <1>4, <1>5 DEF Shaped
<1>7. Outside
  BY <1>1, <1>2, <1>3 DEF Outside, Doubtful
<1>8. Shaped'
  BY <1>1, <1>3, <1>6 DEF Shaped, threads
<1>9. Halts'
  BY <1>3, <1>6 DEF Halts
<1>10. \A m \in Hosts, i \in Instances :
           domain'[m][i] = "on" => (Excused(m) => Excused(m)')
  BY <1>1, <1>2, <1>3, <1>6 DEF Excused
<1>11. Leaves'
  BY <1>1, <1>6, <1>10 DEF Leaves
<1>12. RunsOnce'
  BY <1>1, <1>6, <1>10 DEF RunsOnce, Excused
<1> QED
  BY <1>7, <1>8, <1>9, <1>11, <1>12, OutsideKeeps

\* A host that comes back by itself is remembered.
LEMMA HealsKeeps ==
    ASSUME IInv, NEW n \in Hosts, Heals(n)
    PROVE  IInv'
<1> USE DEF IInv
<1>1. /\ UNCHANGED <<nova_host, pc, op, result, threads, forced, evacuating, domain, failing,
                     stuck, overtaken>>
      /\ power[n] = "cut" /\ power' = [power EXCEPT ![n] = "up"]
      /\ healed' = healed \cup {n}
  BY DEF Heals, protectionVars, local, recovery
<1>2. /\ power' \in [Hosts -> {"up", "cut", "off"}] /\ power'[n] = "up"
      /\ \A m \in Hosts : m # n => power'[m] = power[m]
  BY <1>1 DEF Shaped
<1>3. Outside
  BY <1>1, <1>2 DEF Outside, Doubtful
<1>4. Shaped' /\ Halts'
  BY <1>1, <1>2 DEF Shaped, threads, Halts
<1>5. Leaves' /\ RunsOnce'
  BY <1>1, <1>2 DEF Leaves, RunsOnce, Excused
<1> QED
  BY <1>3, <1>4, <1>5, OutsideKeeps

\* An instance that crashes, that a user moves or deletes, or that Nova has rebuilt:
\* it runs nowhere anew but where Nova names it.
LEMMA DomainKeeps ==
    ASSUME IInv,
           UNCHANGED <<pc, op, result, threads, forced, failing, power, past>>,
           DOMAIN nova_host' = Instances, DOMAIN evacuating' = Instances,
           domain' \in [Hosts -> [Instances -> {"none", "off", "on"}]],
           \A i \in Instances : evacuating'[i] # None =>
               evacuating'[i] = evacuating[i] /\ nova_host'[i] = nova_host[i],
           \A n \in Hosts, i \in Instances : domain'[n][i] = "on" =>
               \/ /\ domain[n][i] = "on"
                  /\ \/ nova_host'[i] = nova_host[i] \/ nova_host[i] # n \/ Excused(n)
               \/ nova_host'[i] = n /\ power[n] = "up" /\ evacuating'[i] = None
    PROVE  IInv'
<1> USE DEF IInv, past
<1>1. Outside
  BY DEF Outside, Doubtful
<1>2. Shaped' /\ Halts'
  BY DEF Shaped, threads, Halts
<1>3. Leaves'
  BY DEF Leaves, Excused
<1>4. RunsOnce'
  BY DEF RunsOnce, Excused
<1> QED
  BY <1>1, <1>2, <1>3, <1>4, OutsideKeeps

\* An instance crashes.
LEMMA CrashesKeeps ==
    ASSUME IInv, NEW i \in Instances, Crashes(i)
    PROVE  IInv'
<1> USE DEF IInv
<1>1. PICK n \in Hosts : Domain(n, i, "off")
  BY DEF Crashes
<1>2. /\ domain' \in [Hosts -> [Instances -> {"none", "off", "on"}]]
      /\ \A m \in Hosts, j \in Instances : domain'[m][j] = "on" => domain[m][j] = "on"
  BY <1>1, DomainMoves
<1>3. UNCHANGED <<nova_host, evacuating, pc, op, result, threads, forced, failing, power, past>>
  BY DEF Crashes, protectionVars, local, recovery
<1> QED
  BY <1>2, <1>3, DomainKeeps DEF Shaped

\* A user moves or deletes an instance: Nova moves the domain with it.
LEMMA MigratesKeeps ==
    ASSUME IInv, NEW i \in Instances, NEW n \in Hosts \cup {None}, Migrates(i, n)
    PROVE  IInv'
<1> USE DEF IInv
<1> DEFINE here == nova_host[i]
<1>1. /\ UNCHANGED <<evacuating, pc, op, result, threads, forced, failing, power, past>>
      /\ nova_host' = [nova_host EXCEPT ![i] = n] /\ evacuating[i] = None
      /\ here # n
      /\ n # None => power[n] = "up"
  BY DEF Migrates, Moves, Placed, local, recovery
<1>2. /\ DOMAIN nova_host' = Instances /\ nova_host'[i] = n
      /\ \A j \in Instances : j # i => nova_host'[j] = nova_host[j]
  BY <1>1 DEF Shaped
<1>3. /\ domain' \in [Hosts -> [Instances -> {"none", "off", "on"}]]
      /\ \A m \in Hosts, j \in Instances : j # i => domain'[m][j] = domain[m][j]
      /\ \A m \in Hosts : m = here => domain'[m][i] # "on"
      /\ \A m \in Hosts : m \notin {here, n} => domain'[m][i] = domain[m][i]
  <2>1. CASE Domain(here, i, "none")
    BY <2>1, DomainMoves
  <2>2. CASE n # None /\ domain' = [domain EXCEPT ![here][i] = "none", ![n][i] = "on"]
    <3>1. n \in Hosts /\ here # n
      BY <1>1, <2>2
    <3>2. DOMAIN domain' = Hosts /\ domain' = [m \in Hosts |-> domain'[m]]
      BY <2>2 DEF Shaped
    <3>3. ASSUME NEW m \in Hosts
          PROVE  /\ m = here => domain'[m] = [domain[m] EXCEPT ![i] = "none"]
                 /\ m = n => domain'[m] = [domain[m] EXCEPT ![i] = "on"]
                 /\ m \notin {here, n} => domain'[m] = domain[m]
      BY <2>2, <3>1 DEF Shaped
    <3>4. ASSUME NEW m \in Hosts
          PROVE  /\ domain'[m] \in [Instances -> {"none", "off", "on"}]
                 /\ \A j \in Instances : j # i => domain'[m][j] = domain[m][j]
                 /\ m = here => domain'[m][i] # "on"
                 /\ m \notin {here, n} => domain'[m][i] = domain[m][i]
      <4>1. domain[m] \in [Instances -> {"none", "off", "on"}]
        BY DEF Shaped
      <4>2. CASE m = here
        <5>1. domain'[m] = [domain[m] EXCEPT ![i] = "none"]
          BY <3>3, <4>2
        <5>2. domain'[m] \in [Instances -> {"none", "off", "on"}]
          BY <4>1, <5>1
        <5>3. /\ \A j \in Instances : j # i => domain'[m][j] = domain[m][j]
              /\ domain'[m][i] # "on"
          BY <4>1, <5>1
        <5> QED
          BY <4>2, <5>2, <5>3
      <4>3. CASE m = n
        <5>1. domain'[m] = [domain[m] EXCEPT ![i] = "on"] /\ m # here
          BY <3>1, <3>3, <4>3
        <5>2. domain'[m] \in [Instances -> {"none", "off", "on"}]
          BY <4>1, <5>1
        <5>3. \A j \in Instances : j # i => domain'[m][j] = domain[m][j]
          BY <4>1, <5>1
        <5> QED
          BY <4>3, <5>1, <5>2, <5>3
      <4>4. CASE m \notin {here, n}
        BY <3>3, <4>1, <4>4
      <4> QED
        BY <4>2, <4>3, <4>4
    <3> HIDE DEF here
    <3> QED
      BY <3>2, <3>4
  <2> QED
    BY <2>1, <2>2 DEF Migrates
<1> HIDE DEF here
<1>4. ASSUME NEW m \in Hosts, NEW j \in Instances, domain'[m][j] = "on"
      PROVE  \/ /\ domain[m][j] = "on"
                /\ \/ nova_host'[j] = nova_host[j] \/ nova_host[j] # m \/ Excused(m)
             \/ nova_host'[j] = m /\ power[m] = "up" /\ evacuating'[j] = None
  <2>1. CASE j # i
    BY <1>2, <1>3, <1>4, <2>1
  <2>2. CASE j = i /\ m = n
    BY <1>1, <1>2, <1>3, <1>4, <2>2
  <2>3. CASE j = i /\ m # n
    BY <1>3, <1>4, <2>3 DEF here
  <2> QED
    BY <2>1, <2>2, <2>3
<1> QED
  BY <1>1, <1>2, <1>3, <1>4, DomainKeeps DEF Shaped

\* Nova has rebuilt the instance: the host it left is excused, or does not run it.
LEMMA EvacuatesKeeps ==
    ASSUME IInv, NEW i \in Instances, Evacuates(i)
    PROVE  IInv'
<1> USE DEF IInv
<1> DEFINE n == evacuating[i]
<1>1. /\ UNCHANGED <<pc, op, result, threads, forced, failing, power, past>>
      /\ n # None /\ evacuating' = [evacuating EXCEPT ![i] = None]
  BY DEF Evacuates, local, recovery, history, past
<1>2. /\ DOMAIN evacuating' = Instances /\ evacuating'[i] = None
      /\ \A j \in Instances : j # i => evacuating'[j] = evacuating[j]
  BY <1>1 DEF Shaped
<1>3. CASE power[n] = "up" /\ Domain(n, i, "on") /\ Placed(i, n)
  <2>1. /\ DOMAIN nova_host' = Instances /\ nova_host'[i] = n
        /\ \A j \in Instances : j # i => nova_host'[j] = nova_host[j]
    BY <1>3 DEF Placed, Shaped
  <2>2. /\ domain' \in [Hosts -> [Instances -> {"none", "off", "on"}]]
        /\ \A m \in Hosts, j \in Instances : m # n \/ j # i => domain'[m][j] = domain[m][j]
    BY <1>3, DomainMoves
  <2> HIDE DEF n
  <2>3. ASSUME NEW m \in Hosts, NEW j \in Instances, domain'[m][j] = "on"
        PROVE  \/ /\ domain[m][j] = "on"
                  /\ \/ nova_host'[j] = nova_host[j] \/ nova_host[j] # m \/ Excused(m)
               \/ nova_host'[j] = m /\ power[m] = "up" /\ evacuating'[j] = None
    <3>1. CASE j # i
      BY <2>1, <2>2, <2>3, <3>1
    <3>2. CASE j = i /\ m = n
      BY <1>2, <1>3, <2>1, <2>2, <3>2
    <3>3. CASE j = i /\ m # n
      BY <1>1, <2>2, <2>3, <3>3 DEF Leaves, n
    <3> QED
      BY <3>1, <3>2, <3>3
  <2> QED
    BY <1>1, <1>2, <2>1, <2>2, <2>3, DomainKeeps
<1>4. CASE UNCHANGED <<domain, nova_host>>
  BY <1>1, <1>2, <1>4, DomainKeeps DEF Shaped
<1> QED
  BY <1>3, <1>4 DEF Evacuates
----------------------------------------------------------------------------
\* Every step preserves the invariant.
LEMMA NextInvariant == IInv /\ [Next]_vars => IInv'
<1> SUFFICES ASSUME IInv, [Next]_vars PROVE IInv'
  OBVIOUS
<1>1. ASSUME NEW h \in Handlers, Step(h) PROVE IInv'
  BY <1>1, RecoverKeeps, HandleMoves, SelfKeeps DEF Step
<1>2. ASSUME NEW h \in Handlers, Request(h) PROVE IInv'
  BY <1>2, RequestKeeps
<1>3. ASSUME NEW n \in Hosts, Thread(n) PROVE IInv'
  BY <1>3, ThreadKeeps, CallsKeeps DEF Thread
<1>4. ASSUME World PROVE IInv'
  BY <1>4, BreaksKeeps, HealsKeeps, TimesOutKeeps, CrashesKeeps, EvacuatesKeeps, MigratesKeeps
     DEF World
<1>5. ASSUME UNCHANGED vars PROVE IInv'
  <2>1. UNCHANGED <<protectionVars, failoverVars>>
    BY <1>5 DEF vars
  <2>2. UNCHANGED <<nova_host, pc, op, result, power, domain, forced, evacuating, thread, caller,
                    failing, stuck, healed, overtaken>>
    BY <2>1 DEF protectionVars, local, failoverVars, cloud, threads, recovery, history
  <2>3. Shaped' /\ Recovers' /\ Waits'
    BY <2>2 DEF IInv, Shaped, Recovers, Waits
  <2>4. Reason'
    BY <2>2 DEF IInv, Reason, Doubtful, Unfinished
  <2>5. Halts' /\ Leaves' /\ RunsOnce' /\ ForcedDownBriefly'
    BY <2>2 DEF IInv, Halts, Leaves, RunsOnce, Excused, ForcedDownBriefly
  <2> QED
    BY <2>3, <2>4, <2>5 DEF IInv
<1> QED
  BY <1>1, <1>2, <1>3, <1>4, <1>5 DEF Next

\* The controller acts on what is so: while its thread has not given up on a recovery,
\* a node that is recovered has failed or come back by itself, it is recovered once,
\* and no instance runs where Nova is about to leave it (RecoveryManager.recover).
THEOREM Invariance == Spec => []IInv
<1> QED
  BY InitInvariant, NextInvariant, PTL DEF Spec

\* The compute service of a node is forced down only while an instance of it is being
\* evacuated, or after an evacuation raised (NovaClient.evacuate).
THEOREM ServiceForcedDownBriefly == Spec => []ForcedDownBriefly
<1>1. IInv => ForcedDownBriefly
  BY DEF IInv
<1> QED
  BY <1>1, Invariance, PTL

\* No instance runs on two hosts, but for a copy on a node that is cut off or came back
\* by itself, whose service an evacuation has left down, or whose thread called again
\* while it was recovered (RecoveryManager.recover, DetectionThread).
THEOREM InstanceRunsOnce == Spec => []RunsOnce
<1>1. IInv => RunsOnce
  BY DEF IInv
<1> QED
  BY <1>1, Invariance, PTL
----------------------------------------------------------------------------
\* Cluster's memory, and what the cloud and the detection threads keep.
Made == 1..made
Recorded ==
    /\ nova_host \in [Instances -> Hosts \cup {None}]
    /\ node_list \subseteq Hosts
    /\ made \in Nat /\ made <= MaxObjects
    /\ instance_list \in Seq(Made)
    /\ DOMAIN id = Objects /\ DOMAIN host = Objects
    /\ \A o \in Made : id[o] \in Instances /\ host[o] \in Hosts
    /\ watched \in [Hosts -> SUBSET Instances]

Outer ==
    /\ forced \subseteq Hosts /\ stuck \subseteq Hosts
    /\ healed \subseteq Hosts /\ overtaken \subseteq Hosts
    /\ evacuating \in [Instances -> Hosts \cup {None}]
    /\ thread \in [Hosts -> {"watch", "call", "await", "wait"}]
    /\ DOMAIN layers = Hosts
    /\ \A n \in Hosts : thread[n] = "call" => layers[n] # <<>>
    /\ faults \in 0..MaxFaults

\* The methods that may be at a place.
Updating == {"update_instance_host", "recover"}
ByPlace(h) ==
    /\ pc[h] = "remove node" => op[h] = "delete_node"
    /\ pc[h] \in {"locate", "append"} => op[h] = "add_instance"
    /\ pc[h] = "delete" => op[h] = "delete_instance"
    /\ pc[h] \in {"update", "compare"} => op[h] \in Updating
    /\ pc[h] = "update all" => op[h] = "update_all"
    /\ pc[h] = "refresh" => op[h] \in Updating \cup {"update_all"}
    /\ pc[h] = "send add" => op[h] \in Updating \cup {"update_all", "add_instance"}
    /\ pc[h] = "send remove" => op[h] \in Updating \cup {"update_all", "delete_instance"}
    /\ pc[h] \in {"evacuate", "force down", "request", "force up", "updates"} => op[h] = "recover"

\* What a method is about, and the object it works on.
About(h) ==
    /\ op[h] \in {"add_node", "delete_node"} => what[h] \in Hosts
    /\ op[h] \in {"add_instance", "delete_instance", "update_instance_host"} => what[h] \in Instances
    /\ pc[h] = "update" => what[h] \in Instances
    /\ pc[h] = "append" => final[h] \in Hosts
    /\ pc[h] \in {"compare", "refresh", "send add", "send remove"} =>
           object[h] \in Made /\ (op[h] # "update_all" => id[object[h]] = what[h])
    /\ pc[h] \in {"force down", "request", "force up"} => object[h] \in Made
    /\ pc[h] \in {"evacuate", "force down", "request", "force up"} =>
           target[h] \in Hosts \ {failing[h]}

Fits(h) ==
    /\ pc[h] \in AllPlaces
    /\ object[h] \in Made \cup {None}
    /\ original[h] \in Hosts \cup {None} /\ final[h] \in Hosts \cup {None}
    /\ index[h] \in Nat \ {0}
    /\ target[h] \in Hosts \cup {None}
    /\ todo[h] \subseteq Made /\ affected[h] \subseteq Made
    /\ result[h] \in {"none", "true", "false", "raised"}
    /\ op[h] = "recover" => failing[h] # None
    /\ ByPlace(h) /\ About(h)

Locals ==
    /\ pc = [h \in Handlers |-> pc[h]]
    /\ DOMAIN what = Handlers /\ DOMAIN object = Handlers
    /\ DOMAIN original = Handlers /\ DOMAIN final = Handlers /\ DOMAIN index = Handlers
    /\ DOMAIN target = Handlers /\ DOMAIN todo = Handlers /\ DOMAIN affected = Handlers

Typed == Recorded /\ Outer /\ Locals /\ \A h \in Handlers : Fits(h)

----------------------------------------------------------------------------
(***************************************************************************)
(* Types.                                                                  *)
(***************************************************************************)
USE MaxObjectsTyped, NoneIsNoMethod

\* What a step leaves to a handler.
Keeps(g) ==
    /\ op'[g] = op[g] /\ what'[g] = what[g] /\ object'[g] = object[g]
    /\ original'[g] = original[g] /\ final'[g] = final[g] /\ index'[g] = index[g]
    /\ failing'[g] = failing[g] /\ target'[g] = target[g]
    /\ todo'[g] = todo[g] /\ affected'[g] = affected[g] /\ result'[g] = result[g]
Same(g) == pc'[g] = pc[g] /\ Keeps(g)

\* Objects are only ever added.
Grows == made' \in Nat /\ made <= made' /\ \A o \in Made : id'[o] = id[o]

\* No object is added.
LEMMA NoneAdded ==
    ASSUME Typed, made' = made, id' = id
    PROVE  Grows
<1>1. made \in Nat
  BY DEF Typed, Recorded
<1> QED
  BY <1>1 DEF Grows

\* A handler goes somewhere.
LEMMA GoesSomewhere ==
    ASSUME Typed, NEW h \in Handlers, NEW place, Goto(h, place)
    PROVE  pc' = [g \in Handlers |-> pc'[g]]
<1>1. pc = [g \in Handlers |-> pc[g]]
  BY DEF Typed, Locals
<1> QED
  BY <1>1 DEF Goto

\* A handler that a step leaves alone still has what it needs.
LEMMA SameFits ==
    ASSUME Typed, NEW g \in Handlers, Same(g), Grows
    PROVE  Fits(g)'
<1>1. Fits(g) /\ made \in Nat
  BY DEF Typed, Recorded
<1>2. Made \subseteq Made'
  BY <1>1 DEF Made, Grows
<1>3. object[g] \in Made => id'[object[g]] = id[object[g]]
  BY DEF Grows
<1>4. ByPlace(g)'
  BY <1>1 DEF Fits, ByPlace, Same, Keeps
<1>5. About(g)'
  BY <1>1, <1>2, <1>3 DEF Fits, About, Same, Keeps
<1> QED
  BY <1>1, <1>2, <1>4, <1>5 DEF Fits, Same, Keeps

\* So only the handler at work has to be looked at.
LEMMA StepTypes ==
    ASSUME Typed, NEW h \in Handlers, Recorded', Outer', Locals', Grows,
           \A g \in Handlers : g # h => Same(g), Fits(h)'
    PROVE  Typed'
<1>1. ASSUME NEW g \in Handlers PROVE Fits(g)'
  BY <1>1, SameFits
<1> QED
  BY <1>1 DEF Typed

\* A step that leaves the memory alone.
LEMMA MemoryStays ==
    ASSUME Typed, UNCHANGED <<nova_host, memory, watched>>
    PROVE  Recorded' /\ Grows
<1>1. Recorded'
  BY DEF Typed, Recorded, memory, Made
<1>2. Grows
  BY NoneAdded DEF memory
<1> QED
  BY <1>1, <1>2

\* A step that leaves the cloud and the detection threads alone.
LEMMA OuterStays ==
    ASSUME Typed, UNCHANGED <<cloud, threads, faults, past>>
    PROVE  Outer'
  BY DEF Typed, Outer, cloud, threads, past

\* An object's handler goes to the place where its method is called from, or on.
LEMMA ReturnFits ==
    ASSUME Typed, NEW h \in Handlers, Return(h), IInv, Keeps(h), Grows
    PROVE  Fits(h)'
<1>1. Fits(h) /\ Made \subseteq Made' /\ DOMAIN pc = Handlers
  BY DEF Typed, Recorded, Made, Grows, IInv, Shaped
<1>2. pc'[h] = Caller(h) /\ Caller(h) \in AllPlaces
  BY <1>1 DEF Return, Goto, Caller, AllPlaces, Places
<1>3. ByPlace(h)'
  BY <1>1, <1>2 DEF Caller, ByPlace, Keeps, Fits
<1>4. About(h)'
  BY <1>1, <1>2 DEF Caller, About, Keeps, Fits
<1> QED
  BY <1>1, <1>2, <1>3, <1>4 DEF Fits, Keeps
----------------------------------------------------------------------------
\* The recovery's variables of each handler.
LEMMA HandlersStay ==
    ASSUME Typed, UNCHANGED recovery
    PROVE  /\ DOMAIN target' = Handlers /\ DOMAIN todo' = Handlers /\ DOMAIN affected' = Handlers
           /\ \A g \in Handlers :
                  /\ failing'[g] = failing[g] /\ target'[g] = target[g] /\ todo'[g] = todo[g]
                  /\ affected'[g] = affected[g] /\ result'[g] = result[g]
  BY DEF Typed, Locals, recovery

\* The methods about nodes change what is watched and the nodes, and go on.
LEMMA NodesType ==
    ASSUME IInv, Typed, NEW h \in Handlers, UNCHANGED failoverVars,
           add_node(h) \/ delete_node(h) \/ RemoveNode(h)
    PROVE  Typed'
<1>1. UNCHANGED recovery /\ UNCHANGED <<cloud, threads, faults, past>>
  BY DEF failoverVars, history, past
<1>2. /\ UNCHANGED <<nova_host, instance_list, made, id, host, op, what, object, original, final,
                     index>>
      /\ (Goto(h, "remove node") /\ op[h] = "delete_node") \/ Return(h)
      /\ what[h] \in Hosts
  BY DEF add_node, delete_node, RemoveNode, OnlyNodes, local, Typed, Fits, ByPlace, About, At
<1>3. Locals' /\ \A g \in Handlers : Keeps(g) /\ (g # h => Same(g))
  <2>1. Locals'
    BY <1>1, <1>2, GoesSomewhere, HandlersStay DEF Typed, Locals, Return
  <2>2. ASSUME NEW g \in Handlers PROVE Keeps(g)
    BY <1>1, <1>2, HandlersStay DEF Keeps
  <2>3. ASSUME NEW g \in Handlers, g # h PROVE pc'[g] = pc[g]
    BY <1>2, <2>3 DEF Return, Goto, IInv, Shaped
  <2> QED
    BY <2>1, <2>2, <2>3 DEF Same
<1>4. Grows
  BY <1>2, NoneAdded
<1>5. node_list' \subseteq Hosts /\ watched' \in [Hosts -> SUBSET Instances]
  BY <1>2 DEF add_node, delete_node, RemoveNode, Typed, Recorded
<1>6. Recorded'
  BY <1>2, <1>5 DEF Typed, Recorded, Made
<1>7. CASE Return(h)
  BY <1>1, <1>3, <1>4, <1>6, <1>7, ReturnFits, StepTypes, OuterStays
<1>8. CASE Goto(h, "remove node") /\ op[h] = "delete_node"
  <2>1. pc'[h] = "remove node" /\ Fits(h)
    BY <1>8 DEF Goto, IInv, Shaped, Typed
  <2>2. ByPlace(h)' /\ About(h)'
    BY <1>2, <1>3, <1>8, <2>1 DEF ByPlace, About, Keeps
  <2>3. Fits(h)'
    BY <1>2, <1>3, <2>1, <2>2 DEF Fits, Keeps, AllPlaces, Places, Made
  <2> QED
    BY <1>1, <1>3, <1>4, <1>6, <2>3, StepTypes, OuterStays
<1> QED
  BY <1>2, <1>7, <1>8
----------------------------------------------------------------------------
\* A set of positions has a smallest one.
LEMMA MinOfPositions ==
    ASSUME NEW n \in Nat, NEW S, S \subseteq 1..n, S # {}
    PROVE  Min(S) \in S
<1> DEFINE R == StrictSubsetOrdering(1..n)
           F == FiniteSubsetsOf(1..n)
           T == {S \cap 1..m : m \in S}
<1>1. IsWellFoundedOn(R, F)
  BY FS_StrictSubsetOrderingWellFounded
<1>2. T \subseteq F /\ T # {}
  <2>1. IsFiniteSet(1..n)
    BY FS_Interval
  <2>2. \A U \in SUBSET (1..n) : IsFiniteSet(U)
    BY <2>1, FS_Subset
  <2> QED
    BY <2>2 DEF FiniteSubsetsOf
<1>3. PICK U \in T : \A V \in T : ~(<<V, U>> \in R)
  <2> HIDE DEF R, F, T
  <2> QED
    BY <1>1, <1>2, WFMin
<1>4. PICK m \in S : U = S \cap 1..m
  OBVIOUS
<1>5. ASSUME NEW k \in S, k < m PROVE FALSE
  <2>1. S \cap 1..k \subseteq U /\ m \in U /\ m \notin S \cap 1..k
    BY <1>4, <1>5
  <2>2. <<S \cap 1..k, U>> \in R
    BY <1>4, <2>1 DEF StrictSubsetOrdering
  <2> QED
    BY <1>3, <2>2
<1>6. \A k \in S : m <= k
  BY <1>5
<1> QED
  BY <1>6 DEF Min

\* The elements of a list.
LEMMA Elements ==
    ASSUME NEW S, NEW list \in Seq(S)
    PROVE  /\ Len(list) \in Nat /\ DOMAIN list = 1..Len(list)
           /\ ToSet(list) = {list[k] : k \in 1..Len(list)} /\ ToSet(list) \subseteq S
           /\ Len(list) = 0 <=> list = <<>>
           /\ Len(list) = 0 <=> ToSet(list) = {}
<1>1. Len(list) \in Nat /\ DOMAIN list = 1..Len(list) /\ \A k \in 1..Len(list) : list[k] \in S
  BY LenProperties, ElementOfSeq
<1>2. ToSet(list) = {list[k] : k \in 1..Len(list)}
  BY <1>1 DEF ToSet
<1>3. Len(list) = 0 <=> list = <<>>
  BY EmptySeq, SeqEqual
<1>4. Len(list) # 0 => list[1] \in ToSet(list)
  BY <1>1, <1>2
<1> QED
  BY <1>1, <1>2, <1>3, <1>4

\* A list without one of its elements: the others keep their order.
LEMMA RemoveAtProperties ==
    ASSUME NEW S, NEW list \in Seq(S), NEW k \in 1..Len(list)
    PROVE  /\ RemoveAt(list, k) \in Seq(S)
           /\ Len(RemoveAt(list, k)) = Len(list) - 1
           /\ \A j \in 1..(Len(list) - 1) :
                 RemoveAt(list, k)[j] = list[IF j < k THEN j ELSE j + 1]
<1> DEFINE front == SubSeq(list, 1, k - 1)
           back == SubSeq(list, k + 1, Len(list))
<1>1. Len(list) \in Nat /\ \A j \in 1..Len(list) : list[j] \in S
  BY LenProperties, ElementOfSeq
<1>2. /\ front \in Seq(S) /\ Len(front) = k - 1
      /\ \A j \in 1..(k - 1) : front[j] = list[j]
  BY <1>1, SubSeqProperties
<1>3. /\ back \in Seq(S) /\ Len(back) = Len(list) - k
      /\ \A j \in 1..(Len(list) - k) : back[j] = list[k + j]
  BY <1>1, SubSeqProperties
<1>4. RemoveAt(list, k) = front \o back
  BY DEF RemoveAt
<1> HIDE DEF front, back
<1>5. /\ front \o back \in Seq(S) /\ Len(front \o back) = Len(front) + Len(back)
      /\ \A j \in 1..(Len(front) + Len(back)) :
             (front \o back)[j] = IF j <= Len(front) THEN front[j] ELSE back[j - Len(front)]
  BY <1>2, <1>3, ConcatProperties
<1>6. ASSUME NEW j \in 1..(Len(list) - 1)
      PROVE  RemoveAt(list, k)[j] = list[IF j < k THEN j ELSE j + 1]
  <2>1. CASE j < k
    BY <1>1, <1>2, <1>3, <1>4, <1>5, <2>1
  <2>2. CASE j >= k
    <3>1. j - Len(front) \in 1..(Len(list) - k) /\ k + (j - Len(front)) = j + 1 /\ j > Len(front)
      BY <1>1, <1>2, <2>2
    <3>2. j \in 1..(Len(front) + Len(back))
      BY <1>1, <1>2, <1>3
    <3>3. (front \o back)[j] = back[j - Len(front)]
      BY <1>5, <3>1, <3>2
    <3>4. back[j - Len(front)] = list[j + 1]
      BY <1>3, <3>1
    <3> QED
      BY <1>4, <2>2, <3>3, <3>4
  <2> QED
    BY <1>1, <2>1, <2>2
<1> QED
  BY <1>1, <1>2, <1>3, <1>4, <1>5, <1>6

\* The objects of the cluster.
LEMMA ListFacts ==
    ASSUME Typed
    PROVE  /\ Len(instance_list) \in Nat
           /\ \A k \in 1..Len(instance_list) :
                 instance_list[k] \in Made /\ instance_list[k] \in ToSet(instance_list)
           /\ ToSet(instance_list) = {instance_list[k] : k \in 1..Len(instance_list)}
           /\ ToSet(instance_list) \subseteq Made
<1>1. instance_list \in Seq(Made)
  BY DEF Typed, Recorded
<1>2. /\ Len(instance_list) \in Nat /\ \A k \in 1..Len(instance_list) : instance_list[k] \in Made
      /\ ToSet(instance_list) = {instance_list[k] : k \in 1..Len(instance_list)}
      /\ ToSet(instance_list) \subseteq Made
  BY <1>1, Elements, ElementOfSeq
<1> QED
  BY <1>2

\* A method that changes nothing but its own place and local variables.
LEMMA QuietTypes ==
    ASSUME IInv, Typed, NEW h \in Handlers, UNCHANGED failoverVars, Quietly,
           UNCHANGED <<instance_list, made, id, host>>,
           Locals', \A g \in Handlers : g # h => Same(g), Fits(h)'
    PROVE  Typed'
<1>1. Recorded' /\ Grows
  BY MemoryStays DEF Quietly, memory
<1>2. Outer'
  BY OuterStays DEF failoverVars, history, past
<1> QED
  BY <1>1, <1>2, StepTypes

\* What it leaves to the others.
LEMMA OthersSame ==
    ASSUME IInv, Typed, NEW h \in Handlers, UNCHANGED <<op, what, recovery>>,
           NEW place, Goto(h, place),
           DOMAIN object' = Handlers, DOMAIN original' = Handlers, DOMAIN final' = Handlers,
           DOMAIN index' = Handlers,
           \A g \in Handlers : g # h => /\ object'[g] = object[g] /\ original'[g] = original[g]
                                        /\ final'[g] = final[g] /\ index'[g] = index[g]
    PROVE  /\ Locals' /\ pc'[h] = place
           /\ \A g \in Handlers : g # h => Same(g)
           /\ op'[h] = op[h] /\ what'[h] = what[h]
           /\ failing'[h] = failing[h] /\ target'[h] = target[h]
           /\ todo'[h] = todo[h] /\ affected'[h] = affected[h] /\ result'[h] = result[h]
<1>1. Locals'
  BY GoesSomewhere, HandlersStay DEF Typed, Locals
<1>2. pc'[h] = place /\ \A g \in Handlers : g # h => pc'[g] = pc[g]
  BY DEF Goto, IInv, Shaped
<1> QED
  BY <1>1, <1>2, HandlersStay DEF Same, Keeps

\* What of it has no say in the place.
LEMMA PlaceFits ==
    ASSUME Typed, NEW h \in Handlers, Grows, pc'[h] \in AllPlaces,
           object'[h] \in Made' \cup {None},
           original'[h] \in Hosts \cup {None}, final'[h] \in Hosts \cup {None},
           index'[h] \in Nat \ {0},
           op'[h] = op[h], what'[h] = what[h],
           failing'[h] = failing[h], target'[h] = target[h],
           todo'[h] = todo[h], affected'[h] = affected[h], result'[h] = result[h],
           ByPlace(h)', About(h)'
    PROVE  Fits(h)'
<1>1. Fits(h) /\ Made \subseteq Made'
  BY DEF Typed, Recorded, Made, Grows
<1> QED
  BY <1>1 DEF Fits
----------------------------------------------------------------------------
\* A command is sent: whoever gets it watches an instance more or less.
LEMMA SendsType ==
    ASSUME IInv, Typed, NEW h \in Handlers, UNCHANGED failoverVars, SendAdd(h) \/ SendRemove(h)
    PROVE  Typed'
<1> DEFINE i == id[object[h]]
<1>1. /\ UNCHANGED <<nova_host, memory, local>> /\ UNCHANGED recovery
      /\ UNCHANGED <<cloud, threads, faults, past>>
      /\ Fits(h) /\ pc[h] \in {"send add", "send remove"}
  BY DEF SendAdd, SendRemove, failoverVars, history, past, At, Typed
<1>2. i \in Instances
  BY <1>1 DEF Fits, About, Typed, Recorded
<1> HIDE DEF i
<1>3. /\ \/ watched' = watched
         \/ \E n \in Hosts : watched' = [watched EXCEPT ![n] = @ \cup {i}]
         \/ \E n \in Hosts : watched' = [watched EXCEPT ![n] = @ \ {i}]
      /\ \/ Return(h)
         \/ Goto(h, "answer")
         \/ op[h] # "add_instance" /\ pc[h] = "send add" /\ Goto(h, "send remove")
         \/ op[h] = "delete_instance" /\ Goto(h, "delete")
         \/ op[h] = "update_all" /\ Goto(h, "update all")
  <2>1. CASE SendAdd(h)
    BY <1>1, <2>1 DEF SendAdd, Raises, At, i, Typed, Recorded
  <2>2. CASE SendRemove(h)
    BY <1>1, <2>2 DEF SendRemove, Raises, Return, At, i, Typed, Recorded
  <2> QED
    BY <2>1, <2>2
<1>4. watched' \in [Hosts -> SUBSET Instances]
  <2>1. watched \in [Hosts -> SUBSET Instances]
    BY DEF Typed, Recorded
  <2> QED
    BY <1>2, <1>3, <2>1
<1>5. Recorded' /\ Grows
  <2>1. Grows
    BY <1>1, NoneAdded DEF memory
  <2> QED
    BY <1>1, <1>4, <2>1 DEF Typed, Recorded, memory, Made
<1>6. PICK place : /\ Goto(h, place)
                   /\ \/ place = Caller(h)
                      \/ place = "answer"
                      \/ op[h] # "add_instance" /\ pc[h] = "send add" /\ place = "send remove"
                      \/ op[h] = "delete_instance" /\ place = "delete"
                      \/ op[h] = "update_all" /\ place = "update all"
  BY <1>3 DEF Return
<1>7. UNCHANGED <<op, what, object, original, final, index, id, made>>
  BY <1>1 DEF local, memory
<1>8. /\ Locals' /\ pc'[h] = place /\ \A g \in Handlers : g # h => Same(g)
      /\ op'[h] = op[h] /\ what'[h] = what[h]
      /\ failing'[h] = failing[h] /\ target'[h] = target[h]
      /\ todo'[h] = todo[h] /\ affected'[h] = affected[h] /\ result'[h] = result[h]
  BY <1>1, <1>6, <1>7, OthersSame DEF Typed, Locals
<1>9. ByPlace(h)' /\ About(h)'
  BY <1>1, <1>6, <1>7, <1>8 DEF Fits, ByPlace, About, Caller, Updating, Made
<1>10. pc'[h] \in AllPlaces
  BY <1>6, <1>8 DEF AllPlaces, Places, Caller
<1>11. Fits(h)'
  BY <1>1, <1>5, <1>7, <1>8, <1>9, <1>10, PlaceFits DEF Fits, Made
<1> QED
  BY <1>1, <1>5, <1>8, <1>11, StepTypes, OuterStays

\* The checks before an instance is added.
LEMMA AddChecksType ==
    ASSUME IInv, Typed, NEW h \in Handlers, UNCHANGED failoverVars,
           AddInstanceChecks(h) \/ _check_instance_host(h)
    PROVE  Typed'
<1>1. /\ Quietly /\ UNCHANGED <<instance_list, made, id, host, object, original, index, op, what>>
      /\ UNCHANGED recovery /\ Fits(h) /\ op[h] = "add_instance" /\ what[h] \in Instances
  BY DEF AddInstanceChecks, _check_instance_host, Quietly, failoverVars, At, Typed, Fits, ByPlace,
         About
<1>2. DOMAIN final' = Handlers /\ \A g \in Handlers : g # h => final'[g] = final[g]
  BY DEF AddInstanceChecks, _check_instance_host, Typed, Locals
<1>3. final'[h] \in Hosts \cup {None}
  BY <1>1 DEF AddInstanceChecks, _check_instance_host, Typed, Locals, Recorded, Fits
<1>4. PICK place : /\ Goto(h, place)
                   /\ place \in {"answer", "locate"} \/ (place = "append" /\ final'[h] \in Hosts)
  <2>1. CASE AddInstanceChecks(h)
    BY <1>1, <2>1 DEF AddInstanceChecks, Return, Caller
  <2>2. CASE _check_instance_host(h)
    BY <1>1, <2>2 DEF _check_instance_host, Return, Caller, Typed, Locals, Recorded
  <2> QED
    BY <2>1, <2>2
<1>5. Grows
  BY <1>1, NoneAdded
<1>6. /\ Locals' /\ pc'[h] = place /\ \A g \in Handlers : g # h => Same(g)
      /\ op'[h] = op[h] /\ what'[h] = what[h]
      /\ failing'[h] = failing[h] /\ target'[h] = target[h]
      /\ todo'[h] = todo[h] /\ affected'[h] = affected[h] /\ result'[h] = result[h]
  BY <1>1, <1>2, <1>4, OthersSame DEF Typed, Locals
<1>7. ByPlace(h)' /\ About(h)' /\ pc'[h] \in AllPlaces
  BY <1>1, <1>4, <1>6 DEF ByPlace, About, AllPlaces, Places
<1>8. Fits(h)'
  BY <1>1, <1>3, <1>5, <1>6, <1>7, PlaceFits DEF Fits, Made
<1> QED
  BY <1>1, <1>6, <1>8, QuietTypes

\* The new object is appended.
LEMMA AddType ==
    ASSUME IInv, Typed, NEW h \in Handlers, UNCHANGED failoverVars, add_instance(h)
    PROVE  Typed'
<1>1. /\ Quietly /\ UNCHANGED <<original, final, index, op, what>> /\ UNCHANGED recovery
      /\ UNCHANGED <<cloud, threads, faults, past>>
      /\ Fits(h) /\ op[h] = "add_instance" /\ what[h] \in Instances /\ final[h] \in Hosts
      /\ made < MaxObjects /\ made' = made + 1 /\ Goto(h, "send add")
      /\ id' = [id EXCEPT ![made + 1] = what[h]] /\ host' = [host EXCEPT ![made + 1] = final[h]]
      /\ instance_list' = Append(instance_list, made + 1)
      /\ object' = [object EXCEPT ![h] = made + 1]
  BY DEF add_instance, Quietly, failoverVars, history, past, At, Typed, Fits, ByPlace, About
<1>2. /\ made \in Nat /\ DOMAIN id = Objects /\ DOMAIN host = Objects
      /\ \A o \in Made : id[o] \in Instances /\ host[o] \in Hosts
      /\ instance_list \in Seq(Made)
  BY DEF Typed, Recorded
<1>3. /\ Made' = Made \cup {made + 1} /\ made + 1 \notin Made /\ made + 1 \in Objects
      /\ made' \in Nat /\ made <= made' /\ made' <= MaxObjects
  <2>1. made \in Nat /\ made < MaxObjects /\ made' = made + 1
    BY <1>1, <1>2
  <2> QED
    BY <2>1 DEF Made, Objects
<1>4. Grows
  <2>1. id' = [id EXCEPT ![made + 1] = what[h]]
    BY <1>1
  <2>2. \A o \in Made : id'[o] = id[o]
    BY <1>2, <1>3, <2>1
  <2> QED
    BY <1>3, <2>2 DEF Grows
<1>5. instance_list' \in Seq(Made')
  <2>1. instance_list \in Seq(Made')
    BY <1>2, <1>3, SeqMonotonic
  <2> QED
    BY <1>1, <1>3, <2>1, AppendProperties
<1>6. Recorded'
  <2>1. \A o \in Made' : id'[o] \in Instances /\ host'[o] \in Hosts
    <3>1. /\ id'[made + 1] = what[h] /\ \A o \in Made : id'[o] = id[o]
          /\ host'[made + 1] = final[h] /\ \A o \in Made : host'[o] = host[o]
      <4>1. /\ id' = [id EXCEPT ![made + 1] = what[h]] /\ host' = [host EXCEPT ![made + 1] = final[h]]
        BY <1>1, <1>2
      <4> QED
        BY <1>2, <1>3, <4>1
    <3> QED
      BY <1>1, <1>2, <1>3, <3>1
  <2>2. DOMAIN id' = Objects /\ DOMAIN host' = Objects
    BY <1>1, <1>2
  <2> QED
    BY <1>1, <1>3, <1>5, <2>1, <2>2 DEF Typed, Recorded, Quietly
<1>7. /\ DOMAIN object' = Handlers /\ object'[h] = made + 1
      /\ \A g \in Handlers : g # h => object'[g] = object[g]
  BY <1>1 DEF Typed, Locals
<1>8. /\ Locals' /\ pc'[h] = "send add" /\ \A g \in Handlers : g # h => Same(g)
      /\ op'[h] = op[h] /\ what'[h] = what[h]
      /\ failing'[h] = failing[h] /\ target'[h] = target[h]
      /\ todo'[h] = todo[h] /\ affected'[h] = affected[h] /\ result'[h] = result[h]
  BY <1>1, <1>7, OthersSame DEF Typed, Locals
<1>9. id'[made + 1] = what[h]
  BY <1>1, <1>2, <1>3
<1>10. ByPlace(h)' /\ About(h)' /\ pc'[h] \in AllPlaces
  BY <1>1, <1>3, <1>7, <1>8, <1>9 DEF ByPlace, About, AllPlaces, Places
<1>11. Fits(h)'
  BY <1>1, <1>3, <1>4, <1>7, <1>8, <1>10, PlaceFits DEF Fits
<1> QED
  BY <1>1, <1>4, <1>6, <1>8, <1>11, StepTypes, OuterStays

\* A loop begins.
LEMMA LoopsType ==
    ASSUME IInv, Typed, NEW h \in Handlers, UNCHANGED failoverVars,
           delete_instance(h) \/ update_instance_host(h) \/ update_instance(h)
    PROVE  Typed'
<1>1. /\ Quietly /\ UNCHANGED <<instance_list, made, id, host, object, original, final, op, what>>
      /\ UNCHANGED recovery /\ Fits(h) /\ index' = [index EXCEPT ![h] = 1]
  BY DEF delete_instance, update_instance_host, update_instance, Loops, Quietly, failoverVars, Typed
<1>2. PICK place : /\ Goto(h, place)
                   /\ \/ place = "delete" /\ op[h] = "delete_instance"
                      \/ place = "update" /\ op[h] = "update_instance_host"
                      \/ place = "update all" /\ op[h] = "update_all"
  BY DEF delete_instance, update_instance_host, update_instance, Loops
<1>3. DOMAIN index' = Handlers /\ index'[h] = 1 /\ \A g \in Handlers : g # h => index'[g] = index[g]
  BY <1>1 DEF Typed, Locals
<1>4. Grows
  BY <1>1, NoneAdded
<1>5. /\ Locals' /\ pc'[h] = place /\ \A g \in Handlers : g # h => Same(g)
      /\ op'[h] = op[h] /\ what'[h] = what[h]
      /\ failing'[h] = failing[h] /\ target'[h] = target[h]
      /\ todo'[h] = todo[h] /\ affected'[h] = affected[h] /\ result'[h] = result[h]
  BY <1>1, <1>2, <1>3, OthersSame DEF Typed, Locals
<1>6. ByPlace(h)' /\ About(h)' /\ pc'[h] \in AllPlaces
  BY <1>1, <1>2, <1>5 DEF ByPlace, About, Fits, AllPlaces, Places, Updating
<1>7. Fits(h)'
  BY <1>1, <1>3, <1>4, <1>5, <1>6, PlaceFits DEF Fits, Made
<1> QED
  BY <1>1, <1>5, <1>7, QuietTypes
\* A loop looks at its next element, or ends.
LEMMA TakesFacts ==
    ASSUME Typed, NEW h \in Handlers, NEW k \in 1..Len(instance_list), Takes(h, k)
    PROVE  /\ DOMAIN object' = Handlers /\ DOMAIN original' = Handlers /\ DOMAIN index' = Handlers
           /\ object'[h] = instance_list[k] /\ instance_list[k] \in Made
           /\ original'[h] = host[instance_list[k]] /\ original'[h] \in Hosts
           /\ index'[h] = k + 1 /\ index'[h] \in Nat \ {0}
           /\ \A g \in Handlers : g # h => /\ object'[g] = object[g] /\ original'[g] = original[g]
                                           /\ index'[g] = index[g]
<1>1. instance_list[k] \in Made /\ host[instance_list[k]] \in Hosts
  BY ListFacts DEF Typed, Recorded
<1>2. k + 1 \in Nat \ {0}
  BY ListFacts
<1> QED
  BY <1>1, <1>2 DEF Takes, Typed, Locals

\* The elements ahead of a loop are in the list.
LEMMA AheadFacts ==
    ASSUME Typed, NEW h \in Handlers, NEW i, Ahead(h, i) # {}
    PROVE  Min(Ahead(h, i)) \in 1..Len(instance_list) /\ id[instance_list[Min(Ahead(h, i))]] = i
<1>1. index[h] \in Nat \ {0} /\ Len(instance_list) \in Nat
  BY ListFacts DEF Typed, Fits
<1>2. Ahead(h, i) \subseteq 1..Len(instance_list)
  BY <1>1 DEF Ahead
<1>3. Min(Ahead(h, i)) \in Ahead(h, i)
  BY <1>1, <1>2, MinOfPositions
<1> QED
  BY <1>2, <1>3 DEF Ahead

\* An element is deleted from the list.
LEMMA DeleteType ==
    ASSUME IInv, Typed, NEW h \in Handlers, UNCHANGED failoverVars, DeleteNext(h)
    PROVE  Typed'
<1> DEFINE k == Min(Ahead(h, what[h]))
<1>1. /\ Quietly /\ UNCHANGED <<made, id, host, final, op, what>> /\ UNCHANGED recovery
      /\ UNCHANGED <<cloud, threads, faults, past>>
      /\ Fits(h) /\ op[h] = "delete_instance" /\ what[h] \in Instances
  BY DEF DeleteNext, Quietly, failoverVars, history, past, At, Typed, Fits, ByPlace, About
<1>2. Grows
  BY <1>1, NoneAdded
<1>3. CASE Ahead(h, what[h]) = {}
  <2>1. Goto(h, "answer") /\ UNCHANGED <<instance_list, object, original, index>>
    BY <1>1, <1>3 DEF DeleteNext, NoneLeft, Return, Caller
  <2>2. /\ Locals' /\ pc'[h] = "answer" /\ \A g \in Handlers : g # h => Same(g)
        /\ op'[h] = op[h] /\ what'[h] = what[h]
        /\ failing'[h] = failing[h] /\ target'[h] = target[h]
        /\ todo'[h] = todo[h] /\ affected'[h] = affected[h] /\ result'[h] = result[h]
    BY <1>1, <2>1, OthersSame DEF Typed, Locals
  <2>3. ByPlace(h)' /\ About(h)' /\ pc'[h] \in AllPlaces
    BY <1>1, <2>1, <2>2 DEF ByPlace, About, AllPlaces, Places
  <2>4. Fits(h)'
    BY <1>1, <1>2, <2>1, <2>2, <2>3, PlaceFits DEF Fits, Made
  <2> QED
    BY <1>1, <2>1, <2>2, <2>4, QuietTypes
<1>4. CASE Ahead(h, what[h]) # {}
  <2>1. k \in 1..Len(instance_list) /\ id[instance_list[k]] = what[h]
    BY <1>4, AheadFacts
  <2>2. Takes(h, k) /\ instance_list' = RemoveAt(instance_list, k) /\ Goto(h, "send remove")
    BY <1>4 DEF DeleteNext
  <2> HIDE DEF k
  <2>3. instance_list' \in Seq(Made)
    BY <2>1, <2>2, RemoveAtProperties DEF Typed, Recorded
  <2>4. Recorded'
    BY <1>1, <2>3 DEF Typed, Recorded, Made, Quietly
  <2>5. /\ DOMAIN object' = Handlers /\ DOMAIN original' = Handlers /\ DOMAIN index' = Handlers
        /\ object'[h] = instance_list[k] /\ instance_list[k] \in Made
        /\ original'[h] \in Hosts /\ index'[h] \in Nat \ {0}
        /\ \A g \in Handlers : g # h => /\ object'[g] = object[g] /\ original'[g] = original[g]
                                        /\ index'[g] = index[g]
    BY <2>1, <2>2, TakesFacts
  <2>6. /\ Locals' /\ pc'[h] = "send remove" /\ \A g \in Handlers : g # h => Same(g)
        /\ op'[h] = op[h] /\ what'[h] = what[h]
        /\ failing'[h] = failing[h] /\ target'[h] = target[h]
        /\ todo'[h] = todo[h] /\ affected'[h] = affected[h] /\ result'[h] = result[h]
    BY <1>1, <2>2, <2>5, OthersSame DEF Typed, Locals
  <2>7. ByPlace(h)' /\ About(h)' /\ pc'[h] \in AllPlaces
    BY <1>1, <2>1, <2>5, <2>6 DEF ByPlace, About, AllPlaces, Places, Made
  <2>8. Fits(h)'
    BY <1>1, <1>2, <2>5, <2>6, <2>7, PlaceFits DEF Fits, Made
  <2> QED
    BY <1>1, <1>2, <2>4, <2>6, <2>8, StepTypes, OuterStays
<1> QED
  BY <1>3, <1>4

\* An element is taken to be compared or refreshed.
LEMMA UpdatesType ==
    ASSUME IInv, Typed, NEW h \in Handlers, UNCHANGED failoverVars, UpdateNext(h) \/ UpdateAllNext(h)
    PROVE  Typed'
<1>1. /\ Quietly /\ UNCHANGED <<instance_list, made, id, host, final, op, what>>
      /\ UNCHANGED recovery /\ Fits(h)
  BY DEF UpdateNext, UpdateAllNext, Quietly, failoverVars, Typed
<1>2. Grows
  BY <1>1, NoneAdded
<1>3. CASE NoneLeft(h)
  <2>1. Goto(h, Caller(h)) /\ UNCHANGED <<object, original, index>>
    BY <1>3 DEF NoneLeft, Return
  <2>2. Locals' /\ \A g \in Handlers : g # h => Same(g)
    BY <1>1, <2>1, OthersSame DEF Typed, Locals
  <2>3. Keeps(h)
    BY <1>1, <2>1, HandlersStay DEF Keeps
  <2>4. Fits(h)'
    BY <1>2, <1>3, <2>3, ReturnFits DEF NoneLeft
  <2> QED
    BY <1>1, <2>2, <2>4, QuietTypes
<1>4. ASSUME NEW k \in 1..Len(instance_list), Takes(h, k), NEW place, Goto(h, place),
             \/ place = "compare" /\ op[h] \in Updating /\ id[instance_list[k]] = what[h]
             \/ place = "refresh" /\ op[h] = "update_all"
      PROVE  Typed'
  <2>1. /\ DOMAIN object' = Handlers /\ DOMAIN original' = Handlers /\ DOMAIN index' = Handlers
        /\ object'[h] = instance_list[k] /\ instance_list[k] \in Made
        /\ original'[h] \in Hosts /\ index'[h] \in Nat \ {0}
        /\ \A g \in Handlers : g # h => /\ object'[g] = object[g] /\ original'[g] = original[g]
                                        /\ index'[g] = index[g]
    BY <1>4, TakesFacts
  <2>2. /\ Locals' /\ pc'[h] = place /\ \A g \in Handlers : g # h => Same(g)
        /\ op'[h] = op[h] /\ what'[h] = what[h]
        /\ failing'[h] = failing[h] /\ target'[h] = target[h]
        /\ todo'[h] = todo[h] /\ affected'[h] = affected[h] /\ result'[h] = result[h]
    BY <1>1, <1>4, <2>1, OthersSame DEF Typed, Locals
  <2>3. ByPlace(h)' /\ About(h)' /\ pc'[h] \in AllPlaces
    BY <1>1, <1>4, <2>1, <2>2 DEF ByPlace, About, Fits, AllPlaces, Places, Made, Updating
  <2>4. Fits(h)'
    BY <1>1, <1>2, <2>1, <2>2, <2>3, PlaceFits DEF Fits, Made
  <2> QED
    BY <1>1, <2>2, <2>4, QuietTypes
<1>5. CASE UpdateNext(h)
  <2>1. op[h] \in Updating
    BY <1>1, <1>5 DEF UpdateNext, At, Fits, ByPlace
  <2> QED
    BY <1>3, <1>4, <1>5, <2>1, AheadFacts DEF UpdateNext
<1>6. CASE UpdateAllNext(h)
  <2>1. op[h] = "update_all" /\ index[h] \in Nat \ {0}
    BY <1>1, <1>6 DEF UpdateAllNext, At, Fits, ByPlace
  <2>2. Len(instance_list) \in Nat
    BY ListFacts
  <2>3. index[h] > Len(instance_list) \/ index[h] \in 1..Len(instance_list)
    BY <2>1, <2>2
  <2> QED
    BY <1>3, <1>4, <1>6, <2>1, <2>3 DEF UpdateAllNext
<1> QED
  BY <1>5, <1>6

\* Nova is asked for the host.
LEMMA CompareType ==
    ASSUME IInv, Typed, NEW h \in Handlers, UNCHANGED failoverVars, Compare(h)
    PROVE  Typed'
<1>1. /\ Quietly /\ UNCHANGED <<instance_list, made, id, host, object, original, index, op, what>>
      /\ UNCHANGED recovery /\ Fits(h) /\ pc[h] = "compare" /\ op[h] \in Updating
      /\ object[h] \in Made /\ id[object[h]] = what[h]
  BY DEF Compare, Quietly, failoverVars, At, Typed, Fits, ByPlace, About, Updating
<1>2. what[h] \in Instances
  BY <1>1 DEF Typed, Recorded
<1>3. Grows
  BY <1>1, NoneAdded
<1>4. /\ DOMAIN final' = Handlers /\ final'[h] \in Hosts \cup {None}
      /\ \A g \in Handlers : g # h => final'[g] = final[g]
  BY <1>1, <1>2 DEF Compare, Typed, Locals, Recorded, Fits
<1>5. PICK place : Goto(h, place) /\ place \in {"update", "refresh", Caller(h)}
  BY DEF Compare, Return
<1>6. /\ Locals' /\ pc'[h] = place /\ \A g \in Handlers : g # h => Same(g)
      /\ op'[h] = op[h] /\ what'[h] = what[h]
      /\ failing'[h] = failing[h] /\ target'[h] = target[h]
      /\ todo'[h] = todo[h] /\ affected'[h] = affected[h] /\ result'[h] = result[h]
  BY <1>1, <1>4, <1>5, OthersSame DEF Typed, Locals
<1>7. ByPlace(h)' /\ About(h)' /\ pc'[h] \in AllPlaces
  BY <1>1, <1>2, <1>5, <1>6 DEF ByPlace, About, Fits, AllPlaces, Places, Made, Updating, Caller
<1>8. Fits(h)'
  BY <1>1, <1>3, <1>4, <1>6, <1>7, PlaceFits DEF Fits, Made
<1> QED
  BY <1>1, <1>6, <1>8, QuietTypes

\* The record is refreshed.
LEMMA RefreshType ==
    ASSUME IInv, Typed, NEW h \in Handlers, UNCHANGED failoverVars, Refresh(h)
    PROVE  Typed'
<1>1. /\ Quietly /\ UNCHANGED <<instance_list, made, id, object, original, index, op, what>>
      /\ UNCHANGED recovery /\ UNCHANGED <<cloud, threads, faults, past>>
      /\ Fits(h) /\ pc[h] = "refresh" /\ object[h] \in Made
      /\ op[h] \in Updating \cup {"update_all"} /\ (op[h] # "update_all" => id[object[h]] = what[h])
  BY DEF Refresh, Quietly, failoverVars, history, past, At, Typed, Fits, ByPlace, About
<1>2. id[object[h]] \in Instances /\ nova_host[id[object[h]]] \in Hosts \cup {None}
  BY <1>1 DEF Typed, Recorded
<1>3. Grows
  BY <1>1, NoneAdded
<1>4. /\ DOMAIN final' = Handlers /\ final'[h] \in Hosts \cup {None}
      /\ \A g \in Handlers : g # h => final'[g] = final[g]
  BY <1>1, <1>2 DEF Refresh, Typed, Locals, Fits
<1>5. DOMAIN host' = Objects /\ \A o \in Made : host'[o] \in Hosts
  <2>1. DOMAIN host = Objects /\ \A o \in Made : host[o] \in Hosts
    BY DEF Typed, Recorded
  <2>2. CASE host' = host
    BY <2>1, <2>2
  <2>3. ASSUME NEW n \in Hosts, host' = [host EXCEPT ![object[h]] = n]
        PROVE  <1>5!1 /\ <1>5!2
    BY <2>1, <2>3
  <2> QED
    BY <1>2, <2>2, <2>3 DEF Refresh
<1>6. Recorded'
  BY <1>1, <1>5 DEF Typed, Recorded, Quietly, Made
<1>7. PICK place : /\ Goto(h, place)
                   /\ \/ place \in {"send add", Caller(h)}
                      \/ op[h] = "update_all" /\ place = "update all"
  BY DEF Refresh, Return
<1>8. /\ Locals' /\ pc'[h] = place /\ \A g \in Handlers : g # h => Same(g)
      /\ op'[h] = op[h] /\ what'[h] = what[h]
      /\ failing'[h] = failing[h] /\ target'[h] = target[h]
      /\ todo'[h] = todo[h] /\ affected'[h] = affected[h] /\ result'[h] = result[h]
  BY <1>1, <1>4, <1>7, OthersSame DEF Typed, Locals
<1>9. ByPlace(h)' /\ About(h)' /\ pc'[h] \in AllPlaces
  BY <1>1, <1>7, <1>8 DEF ByPlace, About, Fits, AllPlaces, Places, Made, Updating, Caller
<1>10. Fits(h)'
  BY <1>1, <1>3, <1>4, <1>8, <1>9, PlaceFits DEF Fits, Made
<1> QED
  BY <1>1, <1>3, <1>6, <1>8, <1>10, StepTypes, OuterStays

\* A handler that has answered is as it was in the beginning.
LEMMA ForgetFits ==
    ASSUME IInv, Typed, NEW h \in Handlers, Forget(h), Grows,
           failing'[h] \in Hosts \cup {None}, target'[h] \in Hosts \cup {None},
           todo'[h] \subseteq Made', affected'[h] \subseteq Made',
           result'[h] \in {"none", "true", "false", "raised"}
    PROVE  Fits(h)'
<1>1. /\ pc'[h] = "idle" /\ op'[h] = None /\ what'[h] = None /\ object'[h] = None
      /\ original'[h] = None /\ final'[h] = None /\ index'[h] = 1
  BY DEF Forget, Goto, IInv, Shaped, Typed, Locals
<1>2. ByPlace(h)' /\ About(h)' /\ pc'[h] \in AllPlaces
  BY <1>1 DEF ByPlace, About, AllPlaces, Places
<1> QED
  BY <1>1, <1>2 DEF Fits

\* What its answer leaves to the others.
LEMMA ForgetOthers ==
    ASSUME IInv, Typed, NEW h \in Handlers, Forget(h)
    PROVE  /\ pc' = [g \in Handlers |-> pc'[g]]
           /\ DOMAIN what' = Handlers /\ DOMAIN object' = Handlers
           /\ DOMAIN original' = Handlers /\ DOMAIN final' = Handlers /\ DOMAIN index' = Handlers
           /\ \A g \in Handlers : g # h =>
                  /\ pc'[g] = pc[g] /\ op'[g] = op[g] /\ what'[g] = what[g]
                  /\ object'[g] = object[g] /\ original'[g] = original[g]
                  /\ final'[g] = final[g] /\ index'[g] = index[g]
<1>1. pc' = [g \in Handlers |-> pc'[g]]
  BY GoesSomewhere DEF Forget
<1> QED
  BY <1>1 DEF Forget, Goto, IInv, Shaped, Typed, Locals

\* A request is answered.
LEMMA AnswerType ==
    ASSUME IInv, Typed, NEW h \in Handlers, UNCHANGED failoverVars, Answer(h)
    PROVE  Typed'
<1>1. /\ Forget(h) /\ UNCHANGED <<nova_host, memory, watched>> /\ UNCHANGED recovery
      /\ UNCHANGED <<cloud, threads, faults, past>>
  BY DEF Answer, failoverVars, history, past
<1>2. Recorded' /\ Grows
  BY <1>1, MemoryStays
<1>3. Locals' /\ \A g \in Handlers : g # h => Same(g)
  BY <1>1, ForgetOthers, HandlersStay DEF Locals, Same, Keeps
<1>4. Fits(h) /\ failing[h] \in Hosts \cup {None}
  BY DEF Typed, IInv, Shaped
<1>5. Fits(h)'
  BY <1>1, <1>2, <1>4, ForgetFits, HandlersStay DEF Fits, Made, memory
<1> QED
  BY <1>1, <1>2, <1>3, <1>5, StepTypes, OuterStays

\* Every method of Cluster.
LEMMA HandleType ==
    ASSUME IInv, Typed, NEW h \in Handlers, Handle(h), UNCHANGED failoverVars
    PROVE  Typed'
  BY NodesType, SendsType, AddChecksType, AddType, LoopsType, DeleteType, UpdatesType, CompareType,
     RefreshType, AnswerType DEF Handle
----------------------------------------------------------------------------
\* What a recovery leaves to the others, and to the memory.
LEMMA RecoveringSame ==
    ASSUME IInv, Typed, NEW h \in Handlers, Recovering, NEW place, Goto(h, place),
           UNCHANGED <<nova_host, memory, watched>>,
           DOMAIN object' = Handlers, DOMAIN target' = Handlers,
           DOMAIN todo' = Handlers, DOMAIN affected' = Handlers,
           \A g \in Handlers : g # h => /\ object'[g] = object[g] /\ target'[g] = target[g]
                                        /\ todo'[g] = todo[g] /\ affected'[g] = affected[g]
                                        /\ result'[g] = result[g]
    PROVE  /\ Recorded' /\ Grows /\ Made' = Made
           /\ Locals' /\ \A g \in Handlers : g # h => Same(g)
           /\ pc'[h] = place /\ op'[h] = op[h] /\ what'[h] = what[h] /\ failing'[h] = failing[h]
           /\ original'[h] = original[h] /\ final'[h] = final[h] /\ index'[h] = index[h]
<1>1. Recorded' /\ Grows /\ Made' = Made
  BY MemoryStays DEF memory, Made
<1>2. pc'[h] = place /\ \A g \in Handlers : g # h => pc'[g] = pc[g]
  BY DEF Goto, IInv, Shaped
<1>3. UNCHANGED <<op, what, failing, original, final, index>>
  BY DEF Recovering
<1>4. Locals'
  BY <1>3, GoesSomewhere DEF Typed, Locals
<1> QED
  BY <1>1, <1>2, <1>3, <1>4 DEF Same, Keeps


\* A handler of a recovery that goes on.
LEMMA RecoveringType ==
    ASSUME IInv, Typed, NEW h \in Handlers, Recovering, NEW place, Goto(h, place), Outer',
           DOMAIN object' = Handlers, DOMAIN target' = Handlers,
           DOMAIN todo' = Handlers, DOMAIN affected' = Handlers,
           \A g \in Handlers : g # h => /\ object'[g] = object[g] /\ target'[g] = target[g]
                                        /\ todo'[g] = todo[g] /\ affected'[g] = affected[g]
                                        /\ result'[g] = result[g],
           object'[h] \in Made \cup {None}, target'[h] \in Hosts \cup {None},
           todo'[h] \subseteq Made, affected'[h] \subseteq Made,
           result'[h] \in {"none", "true", "false", "raised"},
           \/ place \in {"answer", "boot", "check", "hard reboot", "validate"}
           \/ place = "updates" /\ op[h] = "recover"
           \/ place = "evacuate" /\ op[h] = "recover" /\ target'[h] \in Hosts \ {failing[h]}
           \/ /\ place \in {"force down", "request", "force up"} /\ op[h] = "recover"
              /\ target'[h] \in Hosts \ {failing[h]} /\ object'[h] \in Made
    PROVE  Typed'
<1>1. UNCHANGED <<nova_host, memory, watched>>
  BY DEF Recovering
<1>2. /\ Recorded' /\ Grows /\ Made' = Made
      /\ Locals' /\ \A g \in Handlers : g # h => Same(g)
      /\ pc'[h] = place /\ op'[h] = op[h] /\ what'[h] = what[h] /\ failing'[h] = failing[h]
      /\ original'[h] = original[h] /\ final'[h] = final[h] /\ index'[h] = index[h]
  BY <1>1, RecoveringSame
<1>3. Fits(h)
  BY DEF Typed
<1>4. ByPlace(h)' /\ About(h)' /\ pc'[h] \in AllPlaces
  BY <1>2, <1>3 DEF ByPlace, About, Fits, AllPlaces, Places
<1>5. Fits(h)'
  BY <1>2, <1>3, <1>4 DEF Fits
<1> QED
  BY <1>2, <1>5, StepTypes

\* The instances whose record names a host.
LEMMA HostedFacts ==
    ASSUME Typed, NEW n
    PROVE  HostedBy(n) \subseteq Made
  BY ListFacts DEF HostedBy

\* The cloud's part of the state.
LEMMA OuterMoves ==
    ASSUME Typed, UNCHANGED threads, faults' = faults \/ Fault,
           forced' \subseteq Hosts, stuck' \subseteq Hosts, healed' \subseteq Hosts,
           overtaken' \subseteq Hosts, evacuating' \in [Instances -> Hosts \cup {None}]
    PROVE  Outer'
<1>1. faults \in 0..MaxFaults
  BY DEF Typed, Outer
<1>2. faults' \in 0..MaxFaults
  BY <1>1, MaxFaultsTyped DEF Fault
<1> QED
  BY <1>2 DEF Typed, Outer, threads

\* The instances are chosen, and the host they go to.
LEMMA RecoverVmType ==
    ASSUME IInv, Typed, NEW h \in Handlers, _recover_vm(h)
    PROVE  Typed'
<1>1. /\ Recovering /\ NoFault /\ UNCHANGED <<cloud, object, past>> /\ UNCHANGED threads
      /\ Fits(h) /\ op[h] = "recover"
  BY DEF _recover_vm, Recovering, Typed
<1>2. Outer'
  BY <1>1, OuterStays DEF NoFault
<1>3. CASE Returns(h, "raised") /\ UNCHANGED <<target, affected, todo>>
  <2>1. /\ result'[h] = "raised" /\ \A g \in Handlers : g # h => result'[g] = result[g]
        /\ Goto(h, "answer")
    BY <1>3 DEF Returns, IInv, Shaped
  <2> QED
    BY <1>1, <1>2, <1>3, <2>1, RecoveringType DEF Typed, Locals, Fits
<1>4. CASE Goto(h, "boot") /\ UNCHANGED <<target, affected, todo, result>>
  BY <1>1, <1>2, <1>4, RecoveringType DEF Typed, Locals, Fits
<1>5. ASSUME NEW t \in Hosts \ {failing[h]}, target' = [target EXCEPT ![h] = t],
             affected' = [affected EXCEPT ![h] = HostedBy(failing[h])],
             todo' = [todo EXCEPT ![h] = HostedBy(failing[h])],
             Goto(h, "evacuate"), result' = result
      PROVE  Typed'
  <2>1. /\ DOMAIN target' = Handlers /\ DOMAIN todo' = Handlers /\ DOMAIN affected' = Handlers
        /\ target'[h] = t /\ todo'[h] = HostedBy(failing[h]) /\ affected'[h] = HostedBy(failing[h])
        /\ \A g \in Handlers : g # h => /\ target'[g] = target[g] /\ todo'[g] = todo[g]
                                        /\ affected'[g] = affected[g]
    BY <1>5 DEF Typed, Locals
  <2>2. HostedBy(failing[h]) \subseteq Made
    BY HostedFacts
  <2>3. /\ DOMAIN object' = Handlers /\ object'[h] \in Made \cup {None}
        /\ \A g \in Handlers : object'[g] = object[g] /\ result'[g] = result[g]
        /\ result'[h] \in {"none", "true", "false", "raised"}
    BY <1>1, <1>5 DEF Typed, Locals, Fits
  <2> QED
    BY <1>1, <1>2, <1>5, <2>1, <2>2, <2>3, RecoveringType
<1>6. node_list \subseteq Hosts
  BY DEF Typed, Recorded
<1> QED
  BY <1>3, <1>4, <1>5, <1>6 DEF _recover_vm

\* What the target has of the next instance is destroyed.
LEMMA UndefineType ==
    ASSUME IInv, Typed, NEW h \in Handlers, undefine_instance(h)
    PROVE  Typed'
<1>1. /\ Recovering /\ UNCHANGED <<target, affected, result>> /\ Goto(h, "force down")
      /\ UNCHANGED threads /\ Fits(h) /\ pc[h] = "evacuate"
  BY DEF undefine_instance, Recovering, Typed, At
<1>2. PICK o \in todo[h] : /\ object' = [object EXCEPT ![h] = o]
                           /\ todo' = [todo EXCEPT ![h] = @ \ {o}]
  BY DEF undefine_instance
<1>3. Outer'
  BY <1>1, OuterMoves DEF undefine_instance, NoFault, past, Typed, Outer
<1>4. o \in Made /\ op[h] = "recover" /\ target[h] \in Hosts \ {failing[h]}
  BY <1>1, <1>2 DEF Fits, ByPlace, About
<1> QED
  BY <1>1, <1>2, <1>3, <1>4, RecoveringType DEF Typed, Locals, Fits

\* The service goes down, Nova is asked, the service goes up.
LEMMA EvacuationType ==
    ASSUME IInv, Typed, NEW h \in Handlers,
           _nova_service_down(h) \/ evacuate(h) \/ _nova_service_up(h)
    PROVE  Typed'
<1>1. /\ Recovering /\ UNCHANGED <<object, target, affected, todo, result>> /\ UNCHANGED threads
      /\ Fits(h) /\ pc[h] \in {"force down", "request", "force up"}
      /\ UNCHANGED <<healed, overtaken>>
  BY DEF _nova_service_down, evacuate, _nova_service_up, Recovering, Typed, At, past
<1>2. /\ op[h] = "recover" /\ target[h] \in Hosts \ {failing[h]} /\ object[h] \in Made
      /\ failing[h] \in Hosts
  BY <1>1 DEF Fits, ByPlace, About, IInv, Shaped
<1>3. /\ forced' \subseteq Hosts /\ stuck' \subseteq Hosts /\ (faults' = faults \/ Fault)
      /\ evacuating' \in [Instances -> Hosts \cup {None}]
  BY <1>2 DEF _nova_service_down, evacuate, _nova_service_up, NoFault, past, Typed, Outer
<1>4. Outer'
  BY <1>1, <1>3, OuterMoves DEF Typed, Outer
<1>5. PICK place \in {"evacuate", "request", "force up"} : Goto(h, place)
  BY DEF _nova_service_down, evacuate, _nova_service_up
<1> QED
  BY <1>1, <1>2, <1>4, <1>5, RecoveringType DEF Typed, Locals, Fits

\* The updates begin.
LEMMA UpdatesBeginType ==
    ASSUME IInv, Typed, NEW h \in Handlers, UpdatesBegin(h)
    PROVE  Typed'
<1>1. /\ Recovering /\ UNCHANGED <<object, target, affected, result>> /\ Goto(h, "updates")
      /\ UNCHANGED <<cloud, threads, faults, past>> /\ Fits(h) /\ op[h] = "recover"
      /\ todo' = [todo EXCEPT ![h] = affected[h]]
  BY DEF UpdatesBegin, Recovering, NoFault, At, Typed, Fits, ByPlace
<1>2. Outer'
  BY <1>1, OuterStays
<1> QED
  BY <1>1, <1>2, RecoveringType DEF Typed, Locals, Fits

\* The next instance is updated.
LEMMA UpdatesNextType ==
    ASSUME IInv, Typed, NEW h \in Handlers, UpdatesNext(h)
    PROVE  Typed'
<1>1. /\ UNCHANGED <<nova_host, memory, watched>> /\ UNCHANGED <<cloud, threads, faults, past>>
      /\ UNCHANGED <<op, object, original, final, failing, target, affected, result>>
      /\ Fits(h) /\ op[h] = "recover"
  BY DEF UpdatesNext, NoFault, At, Typed, Fits, ByPlace
<1>2. Outer' /\ Recorded' /\ Grows /\ Made' = Made
  BY <1>1, OuterStays, MemoryStays DEF memory, Made
<1>3. /\ DOMAIN what' = Handlers /\ DOMAIN index' = Handlers /\ DOMAIN todo' = Handlers
      /\ \A g \in Handlers : g # h => /\ what'[g] = what[g] /\ index'[g] = index[g]
                                      /\ todo'[g] = todo[g] /\ pc'[g] = pc[g]
  BY DEF UpdatesNext, Goto, Typed, Locals, IInv, Shaped
<1>4. Locals' /\ \A g \in Handlers : g # h => Same(g)
  <2>1. pc' = [g \in Handlers |-> pc'[g]]
    BY GoesSomewhere DEF UpdatesNext
  <2> QED
    BY <1>1, <1>3, <2>1 DEF Typed, Locals, Same, Keeps
<1>5. /\ index'[h] \in Nat \ {0} /\ todo'[h] \subseteq Made
      /\ pc'[h] = "boot" \/ (pc'[h] = "update" /\ what'[h] \in Instances)
  <2>1. CASE todo[h] = {}
    BY <1>1, <2>1 DEF UpdatesNext, Goto, IInv, Shaped, Fits
  <2>2. CASE todo[h] # {}
    <3>1. PICK o \in todo[h] : /\ todo' = [todo EXCEPT ![h] = @ \ {o}]
                               /\ what' = [what EXCEPT ![h] = id[o]]
                               /\ index' = [index EXCEPT ![h] = 1] /\ Goto(h, "update")
      BY <2>2 DEF UpdatesNext
    <3>2. id[o] \in Instances
      BY <1>1, <3>1 DEF Fits, Typed, Recorded
    <3> QED
      BY <1>1, <3>1, <3>2 DEF Goto, IInv, Shaped, Fits, Typed, Locals
  <2> QED
    BY <2>1, <2>2
<1>6. ByPlace(h)' /\ About(h)' /\ pc'[h] \in AllPlaces
  BY <1>1, <1>5 DEF ByPlace, About, AllPlaces, Places, Updating
<1>7. Fits(h)'
  BY <1>1, <1>2, <1>5, <1>6 DEF Fits
<1> QED
  BY <1>2, <1>4, <1>7, StepTypes

\* The node is restarted and looked for.
LEMMA RestartType ==
    ASSUME IInv, Typed, NEW h \in Handlers, Boot(h) \/ _check_node_boot_success(h)
    PROVE  Typed'
<1>1. /\ Recovering /\ UNCHANGED <<object, target, affected, todo>> /\ UNCHANGED threads
      /\ Fits(h) /\ UNCHANGED <<forced, evacuating, stuck, overtaken>>
  BY DEF Boot, _check_node_boot_success, Recovering, Typed, cloud, past
<1>2. healed' \subseteq Hosts /\ (faults' = faults \/ Fault)
  BY DEF Boot, _check_node_boot_success, NoFault, past, Typed, Outer
<1>3. Outer'
  BY <1>1, <1>2, OuterMoves DEF Typed, Outer
<1>4. PICK place \in {"answer", "check"} : Goto(h, place)
  BY DEF Boot, _check_node_boot_success, Returns
<1>5. /\ result'[h] \in {"none", "true", "false", "raised"}
      /\ \A g \in Handlers : g # h => result'[g] = result[g]
  BY <1>1 DEF Boot, _check_node_boot_success, Returns, IInv, Shaped, Fits
<1> QED
  BY <1>1, <1>3, <1>4, <1>5, RecoveringType DEF Typed, Locals, Fits

\* The recovery of an instance.
LEMMA InstanceType ==
    ASSUME IInv, Typed, NEW h \in Handlers,
           get_protected_instance(h) \/ hard_reboot_instance(h) \/ ValidateInstance(h)
    PROVE  Typed'
<1>1. /\ Recovering /\ UNCHANGED <<object, target, affected, todo>>
      /\ UNCHANGED <<threads, faults, past, forced, evacuating>> /\ Fits(h)
  BY DEF get_protected_instance, hard_reboot_instance, ValidateInstance, Recovering, NoFault, Typed,
         cloud
<1>2. Outer'
  BY <1>1 DEF Typed, Outer, past, threads
<1>3. PICK place \in {"answer", "hard reboot", "validate"} : Goto(h, place)
  BY DEF get_protected_instance, hard_reboot_instance, ValidateInstance, Returns
<1>4. /\ result'[h] \in {"none", "true", "false", "raised"}
      /\ \A g \in Handlers : g # h => result'[g] = result[g]
  BY <1>1 DEF get_protected_instance, hard_reboot_instance, ValidateInstance, Returns, IInv, Shaped,
              Fits
<1> QED
  BY <1>1, <1>2, <1>3, <1>4, RecoveringType DEF Typed, Locals, Fits

\* A recovery is answered.
LEMMA RecoveryAnswerType ==
    ASSUME IInv, Typed, NEW h \in Handlers, AnswerRecovery(h) \/ AnswerInstance(h)
    PROVE  Typed'
<1>1. /\ Forget(h) /\ UNCHANGED <<nova_host, memory, watched>> /\ UNCHANGED <<cloud, faults, past>>
      /\ Fits(h) /\ failing[h] \in Hosts \cup {None} /\ caller[h] \in Hosts \cup {None}
      /\ layers' = layers
  BY DEF AnswerRecovery, AnswerInstance, history, past, threads, Typed, IInv, Shaped
<1>2. Recorded' /\ Grows /\ Made' = Made
  BY <1>1, MemoryStays DEF memory, Made
<1>3. /\ DOMAIN target' = Handlers /\ DOMAIN todo' = Handlers /\ DOMAIN affected' = Handlers
      /\ \A g \in Handlers : g # h =>
             /\ failing'[g] = failing[g] /\ target'[g] = target[g] /\ todo'[g] = todo[g]
             /\ affected'[g] = affected[g] /\ result'[g] = result[g]
      /\ failing'[h] \in Hosts \cup {None} /\ target'[h] \in Hosts \cup {None}
      /\ todo'[h] \subseteq Made /\ affected'[h] \subseteq Made
      /\ result'[h] \in {"none", "true", "false", "raised"}
  BY <1>1 DEF AnswerRecovery, AnswerInstance, Typed, Locals, IInv, Shaped, Fits
<1>4. Locals' /\ \A g \in Handlers : g # h => Same(g)
  BY <1>1, <1>3, ForgetOthers DEF Locals, Same, Keeps
<1>5. Fits(h)'
  BY <1>1, <1>2, <1>3, ForgetFits
<1>6. Outer'
  <2>1. /\ thread' \in [Hosts -> {"watch", "call", "await", "wait"}]
        /\ \A n \in Hosts : thread'[n] = "call" => layers[n] # <<>>
    <3>1. /\ thread \in [Hosts -> {"watch", "call", "await", "wait"}]
          /\ \A n \in Hosts : thread[n] = "call" => layers[n] # <<>>
      BY DEF Typed, Outer
    <3>2. CASE thread' = thread
      BY <3>1, <3>2
    <3>3. ASSUME NEW n \in Hosts, Fails(n) PROVE <2>1
      BY <3>1, <3>3 DEF Fails
    <3>4. ASSUME NEW n \in Hosts, thread' = [thread EXCEPT ![n] = "watch"] PROVE <2>1
      BY <3>1, <3>4
    <3> QED
      BY <1>1, <3>2, <3>3, <3>4 DEF AnswerRecovery, AnswerInstance, threads
  <2> QED
    BY <1>1, <2>1 DEF Typed, Outer, cloud, past
<1> QED
  BY <1>2, <1>4, <1>5, <1>6, StepTypes

\* Every step of a recovery.
LEMMA RecoverType ==
    ASSUME IInv, Typed, NEW h \in Handlers, Recover(h)
    PROVE  Typed'
  BY RecoverVmType, UndefineType, EvacuationType, UpdatesBeginType, UpdatesNextType, RestartType,
     InstanceType, RecoveryAnswerType DEF Recover
----------------------------------------------------------------------------
\* A handler begins.
LEMMA BeginsType ==
    ASSUME IInv, Typed, NEW h \in Handlers, NEW kind, NEW about, Begins(h, kind, about),
           UNCHANGED <<target, affected, todo, result>>, Outer',
           \A g \in Handlers : g # h => failing'[g] = failing[g],
           failing'[h] = failing[h] \/ failing'[h] # None,
           kind = "recover" => failing'[h] # None,
           kind \in {"add_node", "delete_node"} => about \in Hosts,
           kind \in {"add_instance", "delete_instance", "update_instance_host"} => about \in Instances
    PROVE  Typed'
<1>1. /\ UNCHANGED <<nova_host, memory, watched>> /\ UNCHANGED <<object, original, final, index>>
      /\ pc' = [pc EXCEPT ![h] = "begin"]
      /\ op' = [op EXCEPT ![h] = kind] /\ what' = [what EXCEPT ![h] = about]
  BY DEF Begins
<1>2. Recorded' /\ Grows /\ Made' = Made
  BY <1>1, MemoryStays DEF memory, Made
<1>3. /\ pc'[h] = "begin" /\ op'[h] = kind /\ what'[h] = about /\ DOMAIN what' = Handlers
      /\ \A g \in Handlers : g # h => pc'[g] = pc[g] /\ op'[g] = op[g] /\ what'[g] = what[g]
  BY <1>1 DEF IInv, Shaped, Typed, Locals
<1>4. Locals' /\ \A g \in Handlers : g # h => Same(g)
  <2>1. pc' = [g \in Handlers |-> pc'[g]]
    BY <1>1, GoesSomewhere DEF Goto
  <2> QED
    BY <1>1, <1>3, <2>1 DEF Typed, Locals, Same, Keeps
<1>5. ByPlace(h)' /\ About(h)' /\ pc'[h] \in AllPlaces
  BY <1>3 DEF ByPlace, About, AllPlaces, Places
<1>6. Fits(h)
  BY DEF Typed
<1>7. Fits(h)'
  BY <1>1, <1>2, <1>3, <1>5, <1>6 DEF Fits
<1> QED
  BY <1>2, <1>4, <1>7, StepTypes

\* A request.
LEMMA RequestType ==
    ASSUME IInv, Typed, NEW h \in Handlers, Request(h)
    PROVE  Typed'
<1>1. UNCHANGED recovery /\ UNCHANGED <<cloud, threads, faults, past>>
  BY DEF Request, RecoverInstance
<1>2. Outer' /\ UNCHANGED <<failing, target, affected, todo, result>>
  BY <1>1, OuterStays DEF recovery
<1>3. ASSUME NEW kind \in Kinds, NEW about, Receive(h, kind, about) PROVE Typed'
  BY <1>2, <1>3, BeginsType DEF Receive, Kinds
<1>4. ASSUME NEW i \in Instances, RecoverInstance(h, i) PROVE Typed'
  BY <1>2, <1>4, BeginsType DEF RecoverInstance
<1> QED
  BY <1>3, <1>4 DEF Request

\* A call of a detection thread.
LEMMA CallsType ==
    ASSUME IInv, Typed, NEW n \in Hosts, NEW h \in Handlers, Calls(n, h)
    PROVE  Typed'
<1>1. /\ Begins(h, "recover", None) /\ UNCHANGED <<cloud, target, affected, todo, result, faults, past>>
      /\ failing' = [failing EXCEPT ![h] = n]
      /\ thread' = [thread EXCEPT ![n] = "await"] /\ layers' = [layers EXCEPT ![n] = Tail(@)]
  BY DEF Calls
<1>2. failing'[h] = n /\ \A g \in Handlers : g # h => failing'[g] = failing[g]
  BY <1>1 DEF IInv, Shaped
<1>3. Outer'
  <2>1. /\ thread' \in [Hosts -> {"watch", "call", "await", "wait"}] /\ DOMAIN layers' = Hosts
        /\ \A m \in Hosts : thread'[m] = "call" => layers'[m] # <<>>
    BY <1>1 DEF Typed, Outer
  <2> QED
    BY <1>1, <2>1 DEF Typed, Outer, cloud, past
<1>4. failing'[h] # None /\ UNCHANGED <<target, affected, todo, result>>
  BY <1>1, <1>2, NoneIsNoHost
<1> QED
  BY <1>1, <1>2, <1>3, <1>4, BeginsType

\* What happens without the handlers.
LEMMA WorldTypes ==
    ASSUME Typed, UNCHANGED <<memory, watched, pc, local, recovery>>,
           nova_host' \in [Instances -> Hosts \cup {None}], Outer'
    PROVE  Typed'
<1>1. Recorded' /\ Grows
  <2>1. Grows
    BY NoneAdded DEF memory
  <2> QED
    BY <2>1 DEF Typed, Recorded, memory, Made
<1>2. Locals' /\ \A g \in Handlers : Same(g)
  BY HandlersStay DEF Typed, Locals, local, Same, Keeps
<1>3. \A g \in Handlers : Fits(g)'
  BY <1>1, <1>2, SameFits
<1> QED
  BY <1>1, <1>2, <1>3 DEF Typed

\* The hosts, Nova and the detection threads.
LEMMA WorldType ==
    ASSUME IInv, Typed, World \/ \E n \in Hosts : Detects(n) \/ Rechecks(n)
    PROVE  Typed'
<1> DEFINE Untouched == UNCHANGED <<memory, watched, pc, local, recovery>>
           Named == nova_host' \in [Instances -> Hosts \cup {None}]
<1>1. nova_host \in [Instances -> Hosts \cup {None}]
  BY DEF Typed, Recorded
<1>2. ASSUME NEW n \in Hosts, Breaks(n) \/ Heals(n) \/ TimesOut(n) PROVE Typed'
  <2>1. /\ Untouched /\ nova_host' = nova_host /\ UNCHANGED <<forced, evacuating, stuck, layers>>
        /\ faults' = faults \/ Fault
    BY <1>2 DEF Breaks, Heals, TimesOut, protectionVars, cloud, threads
  <2>2. healed' \subseteq Hosts /\ overtaken' \subseteq Hosts
    BY <1>2 DEF Breaks, Heals, TimesOut, Typed, Outer
  <2>3. /\ thread' \in [Hosts -> {"watch", "call", "await", "wait"}]
        /\ \A m \in Hosts : thread'[m] = "call" => layers[m] # <<>>
    <3>1. /\ thread \in [Hosts -> {"watch", "call", "await", "wait"}]
          /\ \A m \in Hosts : thread[m] = "call" => layers[m] # <<>>
      BY DEF Typed, Outer
    <3>2. thread' = thread \/ Fails(n)
      BY <1>2 DEF Breaks, Heals, TimesOut, threads
    <3> QED
      BY <3>1, <3>2 DEF Fails
  <2>4. Outer'
    <3>1. faults' \in 0..MaxFaults
      <4>1. faults \in 0..MaxFaults
        BY DEF Typed, Outer
      <4> QED
        BY <2>1, <4>1, MaxFaultsTyped DEF Fault
    <3> QED
      BY <2>1, <2>2, <2>3, <3>1 DEF Typed, Outer
  <2> QED
    BY <1>1, <2>1, <2>4, WorldTypes
<1>3. ASSUME NEW i \in Instances, Crashes(i) PROVE Typed'
  <2>1. /\ Untouched /\ nova_host' = nova_host /\ UNCHANGED <<forced, evacuating, past, threads>> /\ Fault
    BY <1>3 DEF Crashes, protectionVars
  <2>2. Outer'
    BY <2>1, OuterMoves DEF Typed, Outer, past
  <2> QED
    BY <1>1, <2>1, <2>2, WorldTypes
<1>4. ASSUME NEW i \in Instances, Evacuates(i) PROVE Typed'
  <2>1. /\ Untouched /\ UNCHANGED <<forced, past, threads, faults>>
        /\ evacuating[i] # None /\ evacuating' = [evacuating EXCEPT ![i] = None]
        /\ nova_host' = nova_host \/ nova_host' = [nova_host EXCEPT ![i] = evacuating[i]]
    BY <1>4 DEF Evacuates, Placed, history, past
  <2>2. Outer'
    BY <2>1, OuterMoves DEF Typed, Outer, past
  <2>3. evacuating[i] \in Hosts \cup {None}
    BY DEF Typed, Outer
  <2> QED
    BY <1>1, <2>1, <2>2, <2>3, WorldTypes
<1>5. ASSUME NEW i \in Instances, NEW n \in Hosts \cup {None}, Migrates(i, n) PROVE Typed'
  <2>1. /\ Untouched /\ UNCHANGED <<forced, evacuating, past, threads, faults>>
        /\ nova_host' = [nova_host EXCEPT ![i] = n]
    BY <1>5 DEF Migrates, Moves, Placed
  <2>2. Outer'
    BY <2>1, OuterMoves DEF Typed, Outer, past
  <2> QED
    BY <1>1, <2>1, <2>2, WorldTypes
<1>6. ASSUME NEW n \in Hosts, Detects(n) \/ Rechecks(n) PROVE Typed'
  <2>1. /\ Untouched /\ nova_host' = nova_host /\ UNCHANGED <<cloud, faults, past>>
    BY <1>6 DEF Detects, Rechecks, protectionVars, history, past
  <2>2. /\ thread' \in [Hosts -> {"watch", "call", "await", "wait"}] /\ DOMAIN layers' = Hosts
        /\ \A m \in Hosts : thread'[m] = "call" => layers'[m] # <<>>
    <3>1. /\ thread \in [Hosts -> {"watch", "call", "await", "wait"}] /\ DOMAIN layers = Hosts
          /\ \A m \in Hosts : thread[m] = "call" => layers[m] # <<>>
      BY DEF Typed, Outer
    <3>2. CASE Detects(n)
      <4>1. PICK list \in Recoveries : /\ thread' = [thread EXCEPT ![n] = "call"]
                                       /\ layers' = [layers EXCEPT ![n] = list]
        BY <3>2 DEF Detects
      <4>2. list # <<>>
        BY DEF Recoveries
      <4> QED
        BY <3>1, <4>1, <4>2
    <3>3. CASE Rechecks(n)
      BY <3>1, <3>3 DEF Rechecks
    <3> QED
      BY <1>6, <3>2, <3>3
  <2>3. Outer'
    BY <2>1, <2>2 DEF Typed, Outer, cloud, past
  <2> QED
    BY <1>1, <2>1, <2>3, WorldTypes
<1> QED
  BY <1>2, <1>3, <1>4, <1>5, <1>6 DEF World

\* A function on an interval is a sequence of its elements.
LEMMA IsSequence ==
    ASSUME NEW S, NEW set \in SUBSET S, NEW n \in Nat, NEW list \in [1..n -> set]
    PROVE  list \in Seq(S)
<1>1. list \in [1..n -> S]
  OBVIOUS
<1> QED
  BY <1>1, SeqDef

\* The initial states.
LEMMA InitTypes == Init => Typed
<1> SUFFICES ASSUME Init PROVE Typed
  OBVIOUS
<1> USE DEF Init, ProtectionInit
<1>1. made \in Nat /\ made <= MaxObjects /\ made = Cardinality(Instances)
  BY InstancesFit, FS_CardinalityType
<1>2. PICK set \in SUBSET (1..Cardinality(Instances)) : instance_list \in SetToSeqs(set)
  OBVIOUS
<1>3. instance_list \in Seq(Made)
  <2>1. set \subseteq Made
    BY <1>1 DEF Made
  <2>2. IsFiniteSet(set)
    <3>1. IsFiniteSet(1..made)
      BY <1>1, FS_Interval
    <3> QED
      BY <2>1, <3>1, FS_Subset DEF Made
  <2>3. Cardinality(set) \in Nat
    BY <2>2, FS_CardinalityType
  <2>4. instance_list \in [1..Cardinality(set) -> set]
    BY <1>2 DEF SetToSeqs
  <2> QED
    BY <2>1, <2>3, <2>4, IsSequence
<1>4. PICK name \in SetToSeqs(Instances) :
          id = [o \in Objects |-> IF o <= made THEN name[o] ELSE None]
  OBVIOUS
<1>5. /\ DOMAIN id = Objects /\ DOMAIN host = Objects
      /\ \A o \in Made : id[o] \in Instances /\ host[o] \in Hosts
  <2>1. name \in [Made -> Instances]
    BY <1>1, <1>4 DEF SetToSeqs, Made
  <2>2. \A o \in Made : o \in Objects /\ o <= made
    BY <1>1 DEF Made, Objects
  <2>3. \A o \in Made : id[o] \in Instances
    BY <1>4, <2>1, <2>2
  <2>4. DOMAIN id = Objects
    BY <1>4
  <2>5. \A i \in Instances : nova_host[i] \in Hosts
    OBVIOUS
  <2>6. DOMAIN host = Objects
    OBVIOUS
  <2>7. \A o \in Made : host[o] = nova_host[id[o]]
    BY <2>2
  <2> HIDE DEF Init, ProtectionInit
  <2> QED
    BY <2>3, <2>4, <2>5, <2>6, <2>7
<1>6. ToSet(instance_list) \subseteq Made
  <2>1. /\ Len(instance_list) \in Nat /\ DOMAIN instance_list = 1..Len(instance_list)
        /\ \A k \in 1..Len(instance_list) : instance_list[k] \in Made
    BY <1>3, LenProperties, ElementOfSeq
  <2> QED
    BY <2>1 DEF ToSet
<1>7. watched \in [Hosts -> SUBSET Instances]
  <2>1. watched = [n \in Hosts |-> {id[o] : o \in HostedBy(n)}]
    OBVIOUS
  <2> HIDE DEF Init, ProtectionInit
  <2>2. \A n : \A o \in HostedBy(n) : id[o] \in Instances
    BY <1>5, <1>6 DEF HostedBy
  <2>3. \A n : {id[o] : o \in HostedBy(n)} \in SUBSET Instances
    BY <2>2
  <2> QED
    BY <2>1, <2>3
<1>8. Recorded
  <2>1. nova_host \in [Instances -> Hosts \cup {None}] /\ node_list \subseteq Hosts
    OBVIOUS
  <2> HIDE DEF Init, ProtectionInit
  <2> QED
    BY <1>1, <1>3, <1>5, <1>7, <2>1 DEF Recorded
<1>9. Outer
  BY MaxFaultsTyped DEF Outer
<1>10. Locals
  BY DEF Locals
<1>11. ASSUME NEW h \in Handlers PROVE Fits(h)
  BY DEF Fits, ByPlace, About, AllPlaces, Places
<1> QED
  BY <1>8, <1>9, <1>10, <1>11 DEF Typed

\* Every step preserves the types.
LEMMA NextTypes == IInv /\ Typed /\ [Next]_vars => Typed'
<1> SUFFICES ASSUME IInv, Typed, [Next]_vars PROVE Typed'
  OBVIOUS
<1>1. ASSUME NEW h \in Handlers, Step(h) PROVE Typed'
  BY <1>1, RecoverType, HandleType DEF Step
<1>2. ASSUME NEW h \in Handlers, Request(h) PROVE Typed'
  BY <1>2, RequestType
<1>3. ASSUME NEW n \in Hosts, Thread(n) PROVE Typed'
  BY <1>3, CallsType, WorldType DEF Thread
<1>4. ASSUME World PROVE Typed'
  BY <1>4, WorldType
<1>5. ASSUME UNCHANGED vars PROVE Typed'
  <2>1. UNCHANGED <<protectionVars, failoverVars>>
    BY <1>5 DEF vars
  <2>2. /\ UNCHANGED <<memory, watched, pc, local, recovery, nova_host>>
        /\ UNCHANGED <<cloud, threads, faults, past>>
    BY <2>1 DEF protectionVars, failoverVars, history, past
  <2> QED
    BY <2>2, OuterStays, WorldTypes DEF Typed, Recorded
<1> QED
  BY <1>1, <1>2, <1>3, <1>4, <1>5 DEF Next

\* In every state.
LEMMA TypeInvariance == Spec => [](IInv /\ Typed)
<1>1. Init => IInv /\ Typed
  BY InitInvariant, InitTypes
<1>2. IInv /\ Typed /\ [Next]_vars => (IInv /\ Typed)'
  BY NextInvariant, NextTypes
<1> QED
  BY <1>1, <1>2, PTL DEF Spec

\* Every variable has its type, and every handler has what it needs where it needs it:
\* a method of Cluster its instance and its object, a recovery its target, whatever
\* requests meet, clients give up on and hosts fail (Cluster, RecoveryManager).
THEOREM FailoverTyped == Spec => []TypeOK
<1>1. IInv /\ Typed => TypeOK
  <2> SUFFICES ASSUME IInv, Typed PROVE TypeOK
    OBVIOUS
  <2>1. made \in 0..MaxObjects /\ Made \subseteq Objects
    BY DEF Typed, Recorded, Made, Objects
  <2>2. instance_list \in Seq(Objects)
    BY <2>1, SeqMonotonic DEF Typed, Recorded
  <2>3. \A o \in ToSet(instance_list) : id[o] \in Instances /\ host[o] \in Hosts
    BY ListFacts DEF Typed, Recorded
  <2>4. ASSUME NEW h \in Handlers PROVE HandlerTypeOK(h)
    BY <2>1 DEF Typed, Fits, ByPlace, About, HandlerTypeOK
  <2>5. ProtectionTypeOK
    <3>1. /\ nova_host \in [Instances -> Hosts \cup {None}] /\ node_list \subseteq Hosts
          /\ watched \in [Hosts -> SUBSET Instances]
      BY DEF Typed, Recorded
    <3> QED
      BY <2>1, <2>2, <2>3, <2>4, <3>1 DEF ProtectionTypeOK
  <2>6. pc \in [Handlers -> AllPlaces]
    BY DEF Typed, Fits, Locals
  <2>7. ASSUME NEW h \in Handlers
        PROVE  /\ caller[h] \in Hosts \cup {None} /\ failing[h] \in Hosts \cup {None}
               /\ target[h] \in Hosts \cup {None}
               /\ todo[h] \subseteq Objects /\ affected[h] \subseteq Objects
               /\ result[h] \in {"none", "true", "false", "raised"}
               /\ op[h] = "recover" <=> failing[h] # None
               /\ pc[h] \in {"evacuate", "force down", "request", "force up"} => target[h] \in Hosts
               /\ pc[h] \in {"force down", "request", "force up"} => object[h] \in Objects
    BY <2>1 DEF Typed, Fits, About, IInv, Shaped, Recovers
  <2>8. /\ power \in [Hosts -> {"up", "cut", "off"}]
        /\ domain \in [Hosts -> [Instances -> {"none", "off", "on"}]]
    BY DEF IInv, Shaped
  <2> QED
    BY <2>5, <2>6, <2>7, <2>8 DEF TypeOK, Typed, Outer
<1> QED
  BY <1>1, TypeInvariance, PTL
----------------------------------------------------------------------------
(***************************************************************************)
(* The instances that are watched.                                         *)
(***************************************************************************)
\* At most one handler works on an instance that nothing has met.
OneWorks ==
    \A i \in Instances : ~disturbed[i] =>
        \A g, h \in Handlers : i \in Working(g) /\ i \in Working(h) => g = h

\* No element is twice in the list, and no instance that nothing has met.
Once ==
    /\ \A j, k \in 1..Len(instance_list) : instance_list[j] = instance_list[k] => j = k
    /\ \A o, p \in ToSet(instance_list) : ~disturbed[id[o]] /\ id[o] = id[p] => o = p

OnlyOn(i, nodes) == \A n \in Hosts : i \in watched[n] <=> n \in nodes

\* The commands that the handler has still to send about the instance of its object.
Sending == {"send add", "send remove"}
Sent(h) ==
    LET o == object[h]
        i == id[o]
    IN  /\ pc[h] \in {"compare", "refresh", "send add"}
              \/ (pc[h] = "send remove" /\ op[h] # "delete_instance") =>
               o \in ToSet(instance_list)
        /\ pc[h] \in {"compare", "refresh"} => host[o] = original[h]
        /\ pc[h] = "refresh" /\ op[h] # "update_all" =>
               final[h] # original[h] /\ nova_host[i] = final[h]
        /\ pc[h] = "send add" => host[o] = final[h]
        /\ pc[h] = "send add" /\ op[h] = "add_instance" => OnlyOn(i, {})
        /\ pc[h] = "send add" /\ op[h] # "add_instance" =>
               final[h] # original[h] /\ original[h] \in node_list /\ OnlyOn(i, {original[h]})
        /\ pc[h] = "send remove" /\ op[h] = "delete_instance" =>
               ~Protected(i) /\ original[h] \in node_list /\ OnlyOn(i, {original[h]})
        /\ pc[h] = "send remove" /\ op[h] # "delete_instance" =>
               /\ host[o] = final[h] /\ final[h] # original[h]
               /\ {original[h], final[h]} \subseteq node_list
               /\ OnlyOn(i, {original[h], final[h]})

Commands(h) ==
    pc[h] \in {"compare", "refresh"} \cup Sending /\ ~disturbed[id[object[h]]] => Sent(h)

\* What a handler has checked still holds.
Checked(h) ==
    /\ pc[h] \in {"locate", "append"} /\ ~disturbed[what[h]] => ~Protected(what[h])
    /\ pc[h] = "remove node" => \A o \in HostedBy(what[h]) : disturbed[id[o]]

\* An instance is watched where its record says.
Settled(i) ==
    \A n \in Hosts :
        /\ i \in watched[n] <=> \E o \in HostedBy(n) : id[o] = i
        /\ i \in watched[n] => n \in node_list

Unsent(i) == \A h \in Handlers : pc[h] \in Sending => id[object[h]] # i
Watched(i) == ~disturbed[i] /\ Unsent(i) => Settled(i)

Watching ==
    /\ DOMAIN disturbed = Instances
    /\ OneWorks /\ Once
    /\ \A h \in Handlers : Commands(h) /\ Checked(h)
    /\ \A i \in Instances : Watched(i)

\* What a step leaves to the other handlers, of the instances.
Stays(g) ==
    /\ pc'[g] = pc[g] /\ op'[g] = op[g] /\ what'[g] = what[g]
    /\ object'[g] = object[g] /\ original'[g] = original[g] /\ final'[g] = final[g]

\* What a step leaves alone of an instance it is not about.
Rest(i) ==
    /\ node_list' = node_list
    /\ \A n \in Hosts : i \in watched'[n] <=> i \in watched[n]
    /\ \A o \in Made' : id'[o] = i =>
           /\ o \in ToSet(instance_list') <=> o \in ToSet(instance_list)
           /\ o \in ToSet(instance_list) => host'[o] = host[o]

\* Instances are only ever disturbed.
Disturbs == DOMAIN disturbed' = Instances /\ \A i \in Instances : disturbed[i] => disturbed'[i]

\* Protection in terms of the set of objects, before a step.
LEMMA ProtectedBy ==
    ASSUME Typed, NEW i
    PROVE  Protected(i) <=> \E o \in ToSet(instance_list) : id[o] = i
  BY ListFacts DEF Protected

\* And after it.
LEMMA ProtectedNext ==
    ASSUME Typed', NEW i
    PROVE  /\ ToSet(instance_list') \subseteq Made'
           /\ Protected(i)' <=> \E o \in ToSet(instance_list') : id'[o] = i
<1>1. instance_list' \in Seq(Made')
  BY DEF Typed, Recorded
<1>2. /\ ToSet(instance_list') = {instance_list'[k] : k \in 1..Len(instance_list')}
      /\ ToSet(instance_list') \subseteq Made'
  BY <1>1, Elements
<1> QED
  BY <1>2 DEF Protected

\* A handler works on the instance of its object.
LEMMA WorksOnObject ==
    ASSUME Typed, NEW h \in Handlers, pc[h] \in {"compare", "refresh"} \cup Sending
    PROVE  /\ object[h] \in Made /\ id[object[h]] \in Instances /\ id[object[h]] \in Working(h)
           /\ pc[h] \in {"locate", "append"} => FALSE
<1>1. Fits(h) /\ \A o \in Made : id[o] \in Instances
  BY DEF Typed, Recorded
<1>2. object[h] \in Made /\ (op[h] # "update_all" => id[object[h]] = what[h])
  BY <1>1 DEF Fits, About, Sending
<1> QED
  BY <1>1, <1>2 DEF Working, Scope, Sending

\* What a step leaves alone of an instance is still watched where it is recorded.
LEMMA RestSettled ==
    ASSUME Typed, Typed', Grows, NEW i, Rest(i), Settled(i)
    PROVE  Settled(i)'
<1>1. \A o \in Made : o \in Made' /\ id'[o] = id[o]
  BY DEF Typed, Recorded, Made, Grows
<1>2. ToSet(instance_list) \subseteq Made /\ ToSet(instance_list') \subseteq Made'
  BY ListFacts, ProtectedNext
<1>3. ASSUME NEW n \in Hosts
      PROVE  (\E o \in HostedBy(n)' : id'[o] = i) <=> (\E o \in HostedBy(n) : id[o] = i)
  <2>1. ASSUME NEW o \in HostedBy(n)', id'[o] = i PROVE o \in HostedBy(n) /\ id[o] = i
    <3>1. o \in ToSet(instance_list') /\ host'[o] = n /\ o \in Made'
      BY <1>2, <2>1 DEF HostedBy
    <3> QED
      BY <1>1, <1>2, <2>1, <3>1 DEF Rest, HostedBy
  <2>2. ASSUME NEW o \in HostedBy(n), id[o] = i PROVE o \in HostedBy(n)' /\ id'[o] = i
    <3>1. o \in ToSet(instance_list) /\ host[o] = n /\ o \in Made
      BY <1>2, <2>2 DEF HostedBy
    <3>2. o \in ToSet(instance_list') /\ host'[o] = n
      BY <1>1, <2>2, <3>1 DEF Rest
    <3> QED
      BY <1>1, <2>2, <3>1, <3>2 DEF HostedBy
  <2> QED
    BY <2>1, <2>2
<1> QED
  BY <1>3 DEF Settled, Rest

\* What a step about some instances leaves to the handlers of others.
LEMMA Bystanders ==
    ASSUME Typed, Typed', Watching, NEW h \in Handlers, Grows, Disturbs, nova_host' = nova_host,
           \A g \in Handlers : g # h => Stays(g),
           \A i \in Instances \ Working(h) : Rest(i)
    PROVE  /\ \A g \in Handlers : g # h => Commands(g)' /\ Checked(g)'
           /\ \A i \in Instances \ Working(h) : Watched(i)'
<1>1. \A o \in Made : o \in Made' /\ id'[o] = id[o] /\ id[o] \in Instances
  BY DEF Typed, Recorded, Made, Grows
<1>2. ToSet(instance_list) \subseteq Made /\ ToSet(instance_list') \subseteq Made'
  BY ListFacts, ProtectedNext
<1>3. ASSUME NEW i, ~Protected(i), NEW g \in Handlers, Rest(i) PROVE ~Protected(i)'
  <2>1. Protected(i)' <=> \E o \in ToSet(instance_list') : id'[o] = i
    BY ProtectedNext
  <2>2. \A o \in ToSet(instance_list) : id[o] # i
    BY <1>3, ProtectedBy
  <2> QED
    BY <1>1, <1>2, <1>3, <2>1, <2>2 DEF Rest
<1>4. ASSUME NEW g \in Handlers, g # h, NEW i \in Working(g) \cap Instances, ~disturbed'[i]
      PROVE  Rest(i) /\ ~disturbed[i]
  BY <1>4 DEF Watching, OneWorks, Disturbs
<1>5. ASSUME NEW g \in Handlers, g # h, pc'[g] \in {"compare", "refresh"} \cup Sending,
             ~disturbed'[id'[object'[g]]]
      PROVE  Sent(g)'
  <2>1. /\ pc[g] \in {"compare", "refresh"} \cup Sending
        /\ op'[g] = op[g] /\ pc'[g] = pc[g] /\ object'[g] = object[g]
        /\ original'[g] = original[g] /\ final'[g] = final[g]
    BY <1>5 DEF Stays
  <2>2. /\ object[g] \in Made /\ id[object[g]] \in Instances /\ id[object[g]] \in Working(g)
        /\ id'[object[g]] = id[object[g]]
    BY <1>1, <2>1, WorksOnObject
  <2>3. PICK i \in Instances : i = id[object[g]]
    BY <2>2
  <2>4. Rest(i) /\ ~disturbed[i]
    BY <1>4, <1>5, <2>1, <2>2, <2>3
  <2>5. Sent(g)
    BY <2>1, <2>3, <2>4 DEF Watching, Commands
  <2>6. ~Protected(i) => ~Protected(i)'
    BY <1>3, <2>4
  <2>7. /\ object[g] \in ToSet(instance_list) => object[g] \in ToSet(instance_list')
        /\ object[g] \in ToSet(instance_list) => host'[object[g]] = host[object[g]]
        /\ \A nodes : OnlyOn(i, nodes) => OnlyOn(i, nodes)'
        /\ node_list' = node_list
    BY <1>1, <2>2, <2>3, <2>4 DEF Rest, OnlyOn
  <2>8. i' = i
    OBVIOUS
  <2> QED
    BY <2>1, <2>2, <2>3, <2>5, <2>6, <2>7 DEF Sent
<1>6. ASSUME NEW g \in Handlers, g # h PROVE Checked(g)'
  <2>1. Fits(g) /\ pc'[g] = pc[g] /\ what'[g] = what[g]
    BY <1>6 DEF Typed, Stays
  <2>2. ASSUME pc'[g] \in {"locate", "append"}, ~disturbed'[what'[g]] PROVE ~Protected(what[g])'
    <3>1. what[g] \in Instances /\ what[g] \in Working(g)
      BY <2>1, <2>2 DEF Fits, ByPlace, About, Working, Scope
    <3>2. Rest(what[g]) /\ ~disturbed[what[g]]
      BY <1>4, <1>6, <2>1, <2>2, <3>1
    <3>3. ~Protected(what[g])
      BY <2>1, <2>2, <3>2 DEF Watching, Checked
    <3>4. PICK i : i = what[g]
      OBVIOUS
    <3>5. ~Protected(i)'
      BY <1>3, <3>2, <3>3, <3>4
    <3> QED
      BY <2>1, <3>4, <3>5 DEF Protected
  <2>3. ASSUME pc'[g] = "remove node", NEW o \in HostedBy(what[g])' PROVE disturbed'[id'[o]]
    <3>1. SUFFICES ASSUME ~disturbed'[id'[o]] PROVE FALSE
      OBVIOUS
    <3>2. o \in ToSet(instance_list') /\ host'[o] = what[g] /\ o \in Made'
      BY <1>2, <2>1, <2>3 DEF HostedBy
    <3>3. id'[o] \in Instances /\ Working(g) = Instances
      BY <2>1, <2>3, <3>2 DEF Fits, ByPlace, Working, Scope, Typed, Recorded
    <3>4. Rest(id'[o]) /\ ~disturbed[id'[o]]
      BY <1>4, <1>6, <3>1, <3>3
    <3>5. o \in ToSet(instance_list) /\ host[o] = what[g] /\ id[o] = id'[o]
      BY <1>1, <1>2, <3>2, <3>4 DEF Rest
    <3> QED
      BY <2>1, <2>3, <3>4, <3>5 DEF Watching, Checked, HostedBy
  <2> QED
    BY <2>2, <2>3 DEF Checked
<1>7. ASSUME NEW i \in Instances \ Working(h), ~disturbed'[i], Unsent(i)' PROVE Settled(i)'
  <2>1. Rest(i) /\ ~disturbed[i]
    BY <1>7 DEF Disturbs
  <2>2. ASSUME NEW g \in Handlers, pc[g] \in Sending PROVE id[object[g]] # i
    <3>1. object[g] \in Made /\ id[object[g]] \in Working(g) /\ id'[object[g]] = id[object[g]]
      BY <1>1, <2>2, WorksOnObject
    <3>2. CASE g = h
      BY <1>7, <3>1, <3>2
    <3>3. CASE g # h
      BY <1>7, <2>2, <3>1, <3>3 DEF Unsent, Stays
    <3> QED
      BY <3>2, <3>3
  <2>3. Settled(i)
    BY <2>1, <2>2 DEF Watching, Watched, Unsent
  <2> QED
    BY <2>1, <2>3, RestSettled
<1> QED
  BY <1>5, <1>6, <1>7 DEF Commands, Watched

\* So a step of a handler has to be looked at only where the handler works.
LEMMA WatchStep ==
    ASSUME Typed, Typed', Watching, NEW h \in Handlers, Grows, Disturbs, nova_host' = nova_host,
           \A g \in Handlers : g # h => Stays(g),
           \A i \in Instances \ Working(h) : Rest(i),
           Working(h)' \subseteq Working(h), Once', Commands(h)', Checked(h)',
           \A i \in Working(h) \cap Instances : Watched(i)'
    PROVE  Watching'
<1>1. /\ \A g \in Handlers : g # h => Commands(g)' /\ Checked(g)'
      /\ \A i \in Instances \ Working(h) : Watched(i)'
  BY Bystanders
<1>2. OneWorks'
  <2>1. ASSUME NEW g \in Handlers PROVE Working(g)' \subseteq Working(g)
    BY DEF Working, Stays
  <2> QED
    BY <2>1 DEF Watching, OneWorks, Disturbs
<1> QED
  BY <1>1, <1>2 DEF Watching, Disturbs

\* A step that changes neither the memory nor what is watched.
LEMMA QuietWatch ==
    ASSUME Typed, Typed', Watching, NEW h \in Handlers,
           UNCHANGED <<nova_host, memory, watched, disturbed>>,
           \A g \in Handlers : g # h => Stays(g),
           Working(h)' \subseteq Working(h), pc[h] \notin Sending, Commands(h)', Checked(h)'
    PROVE  Watching'
<1>1. Grows /\ Disturbs
  BY NoneAdded DEF memory, Disturbs, Watching
<1>2. \A i : Rest(i)
  BY DEF Rest, memory
<1>3. Once'
  BY DEF Watching, Once, memory
<1>4. ASSUME NEW i \in Instances, ~disturbed'[i], Unsent(i)' PROVE Settled(i)'
  <2>1. Unsent(i)
    BY <1>4 DEF Unsent, Stays, memory
  <2>2. Settled(i)
    BY <1>4, <2>1 DEF Watching, Watched
  <2> QED
    BY <2>2 DEF Settled, HostedBy, memory
<1>5. nova_host' = nova_host /\ \A i \in Working(h) \cap Instances : Watched(i)'
  BY <1>4 DEF Watched
<1> QED
  BY <1>1, <1>2, <1>3, <1>5, WatchStep

\* What the methods of Cluster leave to the other handlers.
LEMMA HandleStays ==
    ASSUME Typed, IInv, NEW h \in Handlers, Handle(h)
    PROVE  /\ \A g \in Handlers : g # h => Stays(g)
           /\ (pc'[h] = "idle" /\ pc[h] = "answer") \/ (op'[h] = op[h] /\ what'[h] = what[h])
<1> USE DEF Stays, Goto, Return, memory, local
<1> DEFINE Others == \A g \in Handlers : g # h => Stays(g)
           Goes == op'[h] = op[h] /\ what'[h] = what[h]
<1>1. /\ DOMAIN pc = Handlers /\ DOMAIN op = Handlers /\ DOMAIN what = Handlers
      /\ DOMAIN object = Handlers /\ DOMAIN original = Handlers /\ DOMAIN final = Handlers
  BY DEF IInv, Shaped, Typed, Locals
<1>2. CASE Answer(h)
  BY <1>1, <1>2 DEF Answer, Forget, At
<1>3. ASSUME add_node(h) \/ delete_node(h) \/ RemoveNode(h) PROVE Others /\ Goes
  BY <1>1, <1>3 DEF add_node, delete_node, RemoveNode, OnlyNodes
<1>4. ASSUME AddInstanceChecks(h) \/ _check_instance_host(h) \/ add_instance(h) PROVE Others /\ Goes
  BY <1>1, <1>4 DEF AddInstanceChecks, _check_instance_host, add_instance, Quietly
<1>5. ASSUME delete_instance(h) \/ update_instance_host(h) \/ update_instance(h) PROVE Others /\ Goes
  BY <1>1, <1>5 DEF delete_instance, update_instance_host, update_instance, Loops, Quietly
<1>6. ASSUME DeleteNext(h) \/ UpdateNext(h) \/ UpdateAllNext(h) PROVE Others /\ Goes
  <2>1. PICK k : /\ \/ NoneLeft(h)
                    \/ Takes(h, k) /\ \E place : Goto(h, place)
                 /\ UNCHANGED <<final, op, what>>
    BY <1>6 DEF DeleteNext, UpdateNext, UpdateAllNext, Quietly
  <2> QED
    BY <1>1, <2>1 DEF NoneLeft, Takes
<1>7. ASSUME Compare(h) \/ Refresh(h) PROVE Others /\ Goes
  BY <1>1, <1>7 DEF Compare, Refresh, Quietly
<1>8. ASSUME SendAdd(h) \/ SendRemove(h) PROVE Others /\ Goes
  BY <1>1, <1>8 DEF SendAdd, SendRemove, Raises
<1> QED
  BY <1>2, <1>3, <1>4, <1>5, <1>6, <1>7, <1>8 DEF Handle

\* What a method works on while it goes on.
LEMMA WorkingOn ==
    ASSUME NEW h, pc[h] # "idle", pc'[h] = "idle" \/ (op'[h] = op[h] /\ what'[h] = what[h])
    PROVE  Working(h)' \subseteq Working(h)
  BY DEF Working

\* A step that leaves the handler where it neither sends nor has checked anything.
LEMMA AwayWatch ==
    ASSUME IInv, Typed, Typed', Watching, NEW h \in Handlers,
           UNCHANGED <<nova_host, memory, watched, disturbed>>,
           \A g \in Handlers : g # h => Stays(g),
           Working(h)' \subseteq Working(h), pc[h] \notin Sending,
           pc'[h] \notin {"compare", "refresh", "locate", "append", "remove node"} \cup Sending
    PROVE  Watching'
<1>1. Commands(h)' /\ Checked(h)'
  BY DEF Commands, Checked
<1> QED
  BY <1>1, QuietWatch

\* The checks, and the beginnings of the loops.
LEMMA ChecksWatch ==
    ASSUME IInv, Typed, Typed', Watching, NEW h \in Handlers,
           \/ delete_node(h) \/ AddInstanceChecks(h) \/ _check_instance_host(h)
           \/ delete_instance(h) \/ update_instance_host(h) \/ update_instance(h) \/ Answer(h)
    PROVE  Watching'
<1>1. UNCHANGED <<nova_host, memory, watched, disturbed>>
  BY DEF delete_node, AddInstanceChecks, _check_instance_host, delete_instance,
         update_instance_host, update_instance, Loops, Answer, Quietly, OnlyNodes, memory
<1>2. /\ \A g \in Handlers : g # h => Stays(g)
      /\ (pc'[h] = "idle" /\ pc[h] = "answer") \/ (op'[h] = op[h] /\ what'[h] = what[h])
  BY HandleStays DEF Handle
<1>3. pc[h] \in {"begin", "locate", "answer"} /\ DOMAIN pc = Handlers
  BY DEF delete_node, AddInstanceChecks, _check_instance_host, delete_instance,
         update_instance_host, update_instance, Loops, Answer, At, IInv, Shaped
<1>4. Working(h)' \subseteq Working(h) /\ pc[h] \notin Sending
  BY <1>2, <1>3, WorkingOn DEF Sending
<1>5. /\ pc'[h] \notin {"compare", "refresh"} \cup Sending
      /\ pc'[h] = "locate" => pc[h] = "begin" /\ ~Protected(what[h]) /\ what'[h] = what[h]
      /\ pc'[h] = "append" => pc[h] = "locate" /\ what'[h] = what[h]
      /\ pc'[h] = "remove node" => HostedBy(what[h]) = {} /\ what'[h] = what[h]
  <2>1. ASSUME delete_node(h) PROVE <1>5
    BY <1>2, <1>3, <2>1 DEF delete_node, Goto, Return, Caller, At, Sending
  <2>2. ASSUME AddInstanceChecks(h) \/ _check_instance_host(h) PROVE <1>5
    BY <1>2, <1>3, <2>2 DEF AddInstanceChecks, _check_instance_host, Goto, Return, Caller, At, Sending
  <2>3. ASSUME delete_instance(h) \/ update_instance_host(h) \/ update_instance(h) \/ Answer(h)
        PROVE  <1>5
    BY <1>3, <2>3 DEF delete_instance, update_instance_host, update_instance, Loops, Answer, Forget,
                      Goto, Sending
  <2> QED
    BY <2>1, <2>2, <2>3
<1>6. Commands(h)'
  BY <1>5 DEF Commands
<1>7. Checked(h)'
  BY <1>1, <1>5 DEF Checked, Watching, Protected, HostedBy, memory
<1> QED
  BY <1>1, <1>2, <1>4, <1>6, <1>7, QuietWatch

\* An element is taken to be compared or refreshed, as it is recorded.
LEMMA TakesWatch ==
    ASSUME IInv, Typed, Typed', Watching, NEW h \in Handlers, UpdateNext(h) \/ UpdateAllNext(h)
    PROVE  Watching'
<1>1. UNCHANGED <<nova_host, memory, watched, disturbed>>
  BY DEF UpdateNext, UpdateAllNext, Quietly, memory
<1>2. /\ pc[h] \in {"update", "update all"} /\ DOMAIN pc = Handlers
      /\ \A g \in Handlers : g # h => Stays(g)
      /\ op'[h] = op[h] /\ what'[h] = what[h]
  BY HandleStays DEF Handle, UpdateNext, UpdateAllNext, At, IInv, Shaped
<1>3. Working(h)' \subseteq Working(h) /\ pc[h] \notin Sending
  BY <1>2, WorkingOn DEF Sending
<1>4. CASE NoneLeft(h)
  <2>1. pc'[h] \in {"updates", "answer"}
    BY <1>2, <1>4 DEF NoneLeft, Return, Goto, Caller
  <2> QED
    BY <1>1, <1>2, <1>3, <2>1, AwayWatch DEF Sending
<1>5. ASSUME NEW k \in 1..Len(instance_list), Takes(h, k), NEW place, Goto(h, place),
             place = "compare" \/ (place = "refresh" /\ op[h] = "update_all")
      PROVE  Watching'
  <2>1. /\ object'[h] = instance_list[k] /\ instance_list[k] \in ToSet(instance_list)
        /\ original'[h] = host[instance_list[k]] /\ pc'[h] = place
    BY <1>2, <1>5, TakesFacts, ListFacts DEF Goto
  <2>2. Sent(h)'
    BY <1>1, <1>2, <1>5, <2>1 DEF Sent, memory
  <2>3. Commands(h)' /\ Checked(h)'
    BY <1>5, <2>1, <2>2 DEF Commands, Checked
  <2> QED
    BY <1>1, <1>2, <1>3, <2>3, QuietWatch
<1>6. CASE UpdateNext(h)
  BY <1>4, <1>5, <1>6, AheadFacts DEF UpdateNext
<1>7. CASE UpdateAllNext(h)
  <2>1. index[h] \in Nat \ {0} /\ Len(instance_list) \in Nat /\ op[h] = "update_all"
    BY <1>7, ListFacts DEF Typed, Fits, ByPlace, UpdateAllNext, At
  <2>2. index[h] > Len(instance_list) \/ index[h] \in 1..Len(instance_list)
    BY <2>1
  <2> QED
    BY <1>4, <1>5, <1>7, <2>1, <2>2 DEF UpdateAllNext
<1> QED
  BY <1>6, <1>7

\* Nova is asked for the host; what it says is compared with what was recorded.
LEMMA CompareWatch ==
    ASSUME IInv, Typed, Typed', Watching, NEW h \in Handlers, Compare(h)
    PROVE  Watching'
<1>1. UNCHANGED <<nova_host, memory, watched, disturbed>> /\ UNCHANGED <<object, original>>
  BY DEF Compare, Quietly, memory
<1>2. /\ pc[h] = "compare" /\ DOMAIN pc = Handlers /\ DOMAIN final = Handlers
      /\ \A g \in Handlers : g # h => Stays(g)
      /\ op'[h] = op[h] /\ what'[h] = what[h]
  BY HandleStays DEF Handle, Compare, At, IInv, Shaped, Typed, Locals
<1>3. Working(h)' \subseteq Working(h) /\ pc[h] \notin Sending
  BY <1>2, WorkingOn DEF Sending
<1>4. \/ pc'[h] \in {"updates", "answer", "update"}
      \/ /\ pc'[h] = "refresh" /\ final'[h] = nova_host[id[object[h]]]
         /\ final'[h] # original[h]
  BY <1>2 DEF Compare, Return, Goto, Caller
<1>5. CASE pc'[h] \in {"updates", "answer", "update"}
  BY <1>1, <1>2, <1>3, <1>5, AwayWatch DEF Sending
<1>6. CASE pc'[h] = "refresh"
  <2>1. ASSUME ~disturbed[id[object[h]]] PROVE Sent(h)'
    <3>1. Sent(h)
      BY <1>2, <2>1 DEF Watching, Commands
    <3> QED
      BY <1>1, <1>2, <1>4, <1>6, <3>1 DEF Sent, memory
  <2>2. Commands(h)'
    BY <1>1, <2>1 DEF Commands, memory
  <2>3. Checked(h)'
    BY <1>6 DEF Checked
  <2> QED
    BY <1>1, <1>2, <1>3, <2>2, <2>3, QuietWatch
<1> QED
  BY <1>4, <1>5, <1>6
----------------------------------------------------------------------------
\* An instance that only a handler works on that is not sending is settled.
LEMMA AloneSettled ==
    ASSUME Typed, Watching, NEW h \in Handlers, pc[h] \notin Sending,
           NEW i \in Instances, i \in Working(h), ~disturbed[i]
    PROVE  Settled(i)
<1>1. ASSUME NEW g \in Handlers, pc[g] \in Sending, id[object[g]] = i PROVE FALSE
  BY <1>1, WorksOnObject DEF Watching, OneWorks
<1> QED
  BY <1>1 DEF Watching, Watched, Unsent

\* A step about one instance.
LEMMA OneInstance ==
    ASSUME Typed, Typed', Watching, NEW h \in Handlers, Grows, Disturbs, nova_host' = nova_host,
           \A g \in Handlers : g # h => Stays(g),
           Working(h)' \subseteq Working(h), Once', Commands(h)', Checked(h)',
           NEW i \in Instances, i \in Working(h), pc[h] \in Sending => id[object[h]] = i,
           \A j \in Instances \ {i} : Rest(j), Watched(i)'
    PROVE  Watching'
<1>1. ASSUME NEW j \in Instances \ {i}, ~disturbed'[j], Unsent(j)' PROVE Settled(j)'
  <2>1. ASSUME NEW g \in Handlers, pc[g] \in Sending PROVE id[object[g]] # j
    <3>1. object[g] \in Made /\ id'[object[g]] = id[object[g]]
      BY <2>1, WorksOnObject DEF Grows
    <3> QED
      BY <1>1, <2>1, <3>1 DEF Unsent, Stays
  <2>2. Settled(j)
    BY <1>1, <2>1 DEF Watching, Watched, Unsent, Disturbs
  <2> QED
    BY <1>1, <2>2, RestSettled
<1>2. \A j \in Working(h) \cap Instances : Watched(j)'
  BY <1>1 DEF Watched
<1> QED
  BY <1>2, WatchStep

\* A node is added, that no instance is watched on, or deleted, that no instance is
\* recorded on.
LEMMA NodesWatch ==
    ASSUME IInv, Typed, Typed', Watching, NEW h \in Handlers, add_node(h) \/ RemoveNode(h)
    PROVE  Watching'
<1>1. /\ UNCHANGED <<nova_host, instance_list, made, id, host, op, what, object, disturbed>>
      /\ Return(h) /\ pc[h] \in {"begin", "remove node"} /\ op[h] \in {"add_node", "delete_node"}
      /\ \A g \in Handlers : g # h => Stays(g)
      /\ DOMAIN pc = Handlers /\ watched \in [Hosts -> SUBSET Instances] /\ what[h] \in Hosts
  <2>1. \A g \in Handlers : g # h => Stays(g)
    BY HandleStays DEF Handle
  <2>2. pc[h] \in {"begin", "remove node"} /\ op[h] \in {"add_node", "delete_node"} /\ what[h] \in Hosts
    BY DEF add_node, RemoveNode, At, Typed, Fits, ByPlace, About
  <2> QED
    BY <2>1, <2>2 DEF add_node, RemoveNode, OnlyNodes, local, IInv, Shaped, Typed, Recorded
<1>2. Working(h) = Instances /\ Working(h)' \subseteq Working(h)
  BY <1>1 DEF Working, Scope
<1>3. pc[h] \notin Sending /\ pc'[h] = "answer"
  BY <1>1 DEF Return, Goto, Caller, Sending
<1>4. Commands(h)' /\ Checked(h)'
  BY <1>3 DEF Commands, Checked, Sending
<1>5. Grows /\ Disturbs /\ Once'
  BY <1>1, NoneAdded DEF Disturbs, Watching, Once
<1>6. ASSUME NEW i \in Instances, ~disturbed[i] PROVE Settled(i)'
  <2>1. Settled(i)
    BY <1>2, <1>3, <1>6, AloneSettled
  <2>2. \A n \in Hosts : HostedBy(n)' = HostedBy(n)
    BY <1>1 DEF HostedBy
  <2>3. SUFFICES ASSUME NEW n \in Hosts
                 PROVE  /\ i \in watched'[n] <=> \E o \in HostedBy(n) : id[o] = i
                        /\ i \in watched'[n] => n \in node_list'
    BY <1>1, <2>2 DEF Settled
  <2>4. CASE add_node(h)
    <3>1. /\ node_list' = node_list \cup {what[h]}
          /\ watched' = watched
                \/ (what[h] \notin node_list /\ watched' = [watched EXCEPT ![what[h]] = {}])
      BY <2>4 DEF add_node
    <3>2. i \in watched'[n] <=> i \in watched[n]
      BY <1>1, <2>1, <3>1 DEF Settled
    <3> QED
      BY <2>1, <3>1, <3>2 DEF Settled
  <2>5. CASE RemoveNode(h)
    <3>1. /\ node_list' = node_list \ {what[h]} /\ watched' = [watched EXCEPT ![what[h]] = {}]
          /\ pc[h] = "remove node"
      BY <2>5 DEF RemoveNode, At
    <3>2. i \notin watched[what[h]]
      BY <1>1, <1>6, <2>1, <3>1 DEF Settled, Watching, Checked
    <3>3. i \in watched'[n] <=> i \in watched[n]
      BY <1>1, <3>1, <3>2
    <3> QED
      BY <2>1, <3>1, <3>2, <3>3 DEF Settled
  <2> QED
    BY <2>4, <2>5
<1>7. \A i \in Working(h) \cap Instances : Watched(i)'
  BY <1>1, <1>6 DEF Watched
<1> QED
  BY <1>1, <1>2, <1>4, <1>5, <1>7, WatchStep

\* Of an instance that nothing has met, there is one record.
LEMMA OneRecord ==
    ASSUME Typed, Watching, NEW o \in ToSet(instance_list), ~disturbed[id[o]], NEW n
    PROVE  (\E p \in HostedBy(n) : id[p] = id[o]) <=> host[o] = n
  BY DEF Watching, Once, HostedBy

\* A command about an instance is sent.
LEMMA SendOne ==
    ASSUME Typed, Typed', Watching, NEW h \in Handlers, NEW i, i = id[object[h]],
           pc[h] \in Sending, UNCHANGED <<nova_host, memory, local>>, Disturbs,
           \A g \in Handlers : g # h => Stays(g),
           pc'[h] \notin {"idle", "compare", "refresh", "locate", "append", "remove node"},
           \A n \in Hosts : \A j \in Instances \ {i} : j \in watched'[n] <=> j \in watched[n],
           pc'[h] \in Sending /\ ~disturbed'[i] => Sent(h)',
           pc'[h] \notin Sending /\ ~disturbed'[i] => Settled(i)'
    PROVE  Watching'
<1>1. object[h] \in Made /\ i \in Instances /\ i \in Working(h)
  BY WorksOnObject
<1>2. object'[h] = object[h] /\ id' = id /\ id'[object'[h]] = i /\ nova_host' = nova_host
  BY DEF local, memory
<1>3. Working(h)' \subseteq Working(h)
  BY WorkingOn DEF local, Sending
<1>4. Grows
  BY NoneAdded DEF memory
<1>5. Once'
  <2>1. \A p \in ToSet(instance_list) : id[p] \in Instances
    BY ListFacts DEF Typed, Recorded
  <2>2. instance_list' = instance_list
    BY DEF memory
  <2> QED
    BY <1>2, <2>1, <2>2 DEF Watching, Once, Disturbs
<1>6. Commands(h)' /\ Checked(h)'
  BY <1>2 DEF Commands, Checked, Sending
<1>7. \A j \in Instances \ {i} : Rest(j)
  BY DEF Rest, memory
<1>8. Watched(i)'
  <2>1. ASSUME Unsent(i)' PROVE pc'[h] \notin Sending
    BY <1>2, <2>1 DEF Unsent
  <2>2. i' = i
    OBVIOUS
  <2> QED
    BY <2>1, <2>2 DEF Watched
<1> QED
  BY <1>1, <1>2, <1>3, <1>4, <1>5, <1>6, <1>7, <1>8, OneInstance

\* There is no such node: the method ends, and the instance is on its own.
LEMMA RaisesWatch ==
    ASSUME IInv, Typed, Typed', Watching, NEW h \in Handlers, NEW i, i = id[object[h]],
           pc[h] \in Sending, UNCHANGED <<nova_host, memory, local>>, Raises(h, i),
           \A g \in Handlers : g # h => Stays(g)
    PROVE  Watching'
<1>1. DOMAIN disturbed = Instances /\ DOMAIN pc = Handlers /\ i \in Instances
  BY WorksOnObject DEF Watching, IInv, Shaped
<1>2. watched' = watched /\ Disturbs /\ disturbed'[i]
  BY <1>1 DEF Raises, Disturb, Disturbs
<1>3. pc'[h] \in {"updates", "answer"}
  BY <1>1 DEF Raises, Return, Goto, Caller
<1> QED
  BY <1>2, <1>3, SendOne DEF Sending

\* ADD_INSTANCE or EVACUATE_INSTANCE.
LEMMA SendAddWatch ==
    ASSUME IInv, Typed, Typed', Watching, NEW h \in Handlers, SendAdd(h)
    PROVE  Watching'
<1>1. PICK i \in Instances : i = id[object[h]]
  BY WorksOnObject DEF SendAdd, At, Sending
<1>2. /\ pc[h] = "send add" /\ UNCHANGED <<nova_host, memory, local>>
      /\ DOMAIN pc = Handlers /\ watched \in [Hosts -> SUBSET Instances]
      /\ DOMAIN disturbed = Instances /\ final[h] \in Hosts \cup {None}
      /\ node_list \subseteq Hosts /\ pc[h] \in Sending
  BY DEF SendAdd, At, IInv, Shaped, Typed, Recorded, Watching, Fits, Sending
<1>3. \A g \in Handlers : g # h => Stays(g)
  BY HandleStays DEF Handle
<1>4. CASE final[h] \notin node_list
  BY <1>1, <1>2, <1>3, <1>4, RaisesWatch DEF SendAdd
<1>5. CASE final[h] \in node_list
  <2>1. /\ watched' = [watched EXCEPT ![final[h]] = @ \cup {i}] /\ disturbed' = disturbed
        /\ pc'[h] = IF op[h] = "add_instance" THEN "answer" ELSE "send remove"
    BY <1>1, <1>2, <1>5 DEF SendAdd, Goto
  <2>2. Disturbs
    BY <1>2, <2>1 DEF Disturbs
  <2>3. \A n \in Hosts : \A j \in Instances : j \in watched'[n] <=> (j \in watched[n] \/ (n = final[h] /\ j = i))
    BY <1>2, <2>1
  <2>4. ASSUME ~disturbed[i]
        PROVE  /\ op[h] = "add_instance" => Settled(i)'
               /\ op[h] # "add_instance" => Sent(h)'
    <3>1. Sent(h)
      BY <1>1, <1>2, <2>4 DEF Watching, Commands
    <3>2. /\ object[h] \in ToSet(instance_list) /\ host[object[h]] = final[h]
          /\ op[h] = "add_instance" => OnlyOn(i, {})
          /\ op[h] # "add_instance" =>
                 final[h] # original[h] /\ original[h] \in node_list /\ OnlyOn(i, {original[h]})
      BY <1>1, <1>2, <3>1 DEF Sent
    <3>3. ASSUME op[h] = "add_instance" PROVE Settled(i)'
      <4>1. \A n \in Hosts : i \in watched'[n] <=> n = final[h]
        BY <2>3, <3>2, <3>3 DEF OnlyOn
      <4>2. \A n \in Hosts : (\E p \in HostedBy(n) : id[p] = i) <=> final[h] = n
        BY <1>1, <2>4, <3>2, OneRecord
      <4>3. \A n \in Hosts : HostedBy(n)' = HostedBy(n)
        BY <1>2 DEF HostedBy, memory
      <4> QED
        BY <1>2, <1>5, <4>1, <4>2, <4>3 DEF Settled, memory
    <3>4. ASSUME op[h] # "add_instance" PROVE Sent(h)'
      <4>1. pc'[h] = "send remove" /\ op[h] # "delete_instance"
        BY <1>2, <2>1, <3>4 DEF Typed, Fits, ByPlace, Updating
      <4>2. OnlyOn(i, {original[h], final[h]})'
        BY <1>2, <2>3, <3>2, <3>4 DEF OnlyOn, local
      <4> QED
        BY <1>1, <1>2, <1>5, <3>2, <3>4, <4>1, <4>2 DEF Sent, memory, local
    <3> QED
      BY <3>3, <3>4
  <2>5. /\ pc'[h] \in Sending /\ ~disturbed'[i] => Sent(h)'
        /\ pc'[h] \notin Sending /\ ~disturbed'[i] => Settled(i)'
    BY <2>1, <2>4 DEF Sending
  <2>6. pc'[h] \notin {"idle", "compare", "refresh", "locate", "append", "remove node"}
    BY <2>1
  <2>7. \A n \in Hosts : \A j \in Instances \ {i} : j \in watched'[n] <=> j \in watched[n]
    BY <2>3
  <2> QED
    BY <1>1, <1>2, <1>3, <2>2, <2>5, <2>6, <2>7, SendOne
<1> QED
  BY <1>4, <1>5

\* REMOVE_INSTANCE.
LEMMA SendRemoveWatch ==
    ASSUME IInv, Typed, Typed', Watching, NEW h \in Handlers, SendRemove(h)
    PROVE  Watching'
<1>1. PICK i \in Instances : i = id[object[h]]
  BY WorksOnObject DEF SendRemove, At, Sending
<1>2. /\ pc[h] = "send remove" /\ UNCHANGED <<nova_host, memory, local>>
      /\ DOMAIN pc = Handlers /\ watched \in [Hosts -> SUBSET Instances]
      /\ DOMAIN disturbed = Instances /\ original[h] \in Hosts \cup {None}
      /\ node_list \subseteq Hosts /\ pc[h] \in Sending
  BY DEF SendRemove, At, IInv, Shaped, Typed, Recorded, Watching, Fits, Sending
<1>3. \A g \in Handlers : g # h => Stays(g)
  BY HandleStays DEF Handle
<1>4. CASE original[h] \notin node_list
  BY <1>1, <1>2, <1>3, <1>4, RaisesWatch DEF SendRemove
<1>5. CASE original[h] \in node_list
  <2>1. /\ watched' = [watched EXCEPT ![original[h]] = @ \ {i}] /\ disturbed' = disturbed
        /\ pc'[h] \in {"delete", "update all", "updates", "answer"}
    BY <1>1, <1>2, <1>5 DEF SendRemove, Goto, Caller
  <2>2. Disturbs
    BY <1>2, <2>1 DEF Disturbs
  <2>3. \A n \in Hosts : \A j \in Instances : j \in watched'[n] <=> (j \in watched[n] /\ ~(n = original[h] /\ j = i))
    BY <1>2, <2>1
  <2>4. ASSUME ~disturbed[i] PROVE Settled(i)'
    <3>1. Sent(h)
      BY <1>1, <1>2, <2>4 DEF Watching, Commands
    <3>2. /\ op[h] = "delete_instance" => ~Protected(i) /\ OnlyOn(i, {original[h]})
          /\ op[h] # "delete_instance" =>
                 /\ object[h] \in ToSet(instance_list) /\ host[object[h]] = final[h]
                 /\ final[h] # original[h] /\ final[h] \in node_list
                 /\ OnlyOn(i, {original[h], final[h]})
      BY <1>1, <1>2, <3>1 DEF Sent
    <3>3. \A n \in Hosts : HostedBy(n)' = HostedBy(n)
      BY <1>2 DEF HostedBy, memory
    <3>4. CASE op[h] = "delete_instance"
      <4>1. \A n \in Hosts : i \notin watched'[n]
        BY <2>3, <3>2, <3>4 DEF OnlyOn
      <4>2. \A n \in Hosts : ~(\E p \in HostedBy(n) : id[p] = i)
        BY <3>2, <3>4, ProtectedBy DEF HostedBy
      <4> QED
        BY <1>2, <3>3, <4>1, <4>2 DEF Settled, memory
    <3>5. CASE op[h] # "delete_instance"
      <4>1. \A n \in Hosts : i \in watched'[n] <=> n = final[h]
        BY <2>3, <3>2, <3>5 DEF OnlyOn
      <4>2. \A n \in Hosts : (\E p \in HostedBy(n) : id[p] = i) <=> final[h] = n
        BY <1>1, <2>4, <3>2, <3>5, OneRecord
      <4> QED
        BY <1>2, <3>2, <3>3, <3>5, <4>1, <4>2 DEF Settled, memory
    <3> QED
      BY <3>4, <3>5
  <2>5. \A n \in Hosts : \A j \in Instances \ {i} : j \in watched'[n] <=> j \in watched[n]
    BY <2>3
  <2> QED
    BY <1>1, <1>2, <1>3, <2>1, <2>2, <2>4, <2>5, SendOne DEF Sending
<1> QED
  BY <1>4, <1>5

\* The new object's instance was not protected, and no node watches it.
LEMMA AddWatch ==
    ASSUME IInv, Typed, Typed', Watching, NEW h \in Handlers, add_instance(h)
    PROVE  Watching'
<1>1. PICK i \in Instances : i = what[h]
  BY DEF add_instance, At, Typed, Fits, ByPlace, About
<1>2. /\ pc[h] = "append" /\ op[h] = "add_instance" /\ op' = op /\ what' = what
      /\ UNCHANGED <<nova_host, node_list, watched, disturbed, original, final>>
      /\ made \in Nat /\ made < MaxObjects /\ made' = made + 1
      /\ id' = [id EXCEPT ![made + 1] = i] /\ host' = [host EXCEPT ![made + 1] = final[h]]
      /\ instance_list' = Append(instance_list, made + 1)
      /\ object'[h] = made + 1 /\ pc'[h] = "send add"
  BY <1>1 DEF add_instance, Quietly, Goto, At, Typed, Recorded, Locals, Fits, ByPlace, IInv, Shaped
<1>3. \A g \in Handlers : g # h => Stays(g)
  BY HandleStays DEF Handle
<1>4. Working(h) = {i} /\ Working(h)' \subseteq Working(h) /\ pc[h] \notin Sending
  BY <1>1, <1>2 DEF Working, Scope, Sending
<1>5. /\ made + 1 \notin Made /\ id'[made + 1] = i /\ host'[made + 1] = final[h]
      /\ \A o \in Made : id'[o] = id[o] /\ host'[o] = host[o]
      /\ Made' = Made \cup {made + 1}
  <2>1. made + 1 \notin Made /\ made + 1 \in Objects /\ Made \subseteq Objects
        /\ Made' = Made \cup {made + 1}
    <3>1. made \in Nat /\ made < MaxObjects /\ made' = made + 1
      BY <1>2
    <3> QED
      BY <3>1 DEF Made, Objects
  <2>2. DOMAIN id = Objects /\ DOMAIN host = Objects
    BY DEF Typed, Recorded
  <2> QED
    BY <1>2, <2>1, <2>2
<1>6. /\ Len(instance_list) \in Nat /\ Len(instance_list') = Len(instance_list) + 1
      /\ instance_list'[Len(instance_list) + 1] = made + 1
      /\ \A k \in 1..Len(instance_list) :
             instance_list'[k] = instance_list[k] /\ instance_list[k] \in Made
      /\ ToSet(instance_list) \subseteq Made
  <2>1. instance_list \in Seq(Made) /\ Made \subseteq Made' /\ made + 1 \in Made'
    BY <1>5 DEF Typed, Recorded
  <2>2. instance_list \in Seq(Made')
    BY <2>1, SeqMonotonic
  <2>3. instance_list' = Append(instance_list, made + 1)
    BY <1>2
  <2>4. /\ Len(instance_list') = Len(instance_list) + 1
        /\ instance_list'[Len(instance_list) + 1] = made + 1
        /\ \A k \in 1..Len(instance_list) : instance_list'[k] = instance_list[k]
    BY <2>1, <2>2, <2>3, AppendProperties
  <2> QED
    BY <2>4, ListFacts
<1>7. ToSet(instance_list') = ToSet(instance_list) \cup {made + 1}
  <2>1. ToSet(instance_list) = {instance_list[k] : k \in 1..Len(instance_list)}
    BY ListFacts
  <2>2. ToSet(instance_list') = {instance_list'[k] : k \in 1..Len(instance_list')}
    <3>1. instance_list' \in Seq(Made')
      BY DEF Typed, Recorded
    <3> QED
      BY <3>1, Elements
  <2>3. 1..(Len(instance_list) + 1) = 1..Len(instance_list) \cup {Len(instance_list) + 1}
    BY <1>6
  <2> QED
    BY <1>6, <2>1, <2>2, <2>3
<1>8. Grows /\ Disturbs
  <2>1. made' \in Nat /\ made <= made'
    <3>1. made \in Nat /\ made' = made + 1
      BY <1>2
    <3> QED
      BY <3>1
  <2> QED
    BY <1>2, <1>5, <2>1 DEF Grows, Disturbs, Watching
<1>9. \A j \in Instances \ {i} : Rest(j)
  BY <1>2, <1>5, <1>6, <1>7 DEF Rest
<1>10. ASSUME ~disturbed[i]
       PROVE  (\A o \in ToSet(instance_list) : id[o] # i) /\ OnlyOn(i, {})'
  <2>1. \A o \in ToSet(instance_list) : id[o] # i
    BY <1>1, <1>2, <1>10, ProtectedBy DEF Watching, Checked
  <2>2. Settled(i)
    BY <1>4, <1>10, AloneSettled
  <2> QED
    BY <1>2, <2>1, <2>2 DEF Settled, HostedBy, OnlyOn
<1>11. Once'
  <2>1. ASSUME NEW j \in 1..Len(instance_list'), NEW k \in 1..Len(instance_list'),
               instance_list'[j] = instance_list'[k]
        PROVE  j = k
    <3>1. \A m \in 1..Len(instance_list') :
              m = Len(instance_list) + 1 \/ m \in 1..Len(instance_list)
      BY <1>6
    <3> QED
      BY <1>5, <1>6, <2>1, <3>1 DEF Watching, Once
  <2>2. ASSUME NEW o \in ToSet(instance_list'), NEW p \in ToSet(instance_list'),
               ~disturbed'[id'[o]], id'[o] = id'[p]
        PROVE  o = p
    <3>1. CASE o \in ToSet(instance_list) /\ p \in ToSet(instance_list)
      <4>1. id'[o] = id[o] /\ id'[p] = id[p]
        BY <1>5, <1>6, <3>1
      <4> QED
        BY <1>2, <2>2, <3>1, <4>1 DEF Watching, Once
    <3>2. CASE o = made + 1 \/ p = made + 1
      <4>1. id'[o] = i /\ id'[p] = i /\ ~disturbed[i]
        BY <1>2, <1>5, <2>2, <3>2
      <4>2. o \notin ToSet(instance_list) /\ p \notin ToSet(instance_list)
        BY <1>5, <1>6, <1>10, <4>1
      <4> QED
        BY <1>7, <2>2, <4>2
    <3> QED
      BY <1>7, <2>2, <3>1, <3>2
  <2> QED
    BY <2>1, <2>2 DEF Once
<1>12. Commands(h)' /\ Checked(h)'
  <2>1. ASSUME ~disturbed[i] PROVE Sent(h)'
    BY <1>2, <1>5, <1>7, <1>10, <2>1 DEF Sent
  <2> QED
    BY <1>2, <1>5, <2>1 DEF Commands, Checked
<1>13. Watched(i)'
  <2>1. i' = i
    OBVIOUS
  <2> QED
    BY <1>2, <1>5, <2>1 DEF Watched, Unsent, Sending
<1> QED
  BY <1>2, <1>3, <1>4, <1>8, <1>9, <1>11, <1>12, <1>13, OneInstance

\* An element is deleted from the list, and its instance is no longer protected.
LEMMA DeleteWatch ==
    ASSUME IInv, Typed, Typed', Watching, NEW h \in Handlers, DeleteNext(h)
    PROVE  Watching'
<1>1. PICK i \in Instances : i = what[h]
  BY DEF DeleteNext, At, Typed, Fits, ByPlace, About
<1>2. /\ pc[h] = "delete" /\ op[h] = "delete_instance" /\ op' = op /\ what' = what
      /\ UNCHANGED <<nova_host, node_list, made, id, host, watched, disturbed>>
      /\ DOMAIN pc = Handlers
  BY DEF DeleteNext, Quietly, At, Typed, Fits, ByPlace, IInv, Shaped
<1>3. \A g \in Handlers : g # h => Stays(g)
  BY HandleStays DEF Handle
<1>4. Working(h) = {i} /\ pc[h] \notin Sending /\ pc[h] # "idle"
  BY <1>1, <1>2 DEF Working, Scope, Sending
<1>5. Working(h)' \subseteq Working(h)
  BY <1>2, <1>4, WorkingOn
<1>6. CASE Ahead(h, what[h]) = {}
  <2>1. pc'[h] = "answer" /\ instance_list' = instance_list
    BY <1>2, <1>6 DEF DeleteNext, NoneLeft, Return, Goto, Caller
  <2> QED
    BY <1>2, <1>3, <1>4, <1>5, <2>1, AwayWatch DEF memory, Sending
<1>7. CASE Ahead(h, what[h]) # {}
  <2>1. PICK k \in 1..Len(instance_list) :
            /\ id[instance_list[k]] = i /\ Takes(h, k)
            /\ instance_list' = RemoveAt(instance_list, k) /\ Goto(h, "send remove")
    BY <1>1, <1>7, AheadFacts DEF DeleteNext
  <2>2. PICK o \in ToSet(instance_list) : o = instance_list[k]
    BY ListFacts
  <2>3. object'[h] = o /\ original'[h] = host[o] /\ pc'[h] = "send remove" /\ id[o] = i
    BY <1>2, <2>1, <2>2, TakesFacts DEF Goto
  <2>4. /\ Len(instance_list) \in Nat /\ Len(instance_list') = Len(instance_list) - 1
        /\ \A j \in 1..(Len(instance_list) - 1) :
               instance_list'[j] = instance_list[IF j < k THEN j ELSE j + 1]
    BY <2>1, ListFacts, RemoveAtProperties DEF Typed, Recorded
  <2>5. \A j \in 1..(Len(instance_list) - 1) :
            (IF j < k THEN j ELSE j + 1) \in 1..Len(instance_list) \ {k}
    BY <2>4
  <2>6. ToSet(instance_list') = ToSet(instance_list) \ {o}
    <3>1. ToSet(instance_list) = {instance_list[j] : j \in 1..Len(instance_list)}
      BY ListFacts
    <3>2. ToSet(instance_list') = {instance_list'[j] : j \in 1..(Len(instance_list) - 1)}
      <4>1. instance_list' \in Seq(Made')
        BY DEF Typed, Recorded
      <4> QED
        BY <2>4, <4>1, Elements
    <3>3. ASSUME NEW j \in 1..Len(instance_list), j # k
          PROVE  \E m \in 1..(Len(instance_list) - 1) : instance_list'[m] = instance_list[j]
      <4>1. PICK m \in 1..(Len(instance_list) - 1) : (IF m < k THEN m ELSE m + 1) = j
        <5>1. CASE j < k
          <6>1. j \in 1..(Len(instance_list) - 1)
            BY <2>4, <5>1
          <6> QED
            BY <5>1, <6>1
        <5>2. CASE j > k
          <6>1. j - 1 \in 1..(Len(instance_list) - 1) /\ ~(j - 1 < k) /\ (j - 1) + 1 = j
            BY <2>4, <5>2
          <6> QED
            BY <6>1
        <5> QED
          BY <2>4, <3>3, <5>1, <5>2
      <4> QED
        BY <2>4, <4>1
    <3>4. \A p \in ToSet(instance_list') : p \in ToSet(instance_list) /\ p # o
      BY <2>2, <2>4, <2>5, <3>1, <3>2 DEF Watching, Once
    <3> QED
      BY <2>2, <3>1, <3>2, <3>3, <3>4
  <2>7. Grows /\ Disturbs
    BY <1>2, NoneAdded DEF Disturbs, Watching
  <2>8. \A j \in Instances \ {i} : Rest(j)
    BY <1>2, <2>3, <2>6 DEF Rest
  <2>9. Once'
    <3>1. ASSUME NEW m \in 1..Len(instance_list'), NEW n \in 1..Len(instance_list'),
                 instance_list'[m] = instance_list'[n]
          PROVE  m = n
      <4>1. (IF m < k THEN m ELSE m + 1) = (IF n < k THEN n ELSE n + 1)
        BY <2>4, <2>5, <3>1 DEF Watching, Once
      <4> QED
        BY <2>4, <4>1
    <3>2. ASSUME NEW p \in ToSet(instance_list'), NEW q \in ToSet(instance_list'),
                 ~disturbed'[id'[p]], id'[p] = id'[q]
          PROVE  p = q
      BY <1>2, <2>6, <3>2 DEF Watching, Once
    <3> QED
      BY <3>1, <3>2 DEF Once
  <2>10. ASSUME ~disturbed[i] PROVE Sent(h)'
    <3>1. Settled(i)
      BY <1>4, <2>10, AloneSettled
    <3>2. \A n \in Hosts : i \in watched[n] <=> host[o] = n
      <4>1. \A n : (\E p \in HostedBy(n) : id[p] = id[o]) <=> host[o] = n
        BY <2>3, <2>10, OneRecord
      <4> QED
        BY <2>3, <3>1, <4>1 DEF Settled
    <3>3. host[o] \in Hosts
      BY ListFacts DEF Typed, Recorded
    <3>4. host[o] \in node_list /\ OnlyOn(i, {host[o]})'
      BY <1>2, <3>1, <3>2, <3>3 DEF Settled, OnlyOn
    <3>5. \A p \in ToSet(instance_list') : id'[p] # i
      BY <1>2, <2>3, <2>6, <2>10 DEF Watching, Once
    <3>6. ~Protected(i)'
      BY <3>5, ProtectedNext
    <3>7. i' = i
      OBVIOUS
    <3> QED
      BY <1>2, <2>3, <3>4, <3>6, <3>7 DEF Sent, Protected, OnlyOn
  <2>11. Commands(h)' /\ Checked(h)'
    BY <1>2, <2>3, <2>10 DEF Commands, Checked
  <2>12. Watched(i)'
    <3>1. i' = i
      OBVIOUS
    <3> QED
      BY <1>2, <2>3, <3>1 DEF Watched, Unsent, Sending
  <2> QED
    BY <1>2, <1>3, <1>4, <1>5, <2>7, <2>8, <2>9, <2>11, <2>12, OneInstance
<1> QED
  BY <1>6, <1>7

\* The record is refreshed with what Nova says now.
LEMMA RefreshWatch ==
    ASSUME IInv, Typed, Typed', Watching, NEW h \in Handlers, Refresh(h)
    PROVE  Watching'
<1>1. PICK i \in Instances : i = id[object[h]] /\ i \in Working(h) /\ object[h] \in Made
  BY WorksOnObject DEF Refresh, At
<1>2. PICK o \in Made : o = object[h]
  BY <1>1
<1>3. /\ pc[h] = "refresh" /\ op' = op /\ what' = what /\ object'[h] = o /\ original' = original
      /\ UNCHANGED <<nova_host, node_list, instance_list, made, id, watched, disturbed>>
      /\ DOMAIN pc = Handlers /\ DOMAIN final = Handlers /\ DOMAIN host = Objects
      /\ o \in Objects /\ id[o] = i /\ nova_host[i] \in Hosts \cup {None}
      /\ ToSet(instance_list) \subseteq Made /\ Made \subseteq Objects
      /\ op[h] \in Updating \cup {"update_all"}
  <2>1. made \in Nat /\ made <= MaxObjects
    BY DEF Typed, Recorded
  <2>2. Made \subseteq Objects
    BY <2>1 DEF Made, Objects
  <2> QED
    BY <1>1, <1>2, <2>2, ListFacts
    DEF Refresh, Quietly, At, Typed, Recorded, Locals, IInv, Shaped, Fits, ByPlace
<1>4. \A g \in Handlers : g # h => Stays(g)
  BY HandleStays DEF Handle
<1>5. Working(h)' \subseteq Working(h) /\ pc[h] \notin Sending
  BY <1>3, WorkingOn DEF Sending
<1>6. CASE nova_host[i] = None
  <2>1. pc'[h] \in {"updates", "answer"} /\ host' = host
    BY <1>1, <1>3, <1>6 DEF Refresh, Return, Goto, Caller
  <2> QED
    BY <1>3, <1>4, <1>5, <2>1, AwayWatch DEF memory, Sending
<1>7. CASE nova_host[i] # None
  <2>1. PICK n \in Hosts : n = nova_host[i]
    BY <1>3, <1>7
  <2>2. /\ host' = [host EXCEPT ![o] = n]
        /\ IF op[h] = "update_all"
           THEN final'[h] = n /\ pc'[h] = (IF n = original[h] THEN "update all" ELSE "send add")
           ELSE final' = final /\ pc'[h] = "send add"
    BY <1>1, <1>2, <1>3, <1>7, <2>1 DEF Refresh, Goto
  <2>3. host'[o] = n /\ \A p \in Made : p # o => host'[p] = host[p]
    BY <1>3, <2>2
  <2>4. Grows /\ Disturbs
    BY <1>3, NoneAdded DEF Disturbs, Watching
  <2>5. \A j \in Instances \ {i} : Rest(j)
    BY <1>3, <2>3 DEF Rest, Made
  <2>6. Once'
    BY <1>3 DEF Once, Watching
  <2>7. ASSUME ~disturbed[i]
        PROVE  /\ o \in ToSet(instance_list) /\ host[o] = original[h] /\ Settled(i)
               /\ op[h] # "update_all" => final[h] # original[h] /\ n = final[h]
    <3>1. Sent(h)
      BY <1>2, <1>3, <2>7 DEF Watching, Commands
    <3>2. Settled(i)
      BY <1>1, <1>5, <2>7, AloneSettled
    <3> QED
      BY <1>2, <1>3, <2>1, <3>1, <3>2 DEF Sent
  <2>8. ASSUME ~disturbed[i], pc'[h] = "send add" PROVE Sent(h)'
    <3>1. final'[h] = n /\ n # original[h]
      BY <2>2, <2>7, <2>8
    <3>2. \A m \in Hosts : i \in watched[m] <=> host[o] = m
      <4>1. \A m : (\E p \in HostedBy(m) : id[p] = id[o]) <=> host[o] = m
        BY <1>3, <2>7, <2>8, OneRecord
      <4> QED
        BY <1>3, <2>7, <2>8, <4>1 DEF Settled
    <3>3. host[o] \in Hosts
      BY DEF Typed, Recorded
    <3>4. original[h] \in node_list /\ OnlyOn(i, {original[h]})'
      BY <1>3, <2>7, <2>8, <3>2, <3>3 DEF Settled, OnlyOn
    <3>5. i' = i /\ op[h] # "add_instance"
      BY <1>3 DEF Updating
    <3> QED
      BY <1>3, <2>3, <2>7, <2>8, <3>1, <3>4, <3>5 DEF Sent
  <2>9. pc'[h] \in {"send add", "update all"}
    BY <2>2
  <2>10. Commands(h)' /\ Checked(h)'
    BY <1>3, <2>8, <2>9 DEF Commands, Checked, Sending
  <2>11. ASSUME ~disturbed[i], Unsent(i)' PROVE Settled(i)'
    <3>1. n = original[h]
      BY <1>3, <2>2, <2>11 DEF Unsent, Sending
    <3>2. Rest(i)
      BY <1>3, <2>3, <2>7, <2>11, <3>1 DEF Rest, Made
    <3> QED
      BY <2>4, <2>7, <2>11, <3>2, RestSettled
  <2>12. Watched(i)'
    <3>1. i' = i
      OBVIOUS
    <3> QED
      BY <1>3, <2>11, <3>1 DEF Watched
  <2>13. nova_host' = nova_host
    BY <1>3
  <2> QED
    BY <1>1, <1>4, <1>5, <2>4, <2>5, <2>6, <2>10, <2>12, <2>13, OneInstance
<1> QED
  BY <1>6, <1>7
----------------------------------------------------------------------------
\* What the steps of a recovery leave to the other handlers.
LEMMA RecoverStays ==
    ASSUME Typed, IInv, NEW h \in Handlers, Recover(h)
    PROVE  /\ UNCHANGED <<nova_host, memory, watched, disturbed>>
           /\ \A g \in Handlers : g # h => Stays(g)
           /\ pc[h] \notin {"idle"} \cup Sending
           /\ pc'[h] \notin {"compare", "refresh", "locate", "append", "remove node"} \cup Sending
           /\ \/ pc'[h] = "idle"
              \/ op'[h] = op[h] /\ (op[h] = "recover" \/ what'[h] = what[h])
<1> USE DEF Stays, Goto, Returns, Recovering, At
<1> DEFINE Passes ==
        /\ UNCHANGED <<nova_host, memory, watched, disturbed>>
        /\ \A g \in Handlers : g # h => Stays(g)
        /\ pc[h] \notin {"idle"} \cup Sending
        /\ pc'[h] \notin {"compare", "refresh", "locate", "append", "remove node"} \cup Sending
        /\ \/ pc'[h] = "idle"
           \/ op'[h] = op[h] /\ (op[h] = "recover" \/ what'[h] = what[h])
<1>1. /\ DOMAIN pc = Handlers /\ DOMAIN op = Handlers /\ DOMAIN what = Handlers
      /\ DOMAIN object = Handlers /\ DOMAIN original = Handlers /\ DOMAIN final = Handlers
      /\ pc[h] = "updates" => op[h] = "recover"
  BY DEF IInv, Shaped, Typed, Locals, Fits, ByPlace
<1>2. ASSUME _recover_vm(h) \/ UpdatesBegin(h) PROVE Passes
  BY <1>1, <1>2 DEF _recover_vm, UpdatesBegin, Sending
<1>3. CASE undefine_instance(h)
  <2>1. \E o : object' = [object EXCEPT ![h] = o]
    BY <1>3 DEF undefine_instance
  <2>2. Goto(h, "force down") /\ Recovering /\ pc[h] = "evacuate"
    BY <1>3 DEF undefine_instance
  <2> QED
    BY <1>1, <2>1, <2>2 DEF Sending
<1>4. ASSUME _nova_service_down(h) \/ evacuate(h) \/ _nova_service_up(h) PROVE Passes
  <2>1. /\ object' = object /\ Recovering /\ pc[h] \in {"force down", "request", "force up"}
        /\ \E place \in {"request", "evacuate", "force up"} : Goto(h, place)
    BY <1>4 DEF _nova_service_down, evacuate, _nova_service_up
  <2> QED
    BY <1>1, <2>1 DEF Sending
<1>5. CASE UpdatesNext(h)
  <2>1. \E i : what' = [what EXCEPT ![h] = i] \/ what' = what
    BY <1>5 DEF UpdatesNext
  <2>2. /\ \E place \in {"boot", "update"} : Goto(h, place)
        /\ UNCHANGED <<nova_host, memory, watched, op, object, original, final, disturbed>>
        /\ pc[h] = "updates"
    BY <1>5 DEF UpdatesNext
  <2> QED
    BY <1>1, <2>1, <2>2 DEF Sending
<1>6. ASSUME Boot(h) \/ _check_node_boot_success(h) PROVE Passes
  <2>1. /\ object' = object /\ Recovering /\ pc[h] \in {"boot", "check"}
        /\ \E place \in {"check", "answer"} : Goto(h, place)
    BY <1>6 DEF Boot, _check_node_boot_success
  <2> QED
    BY <1>1, <2>1 DEF Sending
<1>7. ASSUME get_protected_instance(h) \/ hard_reboot_instance(h) \/ ValidateInstance(h) PROVE Passes
  <2>1. /\ object' = object /\ Recovering /\ pc[h] \in {"begin", "hard reboot", "validate"}
        /\ \E place \in {"hard reboot", "validate", "answer"} : Goto(h, place)
    BY <1>7 DEF get_protected_instance, hard_reboot_instance, ValidateInstance
  <2> QED
    BY <1>1, <2>1 DEF Sending
<1>8. ASSUME AnswerRecovery(h) \/ AnswerInstance(h) PROVE Passes
  <2>1. /\ Forget(h) /\ pc[h] = "answer"
        /\ UNCHANGED <<nova_host, memory, watched, disturbed>>
    BY <1>8 DEF AnswerRecovery, AnswerInstance
  <2> QED
    BY <1>1, <2>1 DEF Forget, Sending
<1> QED
  BY <1>2, <1>3, <1>4, <1>5, <1>6, <1>7, <1>8 DEF Recover

\* A recovery's own steps are no commands.
LEMMA RecoverWatch ==
    ASSUME IInv, Typed, Typed', Watching, NEW h \in Handlers, Recover(h)
    PROVE  Watching'
<1>1. Working(h)' \subseteq Working(h)
  <2>1. \/ pc'[h] = "idle"
        \/ op'[h] = op[h] /\ (op[h] = "recover" \/ what'[h] = what[h])
    BY RecoverStays
  <2>2. pc[h] # "idle"
    BY RecoverStays
  <2> QED
    BY <2>1, <2>2 DEF Working, Scope
<1> QED
  BY <1>1, RecoverStays, AwayWatch

\* Every method of Cluster.
LEMMA HandleWatch ==
    ASSUME IInv, Typed, Typed', Watching, NEW h \in Handlers, Handle(h)
    PROVE  Watching'
  BY ChecksWatch, TakesWatch, CompareWatch, NodesWatch, SendAddWatch, SendRemoveWatch, AddWatch,
     DeleteWatch, RefreshWatch DEF Handle
----------------------------------------------------------------------------
\* A handler begins: what another one is working on is disturbed.
LEMMA BeginsWatch ==
    ASSUME IInv, Typed, Typed', Watching, NEW h \in Handlers, NEW kind, NEW about,
           Begins(h, kind, about)
    PROVE  Watching'
<1>1. /\ UNCHANGED <<nova_host, memory, watched, object, original, final>>
      /\ pc[h] = "idle" /\ pc'[h] = "begin" /\ op'[h] = kind /\ what'[h] = about
      /\ \A g \in Handlers : g # h => pc'[g] = pc[g] /\ op'[g] = op[g] /\ what'[g] = what[g]
  BY DEF Begins, IInv, Shaped, Typed, Locals
<1>2. \A g \in Handlers : g # h => Stays(g) /\ Working(g)' = Working(g)
  BY <1>1 DEF Stays, Working
<1>3. Working(h) = {} /\ Working(h)' = Scope(kind, about)
  BY <1>1 DEF Working
<1>4. /\ DOMAIN disturbed' = Instances
      /\ \A i \in Instances : disturbed[i] => disturbed'[i]
      /\ \A i \in Instances, g \in Handlers :
             i \in Working(g) /\ i \in Scope(kind, about) => disturbed'[i]
  <2>1. PICK met : /\ met = UNION {Working(g) \cap Scope(kind, about) : g \in Handlers}
                   /\ disturbed' = [i \in Instances |-> disturbed[i] \/ i \in met]
    BY DEF Begins, Disturb
  <2>2. \A g \in Handlers : Working(g) \cap Scope(kind, about) \subseteq met
    BY <2>1
  <2> QED
    BY <2>1, <2>2
<1>5. Grows /\ Disturbs /\ nova_host' = nova_host
  BY <1>1, <1>4, NoneAdded DEF memory, Disturbs
<1>6. \A i \in Instances \ Working(h) : Rest(i)
  BY <1>1 DEF Rest, memory
<1>7. /\ \A g \in Handlers : g # h => Commands(g)' /\ Checked(g)'
      /\ \A i \in Instances \ Working(h) : Watched(i)'
  BY <1>2, <1>5, <1>6, Bystanders
<1>8. Commands(h)' /\ Checked(h)'
  BY <1>1 DEF Commands, Checked, Sending
<1>9. OneWorks'
  <2>1. ASSUME NEW i \in Instances, ~disturbed'[i], NEW g \in Handlers, NEW k \in Handlers,
               i \in Working(g)', i \in Working(k)'
        PROVE  g = k
    BY <1>2, <1>3, <1>4, <2>1 DEF Watching, OneWorks
  <2> QED
    BY <2>1 DEF OneWorks
<1>10. Once'
  <2>1. \A o \in ToSet(instance_list) : id[o] \in Instances
    BY ListFacts DEF Typed, Recorded
  <2> QED
    BY <1>1, <1>4, <2>1 DEF Watching, Once, memory
<1> QED
  BY <1>3, <1>4, <1>7, <1>8, <1>9, <1>10 DEF Watching

\* The world changes only where Nova names an instance, and an instance whose host it
\* changes while a handler has it to refresh is disturbed.
LEMMA OutsideWatch ==
    ASSUME IInv, Typed, Typed', Watching, UNCHANGED <<memory, watched, pc, local>>, Disturbs,
           \A h \in Handlers : pc[h] = "refresh" /\ op[h] # "update_all" /\ ~disturbed'[what[h]] =>
               nova_host'[what[h]] = nova_host[what[h]]
    PROVE  Watching'
<1>1. UNCHANGED <<op, what, object, original, final, id, host, instance_list, node_list, made>>
  BY DEF local, memory
<1>2. \A o \in ToSet(instance_list) : id[o] \in Instances
  BY ListFacts DEF Typed, Recorded
<1>3. \A h \in Handlers : Working(h)' = Working(h)
  BY <1>1 DEF Working
<1>4. OneWorks' /\ Once'
  BY <1>1, <1>2, <1>3 DEF Watching, OneWorks, Once, Disturbs
<1>5. ASSUME NEW h \in Handlers PROVE Commands(h)'
  <2>1. SUFFICES ASSUME pc[h] \in {"compare", "refresh"} \cup Sending, ~disturbed'[id[object[h]]]
                 PROVE  Sent(h)'
    BY <1>1 DEF Commands, Sending
  <2>2. id[object[h]] \in Instances /\ (pc[h] = "refresh" /\ op[h] # "update_all" => id[object[h]] = what[h])
    BY <2>1, WorksOnObject DEF Typed, Fits, About
  <2>3. Sent(h)
    BY <2>1, <2>2 DEF Watching, Commands, Disturbs
  <2>4. pc[h] = "refresh" /\ op[h] # "update_all" =>
            nova_host'[id[object[h]]] = nova_host[id[object[h]]]
    BY <2>1, <2>2
  <2> QED
    BY <1>1, <2>3, <2>4 DEF Sent, Protected, OnlyOn
<1>6. ASSUME NEW h \in Handlers PROVE Checked(h)'
  <2>1. Fits(h)
    BY DEF Typed
  <2>2. pc[h] \in {"locate", "append"} => what[h] \in Instances
    BY <2>1 DEF Fits, ByPlace, About
  <2>3. Checked(h)
    BY DEF Watching
  <2>4. \A o \in HostedBy(what[h]) : id[o] \in Instances
    BY <1>2 DEF HostedBy
  <2>5. HostedBy(what[h])' = HostedBy(what[h]) /\ (Protected(what[h])' <=> Protected(what[h]))
    BY <1>1 DEF HostedBy, Protected
  <2> QED
    BY <1>1, <2>2, <2>3, <2>4, <2>5 DEF Checked, Disturbs
<1>7. ASSUME NEW i \in Instances PROVE Watched(i)'
  BY <1>1 DEF Watching, Watched, Unsent, Settled, HostedBy, Disturbs
<1> QED
  BY <1>4, <1>5, <1>6, <1>7 DEF Watching, Disturbs

\* The hosts, Nova and the detection threads.
LEMMA WorldWatch ==
    ASSUME IInv, Typed, Typed', Watching, World \/ \E n \in Hosts : Detects(n) \/ Rechecks(n)
    PROVE  Watching'
<1>1. ASSUME UNCHANGED protectionVars PROVE Watching'
  BY <1>1, OutsideWatch DEF protectionVars, Disturbs, Watching
<1>2. ASSUME NEW i \in Instances, NEW n, UNCHANGED <<memory, watched, pc, local>>, Placed(i, n)
      PROVE  Watching'
  <2>1. DOMAIN nova_host = Instances
    BY DEF IInv, Shaped
  <2>2. /\ \A j \in Instances : j # i => nova_host'[j] = nova_host[j]
        /\ DOMAIN disturbed' = Instances /\ \A j \in Instances : disturbed[j] => disturbed'[j]
        /\ \A h \in Handlers : pc[h] = "refresh" /\ op[h] # "update_all" /\ what[h] = i => disturbed'[i]
    <3>1. nova_host' = [nova_host EXCEPT ![i] = n]
      BY <1>2 DEF Placed
    <3>2. PICK met : /\ disturbed' = [j \in Instances |-> disturbed[j] \/ j \in met]
                     /\ (\E h \in Handlers : pc[h] = "refresh" /\ op[h] # "update_all" /\ what[h] = i)
                            => i \in met
      BY <1>2 DEF Placed, Disturb
    <3> QED
      BY <2>1, <3>1, <3>2
  <2>3. \A h \in Handlers : pc[h] = "refresh" /\ op[h] # "update_all" /\ ~disturbed'[what[h]] =>
               nova_host'[what[h]] = nova_host[what[h]]
    <3>1. ASSUME NEW h \in Handlers, pc[h] = "refresh", op[h] # "update_all" PROVE what[h] \in Instances
      BY <3>1, WorksOnObject DEF Typed, Fits, About
    <3> QED
      BY <2>2, <3>1
  <2>4. Disturbs
    BY <2>2 DEF Disturbs
  <2> QED
    BY <1>2, <2>3, <2>4, OutsideWatch
<1>3. ASSUME NEW i \in Instances, Evacuates(i) PROVE Watching'
  <2>1. CASE UNCHANGED <<nova_host, disturbed>>
    BY <1>3, <2>1, OutsideWatch DEF Evacuates, Disturbs, Watching
  <2>2. CASE Placed(i, evacuating[i])
    BY <1>2, <1>3, <2>2 DEF Evacuates
  <2> QED
    BY <1>3, <2>1, <2>2 DEF Evacuates
<1>4. ASSUME NEW i \in Instances, NEW n \in Hosts \cup {None}, Migrates(i, n) PROVE Watching'
  BY <1>2, <1>4 DEF Migrates, Moves
<1>5. ASSUME NEW n \in Hosts, Breaks(n) \/ Heals(n) \/ TimesOut(n) \/ Detects(n) \/ Rechecks(n)
      PROVE  Watching'
  BY <1>1, <1>5 DEF Breaks, Heals, TimesOut, Detects, Rechecks
<1>6. ASSUME NEW i \in Instances, Crashes(i) PROVE Watching'
  BY <1>1, <1>6 DEF Crashes
<1> QED
  BY <1>3, <1>4, <1>5, <1>6 DEF World

\* The initial states: every protected instance is watched where it is recorded.
LEMMA InitWatching == Init => Watching
<1> SUFFICES ASSUME Init PROVE Watching
  OBVIOUS
<1>1. Typed
  BY InitTypes
<1>2. /\ pc = [h \in Handlers |-> "idle"] /\ disturbed = [i \in Instances |-> FALSE]
      /\ watched = [n \in Hosts |-> {id[o] : o \in HostedBy(n)}]
      /\ \A o \in ToSet(instance_list) : nova_host[id[o]] \in node_list
      /\ host = [o \in Objects |-> IF o <= made THEN nova_host[id[o]] ELSE None]
      /\ made = Cardinality(Instances)
  BY DEF Init, ProtectionInit
<1>3. /\ \A o \in Made : o \in Objects /\ o <= made
      /\ ToSet(instance_list) \subseteq Made
  <2>1. made \in Nat /\ made <= MaxObjects
    BY <1>1 DEF Typed, Recorded
  <2>2. \A o \in Made : o \in Objects /\ o <= made
    BY <2>1 DEF Made, Objects
  <2> QED
    BY <1>1, <2>2, ListFacts
<1>4. \A o, p \in Made : id[o] = id[p] => o = p
  <2>1. PICK name \in SetToSeqs(Instances) :
            id = [o \in Objects |-> IF o <= made THEN name[o] ELSE None]
    BY DEF Init, ProtectionInit
  <2>2. \A o, p \in Made : o # p => name[o] # name[p]
    BY <1>2, <2>1 DEF SetToSeqs, Made
  <2>3. \A o \in Made : id[o] = name[o]
    BY <1>3, <2>1
  <2> QED
    BY <2>2, <2>3
<1>5. \A j, k \in 1..Len(instance_list) : instance_list[j] = instance_list[k] => j = k
  <2>1. PICK set : instance_list \in SetToSeqs(set)
    BY DEF Init, ProtectionInit
  <2>2. /\ instance_list \in [1..Cardinality(set) -> set]
        /\ \A j, k \in 1..Cardinality(set) : j # k => instance_list[j] # instance_list[k]
    BY <2>1 DEF SetToSeqs
  <2>3. DOMAIN instance_list = 1..Len(instance_list)
    BY <1>1, Elements DEF Typed, Recorded
  <2> QED
    BY <2>2, <2>3
<1>6. Once
  BY <1>3, <1>4, <1>5 DEF Once
<1>7. OneWorks /\ \A h \in Handlers : Commands(h) /\ Checked(h)
  BY <1>2 DEF OneWorks, Working, Commands, Checked, Sending
<1>8. ASSUME NEW i \in Instances PROVE Settled(i)
  <2>1. ASSUME NEW n \in Hosts, NEW o \in HostedBy(n) PROVE n \in node_list
    BY <1>2, <1>3, <2>1 DEF HostedBy
  <2>2. \A n \in Hosts : watched[n] = {id[o] : o \in HostedBy(n)}
    BY <1>2
  <2> QED
    BY <2>1, <2>2 DEF Settled
<1> QED
  BY <1>2, <1>6, <1>7, <1>8 DEF Watching, Watched

\* Every step preserves it.
LEMMA NextWatching == IInv /\ Typed /\ Watching /\ [Next]_vars => Watching'
<1> SUFFICES ASSUME IInv, Typed, Watching, [Next]_vars PROVE Watching'
  OBVIOUS
<1>1. Typed'
  BY NextTypes
<1>2. ASSUME NEW h \in Handlers, Step(h) PROVE Watching'
  BY <1>1, <1>2, RecoverWatch, HandleWatch DEF Step
<1>3. ASSUME NEW h \in Handlers, Request(h) PROVE Watching'
  BY <1>1, <1>3, BeginsWatch DEF Request, Receive, RecoverInstance
<1>4. ASSUME NEW n \in Hosts, Thread(n) PROVE Watching'
  BY <1>1, <1>4, BeginsWatch, WorldWatch DEF Thread, Calls
<1>5. ASSUME World PROVE Watching'
  BY <1>1, <1>5, WorldWatch
<1>6. ASSUME UNCHANGED vars PROVE Watching'
  BY <1>1, <1>6, OutsideWatch DEF vars, protectionVars, Disturbs, Watching
<1> QED
  BY <1>2, <1>3, <1>4, <1>5, <1>6 DEF Next

\* In every state.
LEMMA WatchInvariance == Spec => [](IInv /\ Typed /\ Watching)
<1>1. Init => Watching
  BY InitWatching
<1>2. IInv /\ Typed /\ Watching /\ [Next]_vars => Watching'
  BY NextWatching
<1> QED
  BY <1>1, <1>2, TypeInvariance, PTL DEF Spec

\* The commands to the nodes alternate: whatever order the methods of Cluster run in, an
\* instance that no two of them meet is added to no node that watches it, and removed
\* from none that does not (Node.send_update_instance).
THEOREM ProtectionCommandsAlternate == Spec => []CommandsAlternate
<1>1. IInv /\ Typed /\ Watching => CommandsAlternate
  <2> SUFFICES ASSUME Typed, Watching, NEW h \in Handlers, object[h] # None,
                      ~disturbed[id[object[h]]]
               PROVE  /\ At(h, "send add") /\ final[h] \in node_list =>
                             id[object[h]] \notin watched[final[h]]
                      /\ At(h, "send remove") /\ original[h] \in node_list =>
                             id[object[h]] \in watched[original[h]]
    BY DEF CommandsAlternate
  <2>1. node_list \subseteq Hosts
    BY DEF Typed, Recorded
  <2>2. ASSUME pc[h] \in Sending PROVE Sent(h)
    BY <2>2 DEF Watching, Commands
  <2> QED
    BY <2>1, <2>2 DEF Sent, Sending, OnlyOn, At
<1> QED
  BY <1>1, WatchInvariance, PTL

\* An instance that no two methods have met is watched on the host its record names and
\* nowhere else, whenever none is at work on it, and that host is a node of the cluster
\* (Cluster, Node).
THEOREM ProtectionWatchedWhereRecorded == Spec => []WatchedWhereRecorded
<1>1. IInv /\ Typed /\ Watching => WatchedWhereRecorded
  <2> SUFFICES ASSUME Typed, Watching, NEW i \in Instances, ~disturbed[i],
                      \A h \in Handlers : i \notin Working(h)
               PROVE  Settled(i)
    BY DEF WatchedWhereRecorded, Settled
  <2>1. Unsent(i)
    BY WorksOnObject DEF Unsent
  <2> QED
    BY <2>1 DEF Watching, Watched
<1> QED
  BY <1>1, WatchInvariance, PTL
----------------------------------------------------------------------------
(***************************************************************************)
(* A recovery that has the system for itself.                              *)
(***************************************************************************)
\* Nova is about to rebuild the instance on t, where nothing is left of it, or has.
Rescued(i, n, t) ==
    \/ evacuating[i] = t /\ nova_host[i] = n /\ domain[t][i] = "none"
    \/ evacuating[i] = None /\ nova_host[i] = t /\ domain[t][i] = "on"

Evacuation == {"evacuate", "force down", "request", "force up"}

\* The objects whose evacuation has not been requested.
Left(h) == todo[h] \cup {o \in affected[h] : pc[h] \in {"force down", "request"} /\ o = object[h]}

\* Nothing else goes on, and Nova rebuilds instances on the target only.
Undisturbed(h) ==
    /\ op[h] = "recover" /\ pc[h] \notin {"hard reboot", "validate"}
    /\ \A g \in Handlers : g # h => pc[g] = "idle"
    /\ failing[h] \in Hosts
    /\ \A m \in Hosts : m # failing[h] => power[m] = "up"
    /\ power[failing[h]] = "up" => \A i \in Instances : domain[failing[h]][i] # "on"
    /\ \A i \in Instances :
           evacuating[i] # None => evacuating[i] = target[h] /\ target[h] \in Hosts \ {failing[h]}
    /\ affected[h] # {} => target[h] \in Hosts \ {failing[h]}
    /\ \A o, p \in affected[h] : id[o] = id[p] => o = p

\* It begins with every record right.
Fresh(h) ==
    pc[h] = "begin" =>
        /\ affected[h] = {}
        /\ \A i \in Instances : evacuating[i] = None
        /\ \A o \in ToSet(instance_list) : host[o] = nova_host[id[o]]
        /\ \A o, p \in ToSet(instance_list) : id[o] = id[p] => o = p

\* An instance that is left is where it was, the others are rescued.
Saving(h) ==
    pc[h] \in Evacuation =>
        /\ Left(h) \subseteq affected[h]
        /\ \A o \in Left(h) : evacuating[id[o]] = None /\ nova_host[id[o]] = failing[h]
        /\ \A o \in affected[h] \ Left(h) : Rescued(id[o], failing[h], target[h])
        /\ pc[h] \in {"force down", "request"} =>
               /\ object[h] \in affected[h] \ todo[h]
               /\ domain[target[h]][id[object[h]]] = "none"
        /\ pc[h] = "request" => failing[h] \in forced

\* After the evacuations all of them are, and a success means that the node is up.
Saved(h) ==
    /\ pc[h] \notin {"begin", "answer"} \cup Evacuation =>
           \A o \in affected[h] : Rescued(id[o], failing[h], target[h])
    /\ pc[h] = "answer" /\ result[h] = "true" =>
           /\ power[failing[h]] = "up"
           /\ \A o \in affected[h] : Rescued(id[o], failing[h], target[h])

CalmFor(h) == Undisturbed(h) /\ Fresh(h) /\ Saving(h) /\ Saved(h)

Calm ==
    /\ DOMAIN calm = Handlers
    /\ \A h \in Handlers : op[h] # "recover" => affected[h] = {} /\ todo[h] = {}
    /\ \A h \in Handlers : calm[h] => CalmFor(h)
----------------------------------------------------------------------------
\* Where only one handler moves, it is the one that has the system for itself, or none is.
LEMMA OneCalm ==
    ASSUME Calm, NEW h \in Handlers, pc[h] # "idle", DOMAIN calm' = Handlers,
           \A g \in Handlers : calm'[g] => calm[g],
           \A g \in Handlers : op'[g] # "recover" => affected'[g] = {} /\ todo'[g] = {},
           CalmFor(h) /\ calm'[h] => CalmFor(h)'
    PROVE  Calm'
<1>1. ASSUME NEW g \in Handlers, calm'[g] PROVE CalmFor(g)'
  <2>1. CalmFor(g)
    BY <1>1 DEF Calm
  <2>2. g = h
    BY <2>1 DEF CalmFor, Undisturbed
  <2> QED
    BY <1>1, <2>1, <2>2
<1> QED
  BY <1>1 DEF Calm

\* The history of a step: it goes on, or ends for all.
LEMMA CalmOr ==
    ASSUME Calm, UNCHANGED calm \/ Unrest
    PROVE  DOMAIN calm' = Handlers /\ \A g \in Handlers : calm'[g] => calm[g]
<1>1. CASE UNCHANGED calm
  BY <1>1 DEF Calm
<1>2. CASE Unrest
  <2>1. DOMAIN calm' = Handlers /\ \A g \in Handlers : calm'[g] = FALSE
    BY <1>2 DEF Unrest
  <2> QED
    BY <2>1
<1> QED
  BY <1>1, <1>2

\* What the affected instances are, and the variables' domains.
LEMMA CalmFacts ==
    ASSUME IInv, Typed, NEW h \in Handlers
    PROVE  /\ affected[h] \subseteq Made /\ todo[h] \subseteq Made
           /\ \A o \in Made : id[o] \in Instances
           /\ DOMAIN pc = Handlers /\ DOMAIN op = Handlers /\ DOMAIN target = Handlers
           /\ DOMAIN todo = Handlers /\ DOMAIN affected = Handlers /\ DOMAIN object = Handlers
           /\ DOMAIN result = Handlers /\ DOMAIN evacuating = Instances
           /\ power \in [Hosts -> {"up", "cut", "off"}]
           /\ domain \in [Hosts -> [Instances -> {"none", "off", "on"}]]
  BY DEF IInv, Shaped, Typed, Recorded, Locals, Fits

\* Nothing else happens to a recovery while its own handler goes on.
LEMMA UndisturbedStays ==
    ASSUME IInv, Typed, NEW h \in Handlers, Undisturbed(h), NEW place, Goto(h, place),
           place \notin {"hard reboot", "validate"},
           op' = op, failing' = failing, target'[h] = target[h], affected'[h] = affected[h],
           id' = id, power' = power,
           \A i \in Instances : evacuating'[i] # None =>
               evacuating'[i] = target[h] /\ target[h] \in Hosts \ {failing[h]},
           \A i \in Instances : domain'[failing[h]][i] = "on" => domain[failing[h]][i] = "on"
    PROVE  Undisturbed(h)' /\ pc'[h] = place
<1>1. pc'[h] = place /\ \A g \in Handlers : g # h => pc'[g] = pc[g]
  BY CalmFacts DEF Goto
<1> QED
  BY <1>1 DEF Undisturbed

\* The same where the cloud is left alone, too.
LEMMA UndisturbedGoes ==
    ASSUME IInv, Typed, NEW h \in Handlers, Undisturbed(h), NEW place, Goto(h, place),
           place \notin {"hard reboot", "validate"},
           op' = op, failing' = failing, target'[h] = target[h], affected'[h] = affected[h],
           id' = id, power' = power, evacuating' = evacuating, domain' = domain
    PROVE  Undisturbed(h)' /\ pc'[h] = place
<1>1. \A i \in Instances : evacuating'[i] # None =>
          evacuating'[i] = target[h] /\ target[h] \in Hosts \ {failing[h]}
  BY DEF Undisturbed
<1> QED
  BY <1>1, UndisturbedStays

\* The methods of Cluster: nothing happens in the cloud.
LEMMA HandleCalm ==
    ASSUME IInv, Typed, NEW h \in Handlers, CalmFor(h), Handle(h), UNCHANGED failoverVars
    PROVE  CalmFor(h)'
<1>1. op[h] = "recover" /\ Fits(h)
  BY DEF CalmFor, Undisturbed, Typed
<1>2. /\ UpdateNext(h) \/ Compare(h) \/ Refresh(h) \/ SendAdd(h) \/ SendRemove(h)
      /\ pc[h] \in {"update", "compare", "refresh", "send add", "send remove"}
  BY <1>1 DEF Handle, add_node, delete_node, RemoveNode, AddInstanceChecks, _check_instance_host,
              add_instance, delete_instance, DeleteNext, update_instance_host, UpdateNext, Compare,
              update_instance, UpdateAllNext, Refresh, SendAdd, SendRemove, Answer, Loops, At, Kinds,
              Fits, ByPlace
<1>3. /\ UNCHANGED <<nova_host, id, op, failing, target, affected, result>>
      /\ UNCHANGED <<power, domain, evacuating, forced>>
  BY <1>2 DEF UpdateNext, Compare, Refresh, SendAdd, SendRemove, Quietly, memory, local,
              failoverVars, recovery, cloud
<1>4. PICK place \in {"updates", "update", "compare", "refresh", "send add", "send remove"} :
          Goto(h, place)
  BY <1>1, <1>2 DEF UpdateNext, Compare, Refresh, SendAdd, SendRemove, NoneLeft, Raises, Return, Caller
<1>5. Undisturbed(h)' /\ pc'[h] = place
  BY <1>3, <1>4, UndisturbedGoes DEF CalmFor
<1>6. \A o \in affected[h] : Rescued(id[o], failing[h], target[h])
  BY <1>2 DEF CalmFor, Saved, Evacuation
<1>7. Saved(h)'
  BY <1>3, <1>4, <1>5, <1>6 DEF Saved, Rescued
<1> QED
  BY <1>4, <1>5, <1>7 DEF CalmFor, Fresh, Saving, Evacuation

\* The recovery starts from the records.
LEMMA RecoverVmCalm ==
    ASSUME IInv, Typed, NEW h \in Handlers, CalmFor(h), _recover_vm(h)
    PROVE  CalmFor(h)'
<1> DEFINE n == failing[h]
<1>1. /\ UNCHANGED <<nova_host, memory, op, failing>> /\ UNCHANGED <<cloud, object>>
      /\ pc[h] = "begin" /\ op[h] = "recover"
  BY DEF _recover_vm, Recovering, At
<1>2. UNCHANGED <<id, host, instance_list, power, domain, evacuating, forced>>
  BY <1>1 DEF memory, cloud
<1>3. Undisturbed(h) /\ Fresh(h) /\ affected[h] = {} /\ n \in Hosts
  BY <1>1 DEF CalmFor, Undisturbed, Fresh
<1>4. ASSUME NEW place \in {"answer", "boot"}, Goto(h, place), UNCHANGED <<target, affected>>,
             place = "answer" => result'[h] = "raised"
      PROVE  CalmFor(h)'
  <2>1. Undisturbed(h)' /\ pc'[h] = place
    BY <1>1, <1>2, <1>3, <1>4, UndisturbedGoes
  <2> QED
    BY <1>2, <1>3, <1>4, <2>1 DEF CalmFor, Fresh, Saving, Saved, Evacuation
<1>5. CASE n \notin node_list
  BY <1>4, <1>5, CalmFacts DEF _recover_vm, Returns
<1>6. CASE n \in node_list /\ Cardinality(node_list) < 2
  BY <1>4, <1>6 DEF _recover_vm
<1>7. CASE n \in node_list /\ ~(Cardinality(node_list) < 2)
  <2>1. PICK t \in node_list \ {n} : target' = [target EXCEPT ![h] = t]
    BY <1>7 DEF _recover_vm
  <2>2. /\ affected' = [affected EXCEPT ![h] = HostedBy(n)]
        /\ todo' = [todo EXCEPT ![h] = HostedBy(n)] /\ Goto(h, "evacuate")
    BY <1>7 DEF _recover_vm
  <2>3. /\ target'[h] = t /\ affected'[h] = HostedBy(n) /\ todo'[h] = HostedBy(n)
        /\ pc'[h] = "evacuate" /\ \A g \in Handlers : g # h => pc'[g] = pc[g]
        /\ t \in Hosts \ {n}
    BY <2>1, <2>2, CalmFacts DEF Goto, Typed, Recorded
  <2>4. /\ HostedBy(n) \subseteq ToSet(instance_list) /\ ToSet(instance_list) \subseteq Made
        /\ \A o \in HostedBy(n) : id[o] \in Instances /\ host[o] = n
    BY ListFacts, CalmFacts DEF HostedBy
  <2>5. /\ \A i \in Instances : evacuating[i] = None
        /\ \A o \in HostedBy(n) : nova_host[id[o]] = n
        /\ \A o, p \in HostedBy(n) : id[o] = id[p] => o = p
    BY <1>1, <1>3, <2>4 DEF Fresh
  <2>6. Undisturbed(h)'
    BY <1>1, <1>2, <1>3, <2>3, <2>5 DEF Undisturbed
  <2>7. Left(h)' = affected'[h] /\ Left(h)' = HostedBy(n)
    BY <2>3 DEF Left
  <2>8. Saving(h)'
    BY <1>1, <1>2, <2>3, <2>4, <2>5, <2>7 DEF Saving
  <2>9. Fresh(h)' /\ Saved(h)'
    BY <2>3 DEF Fresh, Saved, Evacuation
  <2> QED
    BY <2>6, <2>8, <2>9 DEF CalmFor
<1> QED
  BY <1>5, <1>6, <1>7

\* What the target has of the instance is destroyed.
LEMMA UndefineCalm ==
    ASSUME IInv, Typed, NEW h \in Handlers, CalmFor(h), undefine_instance(h), ~Unrest
    PROVE  CalmFor(h)'
<1> DEFINE n == failing[h]
           t == target[h]
<1>1. PICK o \in todo[h] : object' = [object EXCEPT ![h] = o] /\ todo' = [todo EXCEPT ![h] = @ \ {o}]
  BY DEF undefine_instance
<1>2. /\ UNCHANGED <<nova_host, memory, op, failing>>
      /\ UNCHANGED <<power, forced, evacuating, target, affected, result>>
      /\ pc[h] = "evacuate" /\ Goto(h, "force down")
  BY DEF undefine_instance, Recovering, At
<1>3. /\ Undisturbed(h) /\ Saving(h) /\ id' = id
      /\ Left(h) = todo[h] /\ todo[h] \subseteq affected[h]
      /\ \A p \in todo[h] : evacuating[id[p]] = None /\ nova_host[id[p]] = n
      /\ \A p \in affected[h] \ todo[h] : Rescued(id[p], n, t)
  <2>1. Left(h) = todo[h]
    BY <1>2 DEF Left
  <2> QED
    BY <1>2, <2>1 DEF CalmFor, Saving, Evacuation, memory
<1>4. n \in Hosts /\ t \in Hosts \ {n} /\ id[o] \in Instances /\ o \in affected[h]
  BY <1>1, <1>3, CalmFacts DEF Undisturbed
<1>5. power[t] = "up"
  BY <1>3, <1>4 DEF Undisturbed
<1>6. Domain(t, id[o], "none")
  <2>1. \/ power[t] = "up" /\ (\E p \in todo[h] : object' = [object EXCEPT ![h] = p] /\ Domain(t, id[p], "none"))
        \/ power[t] # "up" \/ Unrest
    BY DEF undefine_instance
  <2>2. PICK p \in todo[h] : object' = [object EXCEPT ![h] = p] /\ Domain(t, id[p], "none")
    BY <1>5, <2>1
  <2>3. p = o
    BY <1>1, <2>2, CalmFacts
  <2> QED
    BY <2>2, <2>3
<1>7. /\ domain'[t][id[o]] = "none"
      /\ \A i \in Instances : i # id[o] => domain'[t][i] = domain[t][i]
      /\ \A i \in Instances : domain'[n][i] = domain[n][i]
  BY <1>4, <1>6, DomainMoves DEF IInv
<1> HIDE DEF n, t
<1>8. /\ object'[h] = o /\ todo'[h] = todo[h] \ {o} /\ target'[h] = target[h]
      /\ affected'[h] = affected[h]
  BY <1>1, <1>2, CalmFacts
<1>9. Undisturbed(h)' /\ pc'[h] = "force down"
  <2>1. /\ \A i \in Instances : evacuating'[i] # None =>
               evacuating'[i] = target[h] /\ target[h] \in Hosts \ {failing[h]}
        /\ \A i \in Instances : domain'[failing[h]][i] = "on" => domain[failing[h]][i] = "on"
    BY <1>2, <1>3, <1>7 DEF Undisturbed, n
  <2> QED
    BY <1>2, <1>3, <1>8, <2>1, UndisturbedStays
<1>10. Left(h)' = todo[h]
  <2>1. Left(h)' = (todo[h] \ {o}) \cup {p \in affected[h] : p = o}
    BY <1>8, <1>9 DEF Left
  <2> QED
    BY <1>4, <2>1
<1>11. \A p \in affected[h] \ todo[h] : id[p] # id[o] /\ id[p] \in Instances
  BY <1>3, <1>4, CalmFacts DEF Undisturbed
<1>12. Saving(h)'
  <2>1. \A p \in affected[h] \ todo[h] : Rescued(id[p], n, t)'
    BY <1>2, <1>3, <1>7, <1>8, <1>11 DEF Rescued, n, t
  <2>2. \A p \in todo[h] : evacuating'[id'[p]] = None /\ nova_host'[id'[p]] = failing'[h]
    BY <1>2, <1>3 DEF n
  <2>3. /\ object'[h] \in affected'[h] \ todo'[h]
        /\ domain'[target'[h]][id'[object'[h]]] = "none"
    BY <1>3, <1>4, <1>7, <1>8 DEF t
  <2>4. Left(h)' \subseteq affected'[h]
    BY <1>3, <1>8, <1>10
  <2> QED
    BY <1>3, <1>8, <1>9, <1>10, <2>1, <2>2, <2>3, <2>4 DEF Saving, n, t
<1> QED
  BY <1>9, <1>12 DEF CalmFor, Fresh, Saved, Evacuation

\* Nova is told that the node is down, or up again.
LEMMA ForceCalm ==
    ASSUME IInv, Typed, NEW h \in Handlers, CalmFor(h), ~Unrest,
           _nova_service_down(h) \/ _nova_service_up(h)
    PROVE  CalmFor(h)'
<1>1. /\ UNCHANGED <<nova_host, memory, op, failing>>
      /\ UNCHANGED <<power, domain, evacuating, object, target, affected, todo>>
      /\ \/ pc[h] = "force down" /\ Goto(h, "request") /\ failing[h] \in forced'
         \/ pc[h] = "force up" /\ Goto(h, "evacuate")
  BY DEF _nova_service_down, _nova_service_up, Recovering, At
<1>2. PICK place : /\ Goto(h, place)
                   /\ \/ pc[h] = "force down" /\ place = "request" /\ failing[h] \in forced'
                      \/ pc[h] = "force up" /\ place = "evacuate"
  BY <1>1
<1>3. Undisturbed(h)' /\ pc'[h] = place /\ id' = id
  BY <1>1, <1>2, UndisturbedGoes DEF CalmFor, memory
<1>4. Left(h)' = Left(h)
  BY <1>1, <1>2, <1>3 DEF Left
<1>5. Saving(h)
  BY DEF CalmFor
<1>6. Saving(h)'
  BY <1>1, <1>2, <1>3, <1>4, <1>5 DEF Saving, Evacuation, Rescued
<1> QED
  BY <1>2, <1>3, <1>6 DEF CalmFor, Fresh, Saved, Evacuation

\* Nova is asked to rebuild the instance, and accepts.
LEMMA EvacuateCalm ==
    ASSUME IInv, Typed, NEW h \in Handlers, CalmFor(h), evacuate(h)
    PROVE  CalmFor(h)'
<1> DEFINE n == failing[h]
           t == target[h]
<1>1. /\ UNCHANGED <<nova_host, memory, op, failing>>
      /\ UNCHANGED <<power, domain, forced, object, target, affected, todo>>
      /\ pc[h] = "request"
  BY DEF evacuate, Recovering, At
<1>2. PICK o \in affected[h] \ todo[h] : o = object[h]
  BY <1>1 DEF CalmFor, Saving, Evacuation
<1>3. /\ Undisturbed(h) /\ id' = id /\ n \in Hosts /\ t \in Hosts \ {n}
      /\ id[o] \in Instances /\ domain[t][id[o]] = "none" /\ n \in forced
  <2>1. o \in affected[h] /\ id[o] \in Instances
    BY <1>2, CalmFacts
  <2> QED
    BY <1>1, <1>2, <2>1 DEF CalmFor, Undisturbed, Saving, Evacuation, memory
<1>4. Left(h) = todo[h] \cup {o}
  BY <1>1, <1>2 DEF Left
<1>5. /\ todo[h] \cup {o} \subseteq affected[h]
      /\ \A p \in todo[h] \cup {o} : evacuating[id[p]] = None /\ nova_host[id[p]] = n
      /\ \A p \in affected[h] \ (todo[h] \cup {o}) : Rescued(id[p], n, t)
  BY <1>1, <1>4 DEF CalmFor, Saving, Evacuation
<1>6. evacuating' = [evacuating EXCEPT ![id[o]] = t] /\ Goto(h, "force up")
  <2>1. evacuating[id[o]] = None /\ nova_host[id[o]] = n /\ n # None /\ n # t
    BY <1>3, <1>5, NoneIsNoHost
  <2> QED
    BY <1>2, <1>3, <2>1 DEF evacuate
<1>7. /\ evacuating'[id[o]] = t
      /\ \A i \in Instances : i # id[o] => evacuating'[i] = evacuating[i]
  BY <1>3, <1>6, CalmFacts
<1> HIDE DEF n, t
<1>8. Undisturbed(h)' /\ pc'[h] = "force up"
  <2>1. /\ \A i \in Instances : evacuating'[i] # None =>
               evacuating'[i] = target[h] /\ target[h] \in Hosts \ {failing[h]}
    BY <1>3, <1>7 DEF Undisturbed, n, t
  <2> QED
    BY <1>1, <1>3, <1>6, <2>1, UndisturbedStays
<1>9. Left(h)' = todo[h]
  BY <1>1, <1>8 DEF Left
<1>10. \A p \in affected[h] : p # o => id[p] # id[o]
  BY <1>2, <1>3 DEF Undisturbed
<1>11. \A p \in affected[h] : id[p] \in Instances
  BY CalmFacts
<1>12. \A p \in todo[h] : evacuating'[id[p]] = None /\ nova_host[id[p]] = n
  BY <1>2, <1>5, <1>7, <1>10, <1>11
<1>13. \A p \in affected[h] \ todo[h] : Rescued(id[p], n, t)'
  <2>1. Rescued(id[o], n, t)'
    BY <1>1, <1>3, <1>5, <1>7 DEF Rescued, n, t
  <2>2. ASSUME NEW p \in affected[h] \ (todo[h] \cup {o}) PROVE Rescued(id[p], n, t)'
    BY <1>1, <1>3, <1>5, <1>7, <1>10, <1>11, <2>2 DEF Rescued, n, t
  <2> QED
    BY <2>1, <2>2
<1>14. Saving(h)'
  BY <1>1, <1>3, <1>5, <1>8, <1>9, <1>12, <1>13 DEF Saving, n, t
<1> QED
  BY <1>8, <1>14 DEF CalmFor, Fresh, Saved, Evacuation

\* The evacuations are over, and the hosts are updated one after the other.
LEMMA UpdatesCalm ==
    ASSUME IInv, Typed, NEW h \in Handlers, CalmFor(h), UpdatesBegin(h) \/ UpdatesNext(h)
    PROVE  CalmFor(h)'
<1>1. /\ UNCHANGED <<nova_host, memory, op, failing>>
      /\ UNCHANGED <<power, domain, evacuating, target, affected>>
  BY DEF UpdatesBegin, UpdatesNext, Recovering, cloud
<1>2. PICK place \in {"updates", "update", "boot"} : Goto(h, place)
  BY DEF UpdatesBegin, UpdatesNext
<1>3. Undisturbed(h)' /\ pc'[h] = place /\ id' = id
  BY <1>1, <1>2, UndisturbedGoes DEF CalmFor, memory
<1>4. \A o \in affected[h] : Rescued(id[o], failing[h], target[h])
  <2>1. CASE UpdatesBegin(h)
    <3>1. pc[h] = "evacuate" /\ Left(h) = {}
      BY <2>1 DEF UpdatesBegin, Left, At
    <3> QED
      BY <3>1 DEF CalmFor, Saving, Evacuation
  <2>2. CASE UpdatesNext(h)
    BY <2>2 DEF UpdatesNext, At, CalmFor, Saved, Evacuation
  <2> QED
    BY <2>1, <2>2
<1>5. Saved(h)'
  BY <1>1, <1>3, <1>4 DEF Saved, Rescued
<1> QED
  BY <1>2, <1>3, <1>5 DEF CalmFor, Fresh, Saving, Evacuation

\* The node is restarted: nothing runs on it any more, and the target is another.
LEMMA BootCalm ==
    ASSUME IInv, Typed, NEW h \in Handlers, CalmFor(h), Boot(h), ~Unrest
    PROVE  CalmFor(h)'
<1> DEFINE n == failing[h]
<1>1. /\ UNCHANGED <<nova_host, memory, op, failing>>
      /\ UNCHANGED <<evacuating, target, affected>>
      /\ pc[h] = "boot" /\ Goto(h, "check")
  BY DEF Boot, Recovering, At
<1>2. /\ Undisturbed(h) /\ id' = id /\ n \in Hosts
      /\ \A o \in affected[h] : Rescued(id[o], n, target[h])
  BY <1>1 DEF CalmFor, Undisturbed, Saved, Evacuation, memory
<1>3. \/ UNCHANGED <<power, domain>>
      \/ power' = [power EXCEPT ![n] = "up"] /\ domain' = [domain EXCEPT ![n] = Halted(n)]
  BY DEF Boot
<1>4. /\ \A m \in Hosts : m # n => power'[m] = power[m] /\ domain'[m] = domain[m]
      /\ power'[n] = "up" => \A i \in Instances : domain'[n][i] # "on"
  <2>1. CASE UNCHANGED <<power, domain>>
    BY <1>2, <2>1 DEF Undisturbed
  <2>2. CASE power' = [power EXCEPT ![n] = "up"] /\ domain' = [domain EXCEPT ![n] = Halted(n)]
    <3>1. \A m \in Hosts : m # n => power'[m] = power[m] /\ domain'[m] = domain[m]
      BY <2>2, CalmFacts
    <3>2. domain'[n] = Halted(n)
      BY <1>2, <2>2, CalmFacts
    <3>3. \A i \in Instances : Halted(n)[i] # "on"
      BY DEF Halted
    <3> QED
      BY <3>1, <3>2, <3>3
  <2> QED
    BY <1>3, <2>1, <2>2
<1> HIDE DEF n
<1>5. pc'[h] = "check" /\ \A g \in Handlers : g # h => pc'[g] = pc[g]
  BY <1>1, CalmFacts DEF Goto
<1>6. Undisturbed(h)'
  BY <1>1, <1>2, <1>4, <1>5 DEF Undisturbed, n
<1>7. \A o \in affected[h] : Rescued(id[o], n, target[h])'
  <2>1. affected[h] # {} => domain'[target[h]] = domain[target[h]]
    BY <1>2, <1>4 DEF Undisturbed, n
  <2> QED
    BY <1>1, <1>2, <2>1 DEF Rescued, n
<1>8. Saved(h)'
  BY <1>1, <1>2, <1>5, <1>7 DEF Saved, n
<1> QED
  BY <1>5, <1>6, <1>8 DEF CalmFor, Fresh, Saving, Evacuation

\* The node is pinged.
LEMMA CheckCalm ==
    ASSUME IInv, Typed, NEW h \in Handlers, CalmFor(h), _check_node_boot_success(h)
    PROVE  CalmFor(h)'
<1>1. /\ UNCHANGED <<nova_host, memory, op, failing>>
      /\ UNCHANGED <<power, domain, evacuating, target, affected>>
      /\ pc[h] = "check" /\ Goto(h, "answer")
      /\ result' = [result EXCEPT ![h] = IF power[failing[h]] = "up" THEN "true" ELSE "false"]
  BY DEF _check_node_boot_success, Recovering, Returns, At, cloud
<1>2. Undisturbed(h)' /\ pc'[h] = "answer" /\ id' = id
  BY <1>1, UndisturbedGoes DEF CalmFor, memory
<1>3. \A o \in affected[h] : Rescued(id[o], failing[h], target[h])
  BY <1>1 DEF CalmFor, Saved, Evacuation
<1>4. result'[h] = "true" => power[failing[h]] = "up"
  BY <1>1, CalmFacts
<1>5. Saved(h)'
  BY <1>1, <1>2, <1>3, <1>4 DEF Saved, Rescued
<1> QED
  BY <1>2, <1>5 DEF CalmFor, Fresh, Saving, Evacuation

\* Only a recovery of a node has instances to evacuate.
LEMMA RecoverOps ==
    ASSUME IInv, Typed, NEW h \in Handlers, Recover(h)
    PROVE  /\ UNCHANGED calm \/ Unrest \/ calm' = [calm EXCEPT ![h] = FALSE]
           /\ pc[h] # "idle"
           /\ \A g \in Handlers : g # h =>
                  op'[g] = op[g] /\ affected'[g] = affected[g] /\ todo'[g] = todo[g]
           /\ \/ op[h] = "recover" /\ op'[h] = "recover"
              \/ affected'[h] = affected[h] /\ todo'[h] = todo[h] /\ op[h] # "recover"
              \/ affected'[h] = {} /\ todo'[h] = {}
<1> DEFINE Passes ==
        /\ UNCHANGED calm \/ Unrest \/ calm' = [calm EXCEPT ![h] = FALSE]
        /\ pc[h] # "idle"
        /\ \A g \in Handlers : g # h =>
               op'[g] = op[g] /\ affected'[g] = affected[g] /\ todo'[g] = todo[g]
        /\ \/ op[h] = "recover" /\ op'[h] = "recover"
           \/ affected'[h] = affected[h] /\ todo'[h] = todo[h] /\ op[h] # "recover"
           \/ affected'[h] = {} /\ todo'[h] = {}
<1>1. /\ DOMAIN affected = Handlers /\ DOMAIN todo = Handlers /\ DOMAIN op = Handlers
      /\ pc[h] \in Evacuation \cup {"updates"} => op[h] = "recover"
  BY CalmFacts DEF Typed, Fits, ByPlace, Evacuation
<1>2. CASE _recover_vm(h)
  BY <1>1, <1>2 DEF _recover_vm, Recovering, NoFault, At
<1>3. CASE undefine_instance(h)
  <2>1. /\ op' = op /\ UNCHANGED affected /\ pc[h] = "evacuate"
        /\ UNCHANGED calm \/ Unrest
        /\ \E o \in todo[h] : todo' = [todo EXCEPT ![h] = @ \ {o}]
    BY <1>3 DEF undefine_instance, Recovering, NoFault, At
  <2> QED
    BY <1>1, <2>1 DEF Evacuation
<1>4. CASE _nova_service_down(h) \/ evacuate(h) \/ _nova_service_up(h)
  <2>1. /\ op' = op /\ UNCHANGED <<affected, todo>> /\ pc[h] \in Evacuation
        /\ UNCHANGED calm \/ Unrest
    BY <1>4 DEF _nova_service_down, evacuate, _nova_service_up, Recovering, NoFault, At, Evacuation
  <2> QED
    BY <1>1, <2>1 DEF Evacuation
<1>5. CASE UpdatesBegin(h) \/ UpdatesNext(h)
  <2>1. /\ op' = op /\ UNCHANGED affected /\ pc[h] \in {"evacuate", "updates"}
        /\ UNCHANGED calm
        /\ \E s : todo' = [todo EXCEPT ![h] = s] \/ todo' = todo
    BY <1>5 DEF UpdatesBegin, UpdatesNext, Recovering, NoFault, At
  <2> QED
    BY <1>1, <2>1 DEF Evacuation
<1>6. CASE Boot(h) \/ _check_node_boot_success(h) \/ get_protected_instance(h)
              \/ hard_reboot_instance(h) \/ ValidateInstance(h)
  <2>1. /\ op' = op /\ UNCHANGED <<affected, todo>>
        /\ pc[h] \in {"begin", "boot", "check", "hard reboot", "validate"}
        /\ UNCHANGED calm \/ Unrest
    BY <1>6 DEF Boot, _check_node_boot_success, get_protected_instance, hard_reboot_instance,
                ValidateInstance, Recovering, NoFault, At
  <2> QED
    BY <1>1, <2>1
<1>7. CASE AnswerRecovery(h)
  <2>1. /\ op' = [op EXCEPT ![h] = None] /\ affected' = [affected EXCEPT ![h] = {}]
        /\ todo' = [todo EXCEPT ![h] = {}] /\ calm' = [calm EXCEPT ![h] = FALSE] /\ pc[h] = "answer"
    BY <1>7 DEF AnswerRecovery, Forget, At
  <2> QED
    BY <1>1, <2>1
<1>8. CASE AnswerInstance(h)
  <2>1. /\ op' = [op EXCEPT ![h] = None] /\ UNCHANGED <<affected, todo, calm>>
        /\ pc[h] = "answer" /\ op[h] = "recover_instance"
    BY <1>8 DEF AnswerInstance, Forget, At, history
  <2> QED
    BY <1>1, <2>1
<1> QED
  BY <1>2, <1>3, <1>4, <1>5, <1>6, <1>7, <1>8 DEF Recover

\* Every step of a recovery.
LEMMA RecoverCalm ==
    ASSUME IInv, Typed, Calm, NEW h \in Handlers, Recover(h)
    PROVE  Calm'
<1>1. /\ DOMAIN calm' = Handlers /\ \A g \in Handlers : calm'[g] => calm[g]
      /\ calm' = [calm EXCEPT ![h] = FALSE] => calm'[h] = FALSE
      /\ Unrest => calm'[h] = FALSE
  <2>1. CASE calm' = [calm EXCEPT ![h] = FALSE]
    <3>1. DOMAIN calm' = Handlers /\ \A g \in Handlers : calm'[g] = (IF g = h THEN FALSE ELSE calm[g])
      BY <2>1 DEF Calm
    <3> QED
      BY <3>1 DEF Unrest
  <2>2. CASE UNCHANGED calm \/ Unrest
    <3>1. calm' = [calm EXCEPT ![h] = FALSE] => calm'[h] = FALSE
      BY DEF Calm
    <3> QED
      BY <2>2, <3>1, CalmOr DEF Unrest
  <2> QED
    BY <2>1, <2>2, RecoverOps
<1>2. /\ pc[h] # "idle"
      /\ \A g \in Handlers : op'[g] # "recover" => affected'[g] = {} /\ todo'[g] = {}
  <2>1. \A g \in Handlers : g # h =>
            op'[g] = op[g] /\ affected'[g] = affected[g] /\ todo'[g] = todo[g]
    BY RecoverOps
  <2>2. pc[h] # "idle" /\ (\/ op[h] = "recover" /\ op'[h] = "recover"
                           \/ affected'[h] = affected[h] /\ todo'[h] = todo[h] /\ op[h] # "recover"
                           \/ affected'[h] = {} /\ todo'[h] = {})
    BY RecoverOps
  <2> QED
    BY <2>1, <2>2 DEF Calm
<1>3. ASSUME CalmFor(h), calm'[h] PROVE CalmFor(h)'
  <2>1. op[h] = "recover" /\ pc[h] \notin {"hard reboot", "validate"} /\ ~Unrest
    BY <1>1, <1>3 DEF CalmFor, Undisturbed
  <2>2. ~AnswerRecovery(h)
    BY <1>1, <1>3 DEF AnswerRecovery
  <2>3. ~(get_protected_instance(h) \/ hard_reboot_instance(h) \/ ValidateInstance(h)
          \/ AnswerInstance(h))
    BY <2>1 DEF get_protected_instance, hard_reboot_instance, ValidateInstance, AnswerInstance, At
  <2> QED
    BY <1>3, <2>1, <2>2, <2>3, RecoverVmCalm, UndefineCalm, ForceCalm, EvacuateCalm, UpdatesCalm,
       BootCalm, CheckCalm DEF Recover
<1> QED
  BY <1>1, <1>2, <1>3, OneCalm

\* Every step of a handler.
LEMMA StepCalm ==
    ASSUME IInv, Typed, Calm, NEW h \in Handlers, Step(h)
    PROVE  Calm'
<1>1. ASSUME Handle(h), UNCHANGED failoverVars PROVE Calm'
  <2>1. /\ \A g \in Handlers : g # h => op'[g] = op[g]
        /\ failing[h] # None => op'[h] = op[h]
    BY <1>1, HandleMoves DEF OnlySelf
  <2>2. op[h] = "recover" => failing[h] # None
    BY DEF Typed, Fits
  <2>3. UNCHANGED <<affected, todo, calm>>
    BY <1>1 DEF failoverVars, recovery, history
  <2>4. \A g \in Handlers : op'[g] # "recover" => affected'[g] = {} /\ todo'[g] = {}
    BY <2>1, <2>2, <2>3 DEF Calm
  <2>5. pc[h] # "idle"
    BY <1>1 DEF Handle, add_node, delete_node, RemoveNode, AddInstanceChecks, _check_instance_host,
                add_instance, delete_instance, DeleteNext, update_instance_host, UpdateNext, Compare,
                update_instance, UpdateAllNext, Refresh, SendAdd, SendRemove, Answer, Loops, At
  <2>6. DOMAIN calm' = Handlers /\ \A g \in Handlers : calm'[g] => calm[g]
    BY <2>3, CalmOr
  <2> QED
    BY <1>1, <2>4, <2>5, <2>6, OneCalm, HandleCalm
<1> QED
  BY <1>1, RecoverCalm DEF Step
----------------------------------------------------------------------------
\* A handler that begins has nothing to evacuate.
LEMMA BeginsClean ==
    ASSUME IInv, Typed, Calm, NEW h \in Handlers, NEW kind, NEW about, Begins(h, kind, about),
           UNCHANGED <<affected, todo>>
    PROVE  /\ pc'[h] = "begin" /\ op'[h] = kind /\ affected'[h] = {} /\ todo'[h] = {}
           /\ \A g \in Handlers : g # h => pc'[g] = pc[g] /\ op'[g] = op[g]
           /\ \A g \in Handlers : op'[g] # "recover" => affected'[g] = {} /\ todo'[g] = {}
<1>1. pc[h] = "idle" /\ pc' = [pc EXCEPT ![h] = "begin"] /\ op' = [op EXCEPT ![h] = kind]
  BY DEF Begins
<1>2. op[h] # "recover"
  BY <1>1 DEF IInv, Recovers, Typed, Fits
<1> QED
  BY <1>1, <1>2, CalmFacts DEF Calm

\* A request ends every calm.
LEMMA RequestCalm ==
    ASSUME IInv, Typed, Calm, NEW h \in Handlers, Request(h)
    PROVE  Calm'
<1>1. Unrest /\ UNCHANGED <<affected, todo>> /\ \E kind, about : Begins(h, kind, about)
  BY DEF Request, Receive, RecoverInstance, recovery
<1>2. \A g \in Handlers : op'[g] # "recover" => affected'[g] = {} /\ todo'[g] = {}
  BY <1>1, BeginsClean
<1>3. DOMAIN calm' = Handlers /\ \A g \in Handlers : calm'[g] = FALSE
  BY <1>1 DEF Unrest
<1> QED
  BY <1>2, <1>3 DEF Calm

\* A call that finds nothing else going on.
LEMMA CallsCalm ==
    ASSUME IInv, Typed, Calm, NEW n \in Hosts, NEW h \in Handlers, Calls(n, h)
    PROVE  Calm'
<1>1. /\ Begins(h, "recover", None) /\ UNCHANGED <<affected, todo, target>>
      /\ UNCHANGED <<nova_host, instance_list, id, host, power, domain, evacuating>>
      /\ failing' = [failing EXCEPT ![h] = n]
      /\ calm' = [g \in Handlers |-> g = h /\ Alone(n)]
  BY DEF Calls, Begins, memory, cloud
<1>2. /\ pc'[h] = "begin" /\ op'[h] = "recover" /\ affected'[h] = {} /\ todo'[h] = {}
      /\ \A g \in Handlers : g # h => pc'[g] = pc[g] /\ op'[g] = op[g]
      /\ \A g \in Handlers : op'[g] # "recover" => affected'[g] = {} /\ todo'[g] = {}
  BY <1>1, BeginsClean
<1>3. failing'[h] = n
  BY <1>1 DEF IInv, Shaped
<1>4. DOMAIN calm' = Handlers /\ \A g \in Handlers : calm'[g] => g = h /\ Alone(n)
  BY <1>1
<1>5. ASSUME Alone(n) PROVE CalmFor(h)'
  <2>1. Undisturbed(h)'
    BY <1>1, <1>2, <1>3, <1>5 DEF Undisturbed, Alone
  <2>2. Fresh(h)'
    BY <1>1, <1>2, <1>5 DEF Fresh, Alone
  <2> QED
    BY <1>2, <2>1, <2>2 DEF CalmFor, Saving, Saved, Evacuation
<1> QED
  BY <1>2, <1>4, <1>5 DEF Calm

\* What happens without the handlers and the cloud.
LEMMA AsideCalm ==
    ASSUME Calm, UNCHANGED <<protectionVars, cloud, recovery, calm>>
    PROVE  Calm'
<1>1. /\ UNCHANGED <<pc, op, object, nova_host, instance_list, id, host>>
      /\ UNCHANGED <<power, domain, forced, evacuating, failing, target, affected, todo, result>>
  BY DEF protectionVars, memory, local, cloud, recovery
<1>2. ASSUME NEW h \in Handlers, CalmFor(h) PROVE CalmFor(h)'
  <2>1. Undisturbed(h)' /\ Fresh(h)'
    BY <1>1, <1>2 DEF CalmFor, Undisturbed, Fresh
  <2>2. Left(h)' = Left(h)
    BY <1>1 DEF Left
  <2>3. Saving(h)' /\ Saved(h)'
    BY <1>1, <1>2, <2>2 DEF CalmFor, Saving, Saved, Rescued
  <2> QED
    BY <2>1, <2>3 DEF CalmFor
<1> QED
  BY <1>1, <1>2 DEF Calm

\* Nova rebuilds an instance where the recovery has asked for it.
LEMMA EvacuatesCalm ==
    ASSUME IInv, Typed, Calm, NEW i \in Instances, Evacuates(i)
    PROVE  Calm'
<1>1. /\ UNCHANGED <<pc, op, object, instance_list, id, host>>
      /\ UNCHANGED <<power, forced, failing, target, affected, todo, result, calm>>
      /\ evacuating[i] # None /\ evacuating' = [evacuating EXCEPT ![i] = None]
  BY DEF Evacuates, memory, local, recovery, history
<1>2. /\ evacuating'[i] = None
      /\ \A j \in Instances : j # i => evacuating'[j] = evacuating[j]
  BY <1>1 DEF IInv, Shaped
<1>3. PICK t : t = evacuating[i]
  OBVIOUS
<1>4. \/ UNCHANGED <<domain, nova_host>> /\ ~(power[t] = "up" /\ domain[t][i] = "none")
      \/ power[t] = "up" /\ Domain(t, i, "on") /\ nova_host' = [nova_host EXCEPT ![i] = t]
  BY <1>3 DEF Evacuates, Placed
<1>5. ASSUME NEW h \in Handlers, CalmFor(h) PROVE CalmFor(h)'
  <2>0. PICK n \in Hosts : n = failing[h]
    BY <1>5 DEF CalmFor, Undisturbed
  <2>1. t = target[h] /\ t \in Hosts \ {n} /\ power[t] = "up" /\ pc[h] # "begin"
    BY <1>1, <1>3, <1>5, <2>0 DEF CalmFor, Undisturbed, Fresh
  <2>2. /\ \A j \in Instances : j # i => domain'[t][j] = domain[t][j] /\ nova_host'[j] = nova_host[j]
        /\ \A j \in Instances : domain'[n][j] = domain[n][j]
        /\ domain[t][i] = "none" => domain'[t][i] = "on" /\ nova_host'[i] = t
    <3>1. CASE UNCHANGED <<domain, nova_host>> /\ ~(power[t] = "up" /\ domain[t][i] = "none")
      BY <2>1, <3>1
    <3>2. CASE power[t] = "up" /\ Domain(t, i, "on") /\ nova_host' = [nova_host EXCEPT ![i] = t]
      <4>1. \A j \in Instances : j # i => nova_host'[j] = nova_host[j]
        BY <3>2 DEF IInv, Shaped
      <4>2. nova_host'[i] = t
        BY <3>2 DEF IInv, Shaped
      <4> QED
        BY <2>1, <3>2, <4>1, <4>2, DomainMoves DEF IInv
    <3> QED
      BY <1>4, <3>1, <3>2
  <2>3. Undisturbed(h)' /\ Fresh(h)'
    <3>1. /\ \A j \in Instances : evacuating'[j] # None => evacuating[j] # None /\ evacuating'[j] = evacuating[j]
          /\ \A j \in Instances : domain'[failing[h]][j] = domain[failing[h]][j]
      BY <1>2, <2>0, <2>2
    <3>2. Undisturbed(h)
      BY <1>5 DEF CalmFor
    <3>3. Undisturbed(h)'
      BY <1>1, <3>1, <3>2 DEF Undisturbed
    <3> QED
      BY <1>1, <2>1, <3>3 DEF Fresh
  <2>4. ASSUME NEW j \in Instances, Rescued(j, n, t) PROVE Rescued(j, n, t)'
    BY <1>2, <1>3, <2>0, <2>1, <2>2, <2>4, NoneIsNoHost DEF Rescued
  <2>5. \A o \in affected[h] : id[o] \in Instances
    BY CalmFacts
  <2>6. Left(h)' = Left(h)
    BY <1>1 DEF Left
  <2>7. Saving(h)'
    <3>1. SUFFICES ASSUME pc[h] \in Evacuation PROVE Saving(h)'
      BY <1>1 DEF Saving
    <3>2. /\ Left(h) \subseteq affected[h]
          /\ \A o \in Left(h) : evacuating[id[o]] = None /\ nova_host[id[o]] = n
          /\ \A o \in affected[h] \ Left(h) : Rescued(id[o], n, t)
          /\ pc[h] \in {"force down", "request"} =>
               /\ object[h] \in affected[h] \ todo[h] /\ object[h] \in Left(h)
               /\ domain[t][id[object[h]]] = "none"
          /\ pc[h] = "request" => n \in forced
      BY <1>5, <2>0, <2>1, <3>1 DEF CalmFor, Saving, Left
    <3>3. \A o \in Left(h) : id[o] # i /\ id[o] \in Instances
      BY <1>1, <2>5, <3>2
    <3>4. \A o \in Left(h) : evacuating'[id[o]] = None /\ nova_host'[id[o]] = n
      BY <1>2, <2>2, <3>2, <3>3
    <3>5. \A o \in affected[h] \ Left(h) : Rescued(id[o], n, t)'
      BY <1>1, <2>4, <2>5, <3>2 DEF Rescued
    <3>6. pc[h] \in {"force down", "request"} => domain'[t][id[object[h]]] = "none"
      BY <2>2, <3>2, <3>3
    <3> QED
      BY <1>1, <2>0, <2>1, <2>6, <3>2, <3>4, <3>5, <3>6 DEF Saving
  <2>8. Saved(h)'
    <3>1. ASSUME \A o \in affected[h] : Rescued(id[o], n, t)
          PROVE  \A o \in affected[h] : Rescued(id[o], n, t)'
      BY <1>1, <2>4, <2>5, <3>1 DEF Rescued
    <3> QED
      BY <1>1, <1>5, <2>0, <2>1, <3>1 DEF CalmFor, Saved
  <2> QED
    BY <2>3, <2>7, <2>8 DEF CalmFor
<1> QED
  BY <1>1, <1>5 DEF Calm

\* The hosts, Nova and the detection threads.
LEMMA WorldCalm ==
    ASSUME IInv, Typed, Calm, World \/ \E n \in Hosts : Detects(n) \/ Rechecks(n)
    PROVE  Calm'
<1>1. ASSUME Unrest, UNCHANGED <<op, affected, todo>> PROVE Calm'
  <2>1. DOMAIN calm' = Handlers /\ \A h \in Handlers : calm'[h] = FALSE
    BY <1>1 DEF Unrest
  <2> QED
    BY <1>1, <2>1 DEF Calm
<1>2. ASSUME NEW n \in Hosts, Breaks(n) \/ Heals(n) PROVE Calm'
  BY <1>1, <1>2 DEF Breaks, Heals, protectionVars, local, recovery
<1>3. ASSUME NEW n \in Hosts, TimesOut(n) \/ Detects(n) \/ Rechecks(n) PROVE Calm'
  BY <1>3, AsideCalm DEF TimesOut, Detects, Rechecks, history
<1>4. ASSUME NEW i \in Instances, Crashes(i) PROVE Calm'
  BY <1>1, <1>4 DEF Crashes, protectionVars, local, recovery
<1>5. ASSUME NEW i \in Instances, NEW n \in Hosts \cup {None}, Migrates(i, n) PROVE Calm'
  BY <1>1, <1>5 DEF Migrates, Moves, local, recovery
<1> QED
  BY <1>2, <1>3, <1>4, <1>5, EvacuatesCalm DEF World

\* In every state.
LEMMA CalmInvariance == Spec => [](IInv /\ Typed /\ Calm)
<1>1. Init => Calm
  BY DEF Init, ProtectionInit, Calm
<1>2. IInv /\ Typed /\ Calm /\ [Next]_vars => Calm'
  <2> SUFFICES ASSUME IInv, Typed, Calm, [Next]_vars PROVE Calm'
    OBVIOUS
  <2>1. ASSUME NEW n \in Hosts, Thread(n) PROVE Calm'
    BY <2>1, CallsCalm, WorldCalm DEF Thread
  <2>2. ASSUME UNCHANGED vars PROVE Calm'
    BY <2>2, AsideCalm DEF vars, failoverVars, history
  <2> QED
    BY <2>1, <2>2, StepCalm, RequestCalm, WorldCalm DEF Next
<1> QED
  BY <1>1, <1>2, TypeInvariance, PTL DEF Spec

\* A recovery that had the system for itself and is about to answer with success has left
\* no affected instance behind: none runs on the node, and each runs or is being rebuilt
\* elsewhere (RecoveryManager, NovaClient.evacuate).
THEOREM FailoverRecoveredMeansSafe == Spec => []RecoveredMeansSafe
<1>1. IInv /\ Typed /\ Calm => RecoveredMeansSafe
  <2> SUFFICES ASSUME IInv, Typed, Calm, NEW h \in Handlers,
                      pc[h] = "answer", result[h] = "true", calm[h],
                      NEW o \in affected[h]
               PROVE  /\ domain[failing[h]][id[o]] # "on"
                      /\ \/ evacuating[id[o]] # None
                         \/ /\ nova_host[id[o]] # failing[h]
                            /\ domain[nova_host[id[o]]][id[o]] = "on"
    BY DEF RecoveredMeansSafe, At
  <2>1. Undisturbed(h) /\ Saved(h)
    BY DEF Calm, CalmFor
  <2>2. id[o] \in Instances
    BY CalmFacts
  <2>3. target[h] \in Hosts \ {failing[h]} /\ target[h] # None
    BY <2>1, NoneIsNoHost DEF Undisturbed
  <2> QED
    BY <2>1, <2>2, <2>3 DEF Undisturbed, Saved, Rescued
<1> QED
  BY <1>1, CalmInvariance, PTL
=============================================================================
