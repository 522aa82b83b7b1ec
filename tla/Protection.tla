----------------------------- MODULE Protection -----------------------------
(***************************************************************************)
(* One cluster's instances (Cluster) and what its nodes have been told to  *)
(* watch (Node.send_update_instance).  The handlers of the REST service    *)
(* run the methods of Cluster side by side: a method stops wherever it     *)
(* asks Nova, and before each command it sends.                            *)
(*                                                                         *)
(* watched[n] is what the detector of n watches once it has obeyed the     *)
(* commands sent so far: WatchList promises that it obeys them in order.   *)
(* Clusters, answers and the database are in Registry.                     *)
(***************************************************************************)
EXTENDS Naturals, FiniteSets, SequencesExt

CONSTANTS
    Hosts,         \* the compute hosts of the cloud
    Instances,
    Handlers,      \* the threads of the REST service
    None,          \* Python's None; the host of an instance that is deleted
    MaxObjects,    \* bound: Instance objects
    MaxRequests,   \* bound: requests of users and of detection threads
    MaxMoves       \* bound: migrations and deletions by the users of the cloud

ASSUME NoneIsNoHost == None \notin Hosts
ASSUME MaxObjectsTyped == MaxObjects \in Nat
\* There is an Instance object for every instance there is in the beginning.
ASSUME InstancesFit == IsFiniteSet(Instances) /\ Cardinality(Instances) <= MaxObjects
ASSUME NoneIsNoMethod == None \notin {"add_node", "delete_node", "add_instance", "delete_instance",
                                      "update_instance_host", "update_all", "recover",
                                      "recover_instance"}

VARIABLES
    nova_host,      \* the host Nova names for each instance
    node_list,      \* the nodes of the cluster
    instance_list,  \* the Instance objects of the cluster, in order
    made,           \* how many Instance objects there have been
    id, host,       \* of each Instance object
    watched,        \* the instances the node watches
    pc, op, what,   \* of each handler: where it is, its method, the argument
    object,         \* the Instance object it works on
    original, final,  \* original_host and final_host
    index,          \* the place in instance_list of the element it looks at next
    requests, moves,
    disturbed       \* history: has something met the handling of the instance?

memory == <<node_list, instance_list, made, id, host>>
local  == <<op, what, object, original, final, index>>
protectionVars == <<nova_host, memory, watched, pc, local, requests, moves, disturbed>>

Objects == 1..MaxObjects
Kinds == {"add_node", "delete_node", "add_instance", "delete_instance",
          "update_instance_host", "update_all"}

Protected(i) == \E k \in 1..Len(instance_list) : id[instance_list[k]] = i
HostedBy(n) == {o \in ToSet(instance_list) : host[o] = n}

\* The instances a handler may be working on.
Scope(kind, about) ==
    IF kind \in {"add_instance", "delete_instance", "update_instance_host"} THEN {about}
    ELSE Instances
Working(h) == IF pc[h] = "idle" THEN {} ELSE Scope(op[h], what[h])

\* The cluster as it has been loaded, with one Instance object for every instance
\* that is protected, and the instances outside it that are not.
ProtectionInit ==
    /\ node_list \in SUBSET Hosts
    /\ nova_host \in [Instances -> Hosts]
    /\ instance_list \in UNION {SetToSeqs(set) : set \in SUBSET (1..Cardinality(Instances))}
    /\ made = Cardinality(Instances)
    /\ id \in {[o \in Objects |-> IF o <= made THEN name[o] ELSE None] :
                   name \in SetToSeqs(Instances)}
    /\ \A o \in ToSet(instance_list) : nova_host[id[o]] \in node_list
    /\ host = [o \in Objects |-> IF o <= made THEN nova_host[id[o]] ELSE None]
    /\ watched = [n \in Hosts |-> {id[o] : o \in HostedBy(n)}]
    /\ pc = [h \in Handlers |-> "idle"]
    /\ op = [h \in Handlers |-> None] /\ what = [h \in Handlers |-> None]
    /\ object = [h \in Handlers |-> None]
    /\ original = [h \in Handlers |-> None] /\ final = [h \in Handlers |-> None]
    /\ index = [h \in Handlers |-> 1]
    /\ requests = 0 /\ moves = 0
    /\ disturbed = [i \in Instances |-> FALSE]
----------------------------------------------------------------------------
(***************************************************************************)
(* Nova and the requests.                                                  *)
(***************************************************************************)
Disturb(set) == disturbed' = [i \in Instances |-> disturbed[i] \/ i \in set]

\* Nova names n for i from now on.  update_instance_host asks twice for the host: one
\* that changes in between is told to the wrong node.
Placed(i, n) ==
    /\ nova_host' = [nova_host EXCEPT ![i] = n]
    /\ Disturb(IF \E h \in Handlers : pc[h] = "refresh" /\ op[h] # "update_all" /\ what[h] = i
               THEN {i} ELSE {})

Moves(i, n) ==
    /\ moves < MaxMoves /\ moves' = moves + 1
    /\ nova_host[i] \notin {None, n}
    /\ Placed(i, n)
    /\ UNCHANGED <<memory, watched, pc, local, requests>>

Begins(h, kind, about) ==
    /\ pc[h] = "idle" /\ pc' = [pc EXCEPT ![h] = "begin"]
    /\ op' = [op EXCEPT ![h] = kind] /\ what' = [what EXCEPT ![h] = about]
    /\ Disturb(UNION {Working(g) \cap Scope(kind, about) : g \in Handlers})
    /\ UNCHANGED <<nova_host, memory, watched, object, original, final, index, moves>>

Receive(h, kind, about) ==
    /\ requests < MaxRequests /\ requests' = requests + 1
    /\ \/ kind \in {"add_node", "delete_node"} /\ about \in Hosts
       \/ kind \in {"add_instance", "delete_instance", "update_instance_host"} /\ about \in Instances
       \/ kind = "update_all" /\ about = None
    /\ Begins(h, kind, about)

At(h, place) == pc[h] = place
Goto(h, place) == pc' = [pc EXCEPT ![h] = place]

\* A handler that has answered keeps nothing.
Forget(h) ==
    /\ Goto(h, "idle")
    /\ op' = [op EXCEPT ![h] = None] /\ what' = [what EXCEPT ![h] = None]
    /\ object' = [object EXCEPT ![h] = None]
    /\ original' = [original EXCEPT ![h] = None] /\ final' = [final EXCEPT ![h] = None]
    /\ index' = [index EXCEPT ![h] = 1]

Answer(h) ==
    /\ At(h, "answer") /\ op[h] \in Kinds
    /\ Forget(h)
    /\ UNCHANGED <<nova_host, memory, watched, requests, moves, disturbed>>

\* Where a method returns to: a recovery updates the host of one instance after the
\* other, everything else answers.
Caller(h) == IF op[h] = "recover" THEN "updates" ELSE "answer"
Return(h) == Goto(h, Caller(h))
----------------------------------------------------------------------------
(***************************************************************************)
(* Nodes.                                                                  *)
(***************************************************************************)
\* What a handler changes besides where it is.
OnlyNodes == UNCHANGED <<nova_host, instance_list, made, id, host, local, requests, moves, disturbed>>

\* The new Node object's thread watches nothing yet.
add_node(h) ==
    /\ At(h, "begin") /\ op[h] = "add_node" /\ Return(h)
    /\ node_list' = node_list \cup {what[h]}
    /\ watched' = IF what[h] \in node_list THEN watched ELSE [watched EXCEPT ![what[h]] = {}]
    /\ OnlyNodes

\* Mutant: the protected instances are not counted.
delete_node_Unchecked(h) ==
    /\ At(h, "begin") /\ op[h] = "delete_node"
    /\ IF what[h] \in node_list THEN Goto(h, "remove node") ELSE Return(h)
    /\ UNCHANGED <<node_list, watched>> /\ OnlyNodes

\* Only a node without protected instances is deleted ...
delete_node(h) ==
    /\ At(h, "begin") /\ op[h] = "delete_node"
    /\ IF what[h] \in node_list /\ HostedBy(what[h]) = {} THEN Goto(h, "remove node") ELSE Return(h)
    /\ UNCHANGED <<node_list, watched>> /\ OnlyNodes

\* ... and its thread and queue with it.
RemoveNode(h) ==
    /\ At(h, "remove node") /\ Return(h)
    /\ node_list' = node_list \ {what[h]}
    /\ watched' = [watched EXCEPT ![what[h]] = {}]
    /\ OnlyNodes
----------------------------------------------------------------------------
(***************************************************************************)
(* Commands to a node.  get_node_by_name returns None for a host that is   *)
(* no node of the cluster, sending to it raises, and the method ends.      *)
(***************************************************************************)
Raises(h, i) == Return(h) /\ Disturb({i}) /\ UNCHANGED watched

\* ADD_INSTANCE or EVACUATE_INSTANCE, sent to the final host.
SendAdd(h) ==
    /\ At(h, "send add")
    /\ LET i == id[object[h]]
       IN  IF final[h] \notin node_list THEN Raises(h, i)
           ELSE /\ watched' = [watched EXCEPT ![final[h]] = @ \cup {i}]
                /\ Goto(h, IF op[h] = "add_instance" THEN "answer" ELSE "send remove")
                /\ UNCHANGED disturbed
    /\ UNCHANGED <<nova_host, memory, local, requests, moves>>

\* REMOVE_INSTANCE, sent to the original host.  The first instance of the id ends
\* update_instance_host; the loops of the other methods go on.
SendRemove(h) ==
    /\ At(h, "send remove")
    /\ LET i == id[object[h]]
       IN  IF original[h] \notin node_list THEN Raises(h, i)
           ELSE /\ watched' = [watched EXCEPT ![original[h]] = @ \ {i}]
                /\ Goto(h, IF op[h] = "delete_instance" THEN "delete"
                           ELSE IF op[h] = "update_all" THEN "update all" ELSE Caller(h))
                /\ UNCHANGED disturbed
    /\ UNCHANGED <<nova_host, memory, local, requests, moves>>
----------------------------------------------------------------------------
(***************************************************************************)
(* Instances.                                                              *)
(***************************************************************************)
Quietly == UNCHANGED <<nova_host, node_list, watched, op, what, requests, moves, disturbed>>

AddInstanceChecks(h) ==
    /\ At(h, "begin") /\ op[h] = "add_instance"
    /\ IF Protected(what[h]) \/ nova_host[what[h]] = None THEN Return(h) ELSE Goto(h, "locate")
    /\ Quietly /\ UNCHANGED <<instance_list, made, id, host, object, original, final, index>>

_check_instance_host(h) ==
    /\ At(h, "locate")
    /\ final' = [final EXCEPT ![h] = nova_host[what[h]]]
    /\ IF nova_host[what[h]] \in node_list THEN Goto(h, "append") ELSE Return(h)
    /\ Quietly /\ UNCHANGED <<instance_list, made, id, host, object, original, index>>

add_instance(h) ==
    /\ At(h, "append") /\ made < MaxObjects
    /\ made' = made + 1
    /\ id' = [id EXCEPT ![made + 1] = what[h]]
    /\ host' = [host EXCEPT ![made + 1] = final[h]]
    /\ instance_list' = Append(instance_list, made + 1)
    /\ object' = [object EXCEPT ![h] = made + 1]
    /\ Goto(h, "send add")
    /\ Quietly /\ UNCHANGED <<original, final, index>>

\* The loops over instance_list see it as it is when they come to an element.
Loops(h, kinds, place) ==
    /\ At(h, "begin") /\ op[h] \in kinds /\ Goto(h, place)
    /\ index' = [index EXCEPT ![h] = 1]
    /\ Quietly /\ UNCHANGED <<instance_list, made, id, host, object, original, final>>

delete_instance(h) == Loops(h, {"delete_instance"}, "delete")
update_instance_host(h) == Loops(h, {"update_instance_host"}, "update")
update_instance(h) == Loops(h, {"update_all"}, "update all")

\* The elements that the loop of h has not passed and that are about the instance i.
Ahead(h, i) == {k \in index[h]..Len(instance_list) : id[instance_list[k]] = i}

Takes(h, k) ==
    /\ object' = [object EXCEPT ![h] = instance_list[k]]
    /\ original' = [original EXCEPT ![h] = host[instance_list[k]]]
    /\ index' = [index EXCEPT ![h] = k + 1]

NoneLeft(h) == Return(h) /\ UNCHANGED <<object, original, index>>

\* The element is removed from the list that is being iterated: the one behind it is
\* not looked at.
DeleteNext(h) ==
    /\ At(h, "delete")
    /\ IF Ahead(h, what[h]) = {} THEN NoneLeft(h) /\ UNCHANGED instance_list
       ELSE LET k == Min(Ahead(h, what[h]))
            IN  /\ Takes(h, k)
                /\ instance_list' = RemoveAt(instance_list, k)
                /\ Goto(h, "send remove")
    /\ Quietly /\ UNCHANGED <<made, id, host, final>>

UpdateNext(h) ==
    /\ At(h, "update")
    /\ IF Ahead(h, what[h]) = {} THEN NoneLeft(h)
       ELSE Takes(h, Min(Ahead(h, what[h]))) /\ Goto(h, "compare")
    /\ Quietly /\ UNCHANGED <<instance_list, made, id, host, final>>

\* Nova is asked for the host: it waits until the instance is active, but not for
\* ever, and a deleted instance raises.
Compare(h) ==
    /\ At(h, "compare")
    /\ LET now == nova_host[id[object[h]]]
       IN  IF now = None THEN Return(h) /\ UNCHANGED final
           ELSE /\ final' = [final EXCEPT ![h] = now]
                /\ Goto(h, IF now = original[h] THEN "update" ELSE "refresh")
    /\ Quietly /\ UNCHANGED <<instance_list, made, id, host, object, original, index>>

UpdateAllNext(h) ==
    /\ At(h, "update all")
    /\ IF index[h] > Len(instance_list) THEN NoneLeft(h)
       ELSE Takes(h, index[h]) /\ Goto(h, "refresh")
    /\ Quietly /\ UNCHANGED <<instance_list, made, id, host, final>>

\* Mutant: what Nova raises about a deleted instance is swallowed.
Refresh_Swallowed(h) ==
    /\ At(h, "refresh")
    /\ LET now == nova_host[id[object[h]]]
       IN  /\ host' = [host EXCEPT ![object[h]] = now]
           /\ final' = [final EXCEPT ![h] = now]
           /\ Goto(h, "send add")
    /\ Quietly /\ UNCHANGED <<instance_list, made, id, object, original, index>>

\* Mutant: the hosts are not compared.
Refresh_Always(h) ==
    /\ At(h, "refresh")
    /\ LET now == nova_host[id[object[h]]]
       IN  IF now = None THEN Return(h) /\ UNCHANGED <<host, final>>
           ELSE /\ host' = [host EXCEPT ![object[h]] = now]
                /\ final' = [final EXCEPT ![h] = IF op[h] = "update_all" THEN now ELSE @]
                /\ Goto(h, "send add")
    /\ Quietly /\ UNCHANGED <<instance_list, made, id, object, original, index>>

\* Instance.update_info asks again; update_all compares only now.
Refresh(h) ==
    /\ At(h, "refresh")
    /\ LET now == nova_host[id[object[h]]]
       IN  IF now = None THEN Return(h) /\ UNCHANGED <<host, final>>
           ELSE /\ host' = [host EXCEPT ![object[h]] = now]
                /\ IF op[h] = "update_all"
                   THEN /\ final' = [final EXCEPT ![h] = now]
                        /\ Goto(h, IF now = original[h] THEN "update all" ELSE "send add")
                   ELSE Goto(h, "send add") /\ UNCHANGED final
    /\ Quietly /\ UNCHANGED <<instance_list, made, id, object, original, index>>
----------------------------------------------------------------------------
Handle(h) ==
    \/ add_node(h) \/ delete_node(h) \/ RemoveNode(h)
    \/ AddInstanceChecks(h) \/ _check_instance_host(h) \/ add_instance(h)
    \/ delete_instance(h) \/ DeleteNext(h)
    \/ update_instance_host(h) \/ UpdateNext(h) \/ Compare(h)
    \/ update_instance(h) \/ UpdateAllNext(h) \/ Refresh(h)
    \/ SendAdd(h) \/ SendRemove(h) \/ Answer(h)

ProtectionNext ==
    \/ \E h \in Handlers : Handle(h)
    \/ \E h \in Handlers, kind \in Kinds, about \in Hosts \cup Instances \cup {None} :
           Receive(h, kind, about)
    \/ \E i \in Instances, n \in Hosts \cup {None} : Moves(i, n)

ProtectionSpec == ProtectionInit /\ [][ProtectionNext]_protectionVars
----------------------------------------------------------------------------
Places == {"idle", "begin", "answer", "remove node", "locate", "append", "send add",
           "send remove", "delete", "update", "compare", "update all", "refresh"}

\* Every variable has its type, and a handler has what it needs where it needs it.
HandlerTypeOK(h) ==
    /\ object[h] \in Objects \cup {None}
    /\ original[h] \in Hosts \cup {None} /\ final[h] \in Hosts \cup {None}
    /\ index[h] \in Nat \ {0}
    /\ pc[h] \in {"send add", "send remove", "compare", "refresh"} => object[h] \in Objects
    /\ pc[h] = "append" => final[h] \in Hosts
    /\ pc[h] \in {"locate", "append", "delete", "update"} => what[h] \in Instances

ProtectionTypeOK ==
    /\ nova_host \in [Instances -> Hosts \cup {None}]
    /\ node_list \subseteq Hosts
    /\ instance_list \in Seq(Objects)
    /\ made \in 0..MaxObjects
    /\ \A o \in ToSet(instance_list) : id[o] \in Instances /\ host[o] \in Hosts
    /\ watched \in [Hosts -> SUBSET Instances]
    /\ \A h \in Handlers : HandlerTypeOK(h)

\* An instance that nothing has met is watched on the host its record names, and
\* nowhere else, whenever no handler is at work on it; that host has a thread.
WatchedWhereRecorded ==
    \A i \in Instances :
        ~disturbed[i] /\ (\A h \in Handlers : i \notin Working(h)) =>
            \A n \in Hosts :
                /\ i \in watched[n] <=> \E o \in HostedBy(n) : id[o] = i
                /\ i \in watched[n] => n \in node_list

\* What WatchList expects of its environment: the commands about an instance that
\* nothing has met alternate on every node, an addition for an instance that is not
\* watched and a removal for one that is.
CommandsAlternate ==
    \A h \in Handlers :
        object[h] # None /\ ~disturbed[id[object[h]]] =>
            /\ At(h, "send add") /\ final[h] \in node_list => id[object[h]] \notin watched[final[h]]
            /\ At(h, "send remove") /\ original[h] \in node_list =>
                   id[object[h]] \in watched[original[h]]
=============================================================================
