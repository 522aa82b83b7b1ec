------------------------- MODULE RegistrySaveProofs -------------------------
(***************************************************************************)
(* Proofs about the saves of Registry, for all sets and bounds: while a    *)
(* save that nothing disturbs writes the tables, they hold exactly the     *)
(* rows that it has gone over (Progress), and none of its rows breaks a    *)
(* key.  So a crash in the middle loses rows and brings none back, only    *)
(* trouble closes the cursor, and a success has been saved.  And when saves*)
(* meet, they still lose nothing as long as the cursor is open: each row of*)
(* the memory is in the tables, or some thread will write it (KInv).       *)
(***************************************************************************)
EXTENDS RegistryProofs

\* No request has met the one of the thread t, and no fault of the database either.
Undisturbed(t) == ~overlapped /\ ~hit[t] /\ server

\* A fault is noticed by the requests that are under way and by the loading.
Faults ==
    /\ DOMAIN hit = Threads
    /\ ~failed => \A t \in Threads : ~hit[t]
    /\ alive /\ ~failed => server
    /\ loading /\ ~hit[Loader] => server
    /\ loading \/ ~alive => ~overlapped

\* The primary and the foreign keys of the tables.
Keys ==
    /\ \A r, s \in ha_node : r.node = s.node => r = s
    /\ \A r, s \in ha_instance : r.id = s.id => r = s
    /\ \A r \in ha_node \cup ha_instance : r.cluster \in ha_cluster

\* The rows of the clusters in C, and the clusters whose rows a save has begun to write.
NodeRowsOf(C) == UNION {{NodeRow(n, c) : n \in NodesOf(cluster_dict[c])} : c \in C}
InstanceRowsOf(C) == UNION {{InstanceRow(i, c) : i \in Ids(cluster_dict[c])} : c \in C}
Begun(t) == {c \in Clusters : \A pair \in todo[t] : pair[1] # c}

\* The rows of the elements of a list that a save has gone over.
NodesBefore(list, k, c) == {NodeRow(list[j], c) : j \in 1..(k - 1)}
InstancesBefore(list, k, c) == {InstanceRow(list[j].id, c) : j \in 1..(k - 1)}

\* What the tables hold while the thread t saves.
Emptied == ha_cluster = {} /\ ha_node = {} /\ ha_instance = {}

WritesNodes(t) ==
    LET c == writing[t][1]
        list == node_list[cluster_dict[c]]
    IN  /\ position[t] <= Len(list) + 1
        /\ ha_node = NodeRowsOf(Begun(t) \ {c}) \cup NodesBefore(list, position[t], c)
        /\ ha_instance = InstanceRowsOf(Begun(t) \ {c})

WritesInstances(t) ==
    LET c == writing[t][1]
        list == instance_list[cluster_dict[c]]
    IN  /\ position[t] <= Len(list) + 1
        /\ ha_node = NodeRowsOf(Begun(t))
        /\ ha_instance = InstanceRowsOf(Begun(t) \ {c}) \cup InstancesBefore(list, position[t], c)

WritePlaces == {"write", "write nodes", "write instances"}

Progress(t) ==
    /\ pc[t] \in {"reset", "fill"} \cup WritePlaces => cursor = "open"
    /\ pc[t] # "idle" /\ request[t].op = "fill_cluster" => cursor = "open"
    /\ pc[t] = "reset" => position[t] \in 1..3 /\ (position[t] # 1 => Emptied)
    /\ pc[t] \in WritePlaces =>
           /\ \A pair \in todo[t] : pair[1] \in Clusters /\ pair[2] = cluster_dict[pair[1]]
           /\ ha_cluster = Begun(t)
    /\ pc[t] = "write" => ha_node = NodeRowsOf(Begun(t)) /\ ha_instance = InstanceRowsOf(Begun(t))
    /\ pc[t] \in {"write nodes", "write instances"} =>
           writing[t][1] \in Begun(t) /\ writing[t][2] = cluster_dict[writing[t][1]]
    /\ pc[t] = "write nodes" => WritesNodes(t)
    /\ pc[t] = "write instances" => WritesInstances(t)
    /\ pc[t] = "delete" => request[t].op = "delete_instance"
    /\ pc[t] = "fill" => TablesMirror
    /\ pc[t] = "answer" /\ Hass(request[t].op, result[t]) = "succeed" => TablesMirror

SInv ==
    /\ IInv /\ Faults /\ Keys /\ ClosedOnlyByTrouble
    /\ \A t \in Threads : Undisturbed(t) => Progress(t)

----------------------------------------------------------------------------
(***************************************************************************)
(* Who may disturb whom.                                                   *)
(***************************************************************************)
\* While a request has the controller for itself, only its own thread moves.
LEMMA OnlyOne ==
    ASSUME SInv, NEW t \in Threads, pc[t] # "idle", UNCHANGED <<server, overlapped>>,
           \A u \in Threads : u # t => pc'[u] = pc[u],
           Undisturbed(t)' => Progress(t)'
    PROVE  \A u \in Threads : Undisturbed(u)' => Progress(u)'
<1> SUFFICES ASSUME NEW u \in Threads, Undisturbed(u)' PROVE Progress(u)'
  OBVIOUS
<1>1. CASE u = t
  BY <1>1
<1>2. CASE u # t
  <2>1. ~overlapped
    BY DEF Undisturbed
  <2>2. pc[u] = "idle"
    BY <1>2, <2>1 DEF SInv, IInv, Alone
  <2>3. pc'[u] = "idle"
    BY <1>2, <2>2
  <2> QED
    BY <2>3 DEF Progress, WritePlaces
<1> QED
  BY <1>1, <1>2

\* A step that leaves the faults and the tables alone.
LEMMA QuietKeeps ==
    ASSUME SInv, UNCHANGED <<server, alive, loading, tables, cursor, overlapped, failed, hit>>
    PROVE  Faults' /\ Keys' /\ ClosedOnlyByTrouble'
<1>1. Faults'
  BY DEF SInv, Faults
<1>2. Keys'
  BY DEF SInv, Keys, tables
<1>3. ClosedOnlyByTrouble'
  BY DEF SInv, ClosedOnlyByTrouble
<1> QED
  BY <1>1, <1>2, <1>3
----------------------------------------------------------------------------
(***************************************************************************)
(* The steps in memory.                                                    *)
(***************************************************************************)
\* What a request may do before it saves.
Prepares(t) ==
    /\ pc[t] \notin {"idle", "answer"} /\ \A u \in Threads : u # t => pc'[u] = pc[u]
    /\ pc'[t] \notin {"reset", "fill"} \cup WritePlaces
    /\ request'[t].op = request[t].op
    /\ pc'[t] = "delete" => request[t].op = "delete_instance"
    /\ pc'[t] = "answer" => \/ Hass(request[t].op, result'[t]) # "succeed"
                            \/ pc[t] = "fill" /\ UNCHANGED memory

\* A thread has its place in pc, its request in request and its result in result.
LEMMA Domains ==
    ASSUME SInv
    PROVE  DOMAIN pc = Threads /\ DOMAIN request = Threads /\ DOMAIN result = Threads
  BY DEF SInv, IInv, Shared

\* The tables mirror the memory as long as neither changes.
LEMMA MirrorKept ==
    ASSUME UNCHANGED <<memory, tables>>
    PROVE  TablesMirror => TablesMirror'
<1>1. UNCHANGED <<ha_cluster, ha_node, ha_instance, cluster_dict>>
  BY DEF memory, tables
<1>2. Clusters' = Clusters /\ \A o : NodesOf(o)' = NodesOf(o) /\ Ids(o)' = Ids(o)
  BY MemoryKept
<1> QED
  BY <1>1, <1>2 DEF TablesMirror, ClusterRows, NodeRows, InstanceRows, NodeRow, InstanceRow

\* A step before the save keeps what there is to keep.
LEMMA PreparesKeeps ==
    ASSUME SInv, IInv', NEW t \in Threads, Prepares(t), Raising
    PROVE  SInv'
<1>1. UNCHANGED <<server, alive, loading, tables, cursor, overlapped, failed, hit>>
  BY DEF Raising, world, start
<1>2. Faults' /\ Keys' /\ ClosedOnlyByTrouble'
  BY <1>1, QuietKeeps
<1>3. ASSUME Undisturbed(t)' PROVE Progress(t)'
  <2>1. Progress(t)
    BY <1>1, <1>3 DEF SInv, Undisturbed
  <2>2. pc'[t] # "idle" /\ request'[t].op = "fill_cluster" => cursor' = "open"
    BY <1>1, <2>1 DEF Prepares, Progress
  <2>3. ASSUME pc'[t] = "answer" /\ Hass(request'[t].op, result'[t]) = "succeed"
        PROVE  TablesMirror'
    <3>1. pc[t] = "fill" /\ UNCHANGED memory
      BY <2>3 DEF Prepares
    <3>2. TablesMirror
      BY <2>1, <3>1 DEF Progress
    <3> QED
      BY <1>1, <3>1, <3>2, MirrorKept
  <2>4. (Hass(request[t].op, result[t]))' = Hass(request'[t].op, result'[t])
    BY DEF Hass
  <2> QED
    BY <2>2, <2>3, <2>4 DEF Prepares, Progress, WritePlaces
<1>4. \A u \in Threads : Undisturbed(u)' => Progress(u)'
  BY <1>1, <1>3, OnlyOne DEF Prepares
<1> QED
  BY <1>2, <1>4 DEF SInv

\* The request of a thread as the invariant knows it.
LEMMA RequestFits ==
    ASSUME SInv, NEW t \in Threads
    PROVE  Fits(t)
  BY DEF SInv, IInv, ThreadOK

\* Only the thread of a delete_instance goes over the list of instances to take one out.
LEMMA DeletesInstance ==
    ASSUME SInv, NEW t \in Threads, Undisturbed(t), pc[t] = "delete"
    PROVE  request[t].op = "delete_instance"
  BY DEF SInv, Progress

\* A step in memory that does not raise is one that may.
LEMMA InMemoryRaises ==
    ASSUME InMemory
    PROVE  Raising
  BY DEF InMemory, Raising, history

\* The checks.
LEMMA ChecksPrepare ==
    ASSUME SInv, NEW t \in Threads, ChecksOnly(t)
    PROVE  Prepares(t) /\ Raising
<1>1. CASE CreateClusterChecks(t)
  <2>1. /\ InMemory /\ UNCHANGED request /\ pc[t] = "begin" /\ request[t].op = "create_cluster"
        /\ Finish(t, "failed") \/ Goto(t, "create")
    BY <1>1 DEF CreateClusterChecks, At, Op
  <2> QED
    BY <2>1, Domains, InMemoryRaises DEF Goto, Finish, Prepares, Hass, WritePlaces
<1>2. CASE AddNodeChecks(t)
  <2>1. /\ InMemory /\ UNCHANGED <<request, memory>>
        /\ \/ pc[t] = "begin" /\ request[t].op = "add_node"
           \/ pc[t] = "fill"
        /\ Finish(t, "failed") \/ Finish(t, "raises") \/ Goto(t, "add nodes")
    BY <1>2 DEF AddNodeChecks, At, Op
  <2> QED
    BY <2>1, Domains, InMemoryRaises DEF Goto, Finish, Prepares, Hass, WritePlaces
<1>3. CASE AddInstanceChecks(t)
  <2>1. /\ InMemory /\ UNCHANGED request /\ pc[t] = "begin" /\ request[t].op = "add_instance"
        /\ Finish(t, "failed") \/ Goto(t, "protect")
    BY <1>3 DEF AddInstanceChecks, At, Op
  <2> QED
    BY <2>1, Domains, InMemoryRaises DEF Goto, Finish, Prepares, Hass, WritePlaces
<1>4. CASE DeleteInstanceBegins(t)
  <2>1. /\ InMemory /\ UNCHANGED request /\ pc[t] = "begin" /\ request[t].op = "delete_instance"
        /\ Finish(t, "failed") \/ Goto(t, "delete")
    BY <1>4 DEF DeleteInstanceBegins, At, Op
  <2> QED
    BY <2>1, Domains, InMemoryRaises DEF Goto, Finish, Prepares, Hass, WritePlaces
<1>5. CASE UpdateAllBegins(t)
  <2>1. InMemory /\ UNCHANGED request /\ pc[t] = "begin" /\ Goto(t, "update all")
    BY <1>5 DEF UpdateAllBegins, At, Op
  <2> QED
    BY <2>1, Domains, InMemoryRaises DEF Goto, Prepares, WritePlaces
<1>6. CASE UpdateDb(t)
  <2>1. InMemory /\ UNCHANGED request /\ pc[t] = "begin" /\ Goto(t, "save")
    BY <1>6 DEF UpdateDb, At, Op
  <2> QED
    BY <2>1, Domains, InMemoryRaises DEF Goto, Prepares, WritePlaces
<1> QED
  BY <1>1, <1>2, <1>3, <1>4, <1>5, <1>6, InMemoryRaises DEF ChecksOnly

\* What changes a cluster.
LEMMA ClusterPrepares ==
    ASSUME SInv, NEW t \in Threads, CreateCluster(t) \/ DeleteCluster(t)
    PROVE  Prepares(t) /\ Raising
<1>1. /\ InMemory /\ UNCHANGED request
      /\ \/ pc[t] = "create" /\ Goto(t, "save")
         \/ /\ pc[t] = "begin" /\ request[t].op = "delete_cluster"
            /\ Finish(t, "failed") \/ Goto(t, "save")
  BY DEF CreateCluster, DeleteCluster, At, Op, Finish
<1> QED
  BY <1>1, Domains, InMemoryRaises DEF Goto, Finish, Prepares, Hass, WritePlaces

\* What changes the nodes.
LEMMA NodesPrepare ==
    ASSUME SInv, NEW t \in Threads, AddNode(t) \/ DeleteNode(t)
    PROVE  Prepares(t) /\ Raising
<1>1. CASE AddNode(t)
  <2>1. /\ InMemory /\ pc[t] = "add nodes"
        /\ \E n : request' = [request EXCEPT ![t].nodes = @ \ {n}]
        /\ Goto(t, "save") \/ Goto(t, "add nodes")
    BY <1>1 DEF AddNode, At
  <2>2. request'[t].op = request[t].op
    <3>1. request[t] \in AnyRequest
      BY DEF SInv, IInv, ThreadOK
    <3>2. PICK n : request' = [request EXCEPT ![t].nodes = @ \ {n}]
      BY <2>1
    <3>3. request'[t] = [request[t] EXCEPT !.nodes = @ \ {n}]
      BY <3>2, Domains
    <3> QED
      BY <3>1, <3>3 DEF AnyRequest
  <2> QED
    BY <2>1, <2>2, Domains, InMemoryRaises DEF Goto, Prepares, WritePlaces
<1>2. CASE DeleteNode(t)
  <2>1. /\ Raising /\ UNCHANGED request /\ pc[t] = "begin" /\ request[t].op = "delete_node"
        /\ Finish(t, "failed") \/ Goto(t, "save")
    BY <1>2 DEF DeleteNode, At, Op
  <2> QED
    BY <2>1, Domains DEF Goto, Finish, Prepares, Hass, WritePlaces
<1> QED
  BY <1>1, <1>2

\* What changes the instances.
LEMMA InstancesPrepare ==
    ASSUME SInv, NEW t \in Threads,
           AddInstance(t) \/ AppendInstance(t) \/ UpdateInstanceHost(t) \/ UpdateAll(t)
    PROVE  Prepares(t) /\ Raising
<1>1. CASE AddInstance(t)
  <2>1. /\ InMemory /\ pc[t] = "protect"
        /\ UNCHANGED request \/ \E hosts : request' = [request EXCEPT ![t].nodes = hosts]
        /\ Finish(t, "failed") \/ Goto(t, "append")
    BY <1>1 DEF AddInstance, At
  <2>2. request[t].op = "add_instance"
    BY <2>1, RequestFits DEF Fits
  <2>3. request'[t].op = request[t].op
    <3>1. request[t] \in AnyRequest
      BY DEF SInv, IInv, ThreadOK
    <3>2. ASSUME NEW hosts, request' = [request EXCEPT ![t].nodes = hosts]
          PROVE  request'[t].op = request[t].op
      <4>1. request'[t] = [request[t] EXCEPT !.nodes = hosts]
        BY <3>2, Domains
      <4> QED
        BY <3>1, <4>1 DEF AnyRequest
    <3> QED
      BY <2>1, <3>2
  <2> QED
    BY <2>1, <2>2, <2>3, Domains, InMemoryRaises DEF Goto, Finish, Prepares, Hass, WritePlaces
<1>4. CASE AppendInstance(t)
  <2>1. /\ Raising /\ UNCHANGED request /\ pc[t] = "append"
        /\ Finish(t, "failed") \/ Goto(t, "save")
    BY <1>4 DEF AppendInstance, At
  <2>2. request[t].op = "add_instance"
    BY <2>1, RequestFits DEF Fits
  <2> QED
    BY <2>1, <2>2, Domains DEF Goto, Finish, Prepares, Hass, WritePlaces
<1>2. CASE UpdateInstanceHost(t)
  <2>1. /\ InMemory /\ UNCHANGED request /\ pc[t] = "begin" /\ request[t].op = "update_instance_host"
        /\ Finish(t, "failed")
    BY <1>2 DEF UpdateInstanceHost, At, Op
  <2> QED
    BY <2>1, Domains, InMemoryRaises DEF Goto, Finish, Prepares, Hass, WritePlaces
<1>3. CASE UpdateAll(t)
  <2>1. /\ InMemory /\ UNCHANGED request /\ pc[t] = "update all"
        /\ Finish(t, "raises") \/ Goto(t, "save") \/ UNCHANGED pc
    BY <1>3 DEF UpdateAll, At
  <2> QED
    BY <2>1, Domains, InMemoryRaises DEF Goto, Finish, Prepares, Hass, WritePlaces
<1> QED
  BY <1>1, <1>2, <1>3, <1>4

\* A deletion that raises is answered as a failure.
LEMMA DeleteInstancePrepares ==
    ASSUME SInv, NEW t \in Threads, DeleteInstance(t), Undisturbed(t)
    PROVE  Prepares(t) /\ Raising
<1>1. /\ Raising /\ UNCHANGED request /\ pc[t] = "delete"
      /\ Finish(t, "failed") \/ Goto(t, "save") \/ UNCHANGED pc
  BY DEF DeleteInstance, At
<1>2. request[t].op = "delete_instance"
  BY <1>1, DeletesInstance
<1> QED
  BY <1>1, <1>2, Domains DEF Goto, Finish, Prepares, Hass, WritePlaces
----------------------------------------------------------------------------
(***************************************************************************)
(* The rows of a list, and of the clusters.                                *)
(***************************************************************************)
\* Positions in a list.
LEMMA Within ==
    \A n \in Nat : \A k \in Nat :
        /\ k # 0 /\ k <= n => k \in 1..n
        /\ k > n /\ k <= n + 1 => k = n + 1
        /\ k \in 1..n => \A j \in 1..(k - 1) : j \in 1..n /\ j # k
  OBVIOUS

\* Where a save is that writes the rows of a cluster.
LEMMA Writes ==
    ASSUME SInv, NEW t \in Threads, Undisturbed(t), pc[t] \in {"write nodes", "write instances"}
    PROVE  LET c == writing[t][1]
               o == writing[t][2]
           IN  /\ c \in Begun(t) /\ c \in Clusters /\ o = cluster_dict[c] /\ o \in Objects
               /\ node_list[o] \in Seq(Nodes) /\ instance_list[o] \in Seq(InstanceObjects)
               /\ position[t] \in Nat /\ position[t] # 0 /\ cursor = "open" /\ ha_cluster = Begun(t)
<1>1. Progress(t) /\ IInv /\ ThreadOK(t) /\ Memory
  BY DEF SInv, IInv
<1>2. writing[t][1] \in Begun(t) /\ writing[t][2] = cluster_dict[writing[t][1]]
  BY <1>1 DEF Progress
<1>3. writing[t][1] \in Clusters
  BY <1>2 DEF Begun
<1>4. writing[t][2] \in Objects
  BY <1>1, <1>2, <1>3 DEF Memory, Clusters
<1>5. cursor = "open" /\ ha_cluster = Begun(t)
  BY <1>1 DEF Progress, WritePlaces
<1> QED
  BY <1>1, <1>2, <1>3, <1>4, <1>5 DEF ThreadOK, Memory

\* The rows of two clusters are about different nodes and instances.
LEMMA RowsApart ==
    ASSUME IInv, ~overlapped, NEW c \in Clusters, NEW C \in SUBSET Clusters, c \notin C
    PROVE  /\ \A r \in NodeRowsOf(C) : r.node \notin NodesOf(cluster_dict[c])
           /\ \A r \in InstanceRowsOf(C) : r.id \notin Ids(cluster_dict[c])
<1>1. Owned /\ Fresh /\ Memory
  BY DEF IInv
<1>2. ASSUME NEW r \in NodeRowsOf(C) PROVE r.node \notin NodesOf(cluster_dict[c])
  <2>0. PICK d \in C : r \in {NodeRow(n, d) : n \in NodesOf(cluster_dict[d])}
    BY DEF NodeRowsOf
  <2>1. PICK n \in NodesOf(cluster_dict[d]) : r = NodeRow(n, d)
    BY <2>0
  <2>2. d \in Clusters /\ d # c /\ r.node = n
    BY <2>1 DEF NodeRow
  <2>3. cluster_dict[d] \in Objects /\ cluster_dict[c] \in Objects /\ cluster_dict[c] # cluster_dict[d]
    BY <1>1, <2>2 DEF Fresh, Memory, Clusters
  <2>4. NodesOf(cluster_dict[c]) \cap NodesOf(cluster_dict[d]) = {}
    BY <1>1, <2>3 DEF Owned
  <2> QED
    BY <2>1, <2>2, <2>4
<1>3. ASSUME NEW r \in InstanceRowsOf(C) PROVE r.id \notin Ids(cluster_dict[c])
  <2>0. PICK d \in C : r \in {InstanceRow(i, d) : i \in Ids(cluster_dict[d])}
    BY DEF InstanceRowsOf
  <2>1. PICK i \in Ids(cluster_dict[d]) : r = InstanceRow(i, d)
    BY <2>0
  <2>2. d \in Clusters /\ d # c /\ r.id = i
    BY <2>1 DEF InstanceRow
  <2>3. Ids(cluster_dict[c]) \cap Ids(cluster_dict[d]) = {}
    BY <1>1, <2>2 DEF Owned
  <2> QED
    BY <2>1, <2>2, <2>3
<1> QED
  BY <1>2, <1>3

\* Once a cluster is added to C, so are the rows of its lists.
LEMMA RowsSplit ==
    ASSUME NEW C, NEW c \in C
    PROVE  /\ NodeRowsOf(C) = NodeRowsOf(C \ {c}) \cup {NodeRow(n, c) : n \in NodesOf(cluster_dict[c])}
           /\ InstanceRowsOf(C) =
                  InstanceRowsOf(C \ {c}) \cup {InstanceRow(i, c) : i \in Ids(cluster_dict[c])}
<1>1. C = (C \ {c}) \cup {c}
  OBVIOUS
<1>2. NodeRowsOf(C) = NodeRowsOf(C \ {c}) \cup {NodeRow(n, c) : n \in NodesOf(cluster_dict[c])}
  BY <1>1 DEF NodeRowsOf
<1>3. InstanceRowsOf(C) =
          InstanceRowsOf(C \ {c}) \cup {InstanceRow(i, c) : i \in Ids(cluster_dict[c])}
  BY <1>1 DEF InstanceRowsOf
<1> QED
  BY <1>2, <1>3

\* A save that has gone over a whole list has written a row for each of its elements.
LEMMA RowsBefore ==
    ASSUME NEW c, NEW k \in Nat \ {0}
    PROVE  /\ \A list \in Seq(Nodes) :
                 /\ NodesBefore(list, 1, c) = {}
                 /\ NodesBefore(list, k + 1, c) = NodesBefore(list, k, c) \cup {NodeRow(list[k], c)}
                 /\ k = Len(list) + 1 =>
                        NodesBefore(list, k, c) = {NodeRow(n, c) : n \in ToSet(list)}
           /\ \A list \in Seq(InstanceObjects) :
                 /\ InstancesBefore(list, 1, c) = {}
                 /\ InstancesBefore(list, k + 1, c) =
                        InstancesBefore(list, k, c) \cup {InstanceRow(list[k].id, c)}
                 /\ k = Len(list) + 1 =>
                        InstancesBefore(list, k, c) =
                            {InstanceRow(i, c) : i \in {instance.id : instance \in ToSet(list)}}
<1>1. 1..(1 - 1) = {} /\ 1..(k + 1 - 1) = 1..(k - 1) \cup {k}
  OBVIOUS
<1>2. ASSUME NEW list \in Seq(Nodes)
      PROVE  /\ NodesBefore(list, 1, c) = {}
             /\ NodesBefore(list, k + 1, c) = NodesBefore(list, k, c) \cup {NodeRow(list[k], c)}
             /\ k = Len(list) + 1 => NodesBefore(list, k, c) = {NodeRow(n, c) : n \in ToSet(list)}
  <2>1. NodesBefore(list, 1, c) = {}
    BY <1>1 DEF NodesBefore
  <2>2. NodesBefore(list, k + 1, c) = NodesBefore(list, k, c) \cup {NodeRow(list[k], c)}
    BY <1>1 DEF NodesBefore
  <2>3. ASSUME k = Len(list) + 1
        PROVE  NodesBefore(list, k, c) = {NodeRow(n, c) : n \in ToSet(list)}
    <3>1. Len(list) \in Nat /\ ToSet(list) = {list[j] : j \in 1..Len(list)}
      BY Elements
    <3>2. k - 1 = Len(list)
      BY <2>3, <3>1
    <3>3. {NodeRow(n, c) : n \in ToSet(list)} = {NodeRow(list[j], c) : j \in 1..Len(list)}
      BY <3>1
    <3> QED
      BY <3>2, <3>3 DEF NodesBefore
  <2> QED
    BY <2>1, <2>2, <2>3
<1>3. ASSUME NEW list \in Seq(InstanceObjects)
      PROVE  /\ InstancesBefore(list, 1, c) = {}
             /\ InstancesBefore(list, k + 1, c) =
                    InstancesBefore(list, k, c) \cup {InstanceRow(list[k].id, c)}
             /\ k = Len(list) + 1 =>
                    InstancesBefore(list, k, c) =
                        {InstanceRow(i, c) : i \in {instance.id : instance \in ToSet(list)}}
  <2>1. InstancesBefore(list, 1, c) = {}
    BY <1>1 DEF InstancesBefore
  <2>2. InstancesBefore(list, k + 1, c) =
            InstancesBefore(list, k, c) \cup {InstanceRow(list[k].id, c)}
    BY <1>1 DEF InstancesBefore
  <2>3. ASSUME k = Len(list) + 1
        PROVE  InstancesBefore(list, k, c) =
                   {InstanceRow(i, c) : i \in {instance.id : instance \in ToSet(list)}}
    <3>1. Len(list) \in Nat /\ ToSet(list) = {list[j] : j \in 1..Len(list)}
      BY Elements
    <3>2. k - 1 = Len(list)
      BY <2>3, <3>1
    <3>3. {InstanceRow(i, c) : i \in {instance.id : instance \in ToSet(list)}} =
              {InstanceRow(list[j].id, c) : j \in 1..Len(list)}
      BY <3>1
    <3> QED
      BY <3>2, <3>3 DEF InstancesBefore
  <2> QED
    BY <2>1, <2>2, <2>3
<1> QED
  BY <1>2, <1>3
----------------------------------------------------------------------------
(***************************************************************************)
(* No row of a save that is undisturbed is refused.                        *)
(***************************************************************************)
\* The row of a cluster ...
LEMMA ClusterLegal ==
    ASSUME SInv, NEW t \in Threads, Undisturbed(t), pc[t] = "write", NEW pair \in todo[t]
    PROVE  /\ cursor = "open" /\ pair[1] \in Clusters /\ pair[2] = cluster_dict[pair[1]]
           /\ pair[1] \notin ha_cluster
<1>1. Progress(t)
  BY DEF SInv
<1>2. cursor = "open" /\ pair[1] \in Clusters /\ pair[2] = cluster_dict[pair[1]] /\ ha_cluster = Begun(t)
  BY <1>1 DEF Progress, WritePlaces
<1> QED
  BY <1>2 DEF Begun

\* ... of a node ...
LEMMA NodeLegal ==
    ASSUME SInv, NEW t \in Threads, Undisturbed(t), pc[t] = "write nodes",
           position[t] <= Len(node_list[writing[t][2]])
    PROVE  /\ writing[t][1] \in ha_cluster
           /\ \A r \in ha_node : r.node # node_list[writing[t][2]][position[t]]
<1> DEFINE c == writing[t][1]
           list == node_list[writing[t][2]]
           k == position[t]
<1>1. /\ c \in Begun(t) /\ c \in Clusters /\ writing[t][2] = cluster_dict[c] /\ cluster_dict[c] \in Objects
      /\ list \in Seq(Nodes) /\ k \in Nat /\ k # 0 /\ k <= Len(list) /\ ha_cluster = Begun(t)
  BY Writes
<1>2. ha_node = NodeRowsOf(Begun(t) \ {c}) \cup NodesBefore(list, k, c)
  BY <1>1 DEF SInv, Progress, WritesNodes
<1>3. /\ Len(list) \in Nat /\ k \in 1..Len(list)
      /\ ToSet(list) = {list[j] : j \in 1..Len(list)} /\ Once(list)
  <2>1. ~overlapped /\ IInv
    BY DEF Undisturbed, SInv
  <2>2. Once(list)
    BY <1>1, <2>1 DEF IInv, Owned
  <2> HIDE DEF list, k, c
  <2>3. Len(list) \in Nat /\ ToSet(list) = {list[j] : j \in 1..Len(list)}
    BY <1>1, Elements
  <2>4. k \in 1..Len(list)
    <3>1. k \in Nat /\ k # 0 /\ k <= Len(list)
      BY <1>1
    <3> QED
      BY <2>3, <3>1, Within, Zenon
  <2> QED
    BY <2>2, <2>3, <2>4
<1> HIDE DEF list, k, c
<1>4. ASSUME NEW r \in NodeRowsOf(Begun(t) \ {c}) PROVE r.node # list[k]
  <2>1. ~overlapped /\ IInv /\ Begun(t) \ {c} \in SUBSET Clusters /\ c \notin Begun(t) \ {c}
    BY DEF Undisturbed, SInv, Begun
  <2>2. r.node \notin NodesOf(cluster_dict[c])
    BY <1>1, <2>1, RowsApart
  <2>3. list[k] \in NodesOf(cluster_dict[c])
    BY <1>1, <1>3 DEF NodesOf, list
  <2> QED
    BY <2>2, <2>3
<1>5. ASSUME NEW r \in NodesBefore(list, k, c) PROVE r.node # list[k]
  <2>1. PICK j \in 1..(k - 1) : r = NodeRow(list[j], c)
    BY DEF NodesBefore
  <2>2. j \in 1..Len(list) /\ j # k
    <3>1. k \in 1..Len(list) /\ Len(list) \in Nat /\ k \in Nat
      BY <1>1, <1>3
    <3> QED
      BY <3>1, Within, Zenon
  <2>3. r.node = list[j]
    BY <2>1 DEF NodeRow
  <2> QED
    BY <1>3, <2>2, <2>3 DEF Once
<1>6. c \in ha_cluster /\ \A r \in ha_node : r.node # list[k]
  BY <1>1, <1>2, <1>4, <1>5
<1> QED
  BY <1>6 DEF c, list, k

\* ... and of an instance.
LEMMA InstanceLegal ==
    ASSUME SInv, NEW t \in Threads, Undisturbed(t), pc[t] = "write instances",
           position[t] <= Len(instance_list[writing[t][2]])
    PROVE  /\ writing[t][1] \in ha_cluster
           /\ \A r \in ha_instance : r.id # instance_list[writing[t][2]][position[t]].id
<1> DEFINE c == writing[t][1]
           list == instance_list[writing[t][2]]
           k == position[t]
<1>1. /\ c \in Begun(t) /\ c \in Clusters /\ writing[t][2] = cluster_dict[c] /\ cluster_dict[c] \in Objects
      /\ list \in Seq(InstanceObjects) /\ k \in Nat /\ k # 0 /\ k <= Len(list) /\ ha_cluster = Begun(t)
  BY Writes
<1>2. ha_instance = InstanceRowsOf(Begun(t) \ {c}) \cup InstancesBefore(list, k, c)
  BY <1>1 DEF SInv, Progress, WritesInstances
<1>3. /\ Len(list) \in Nat /\ k \in 1..Len(list)
      /\ ToSet(list) = {list[j] : j \in 1..Len(list)} /\ OnceId(list)
  <2>1. ~overlapped /\ IInv
    BY DEF Undisturbed, SInv
  <2>2. OnceId(list)
    BY <1>1, <2>1 DEF IInv, Owned
  <2> HIDE DEF list, k, c
  <2>3. Len(list) \in Nat /\ ToSet(list) = {list[j] : j \in 1..Len(list)}
    BY <1>1, Elements
  <2>4. k \in 1..Len(list)
    <3>1. k \in Nat /\ k # 0 /\ k <= Len(list)
      BY <1>1
    <3> QED
      BY <2>3, <3>1, Within, Zenon
  <2> QED
    BY <2>2, <2>3, <2>4
<1> HIDE DEF list, k, c
<1>4. ASSUME NEW r \in InstanceRowsOf(Begun(t) \ {c}) PROVE r.id # list[k].id
  <2>1. ~overlapped /\ IInv /\ Begun(t) \ {c} \in SUBSET Clusters /\ c \notin Begun(t) \ {c}
    BY DEF Undisturbed, SInv, Begun
  <2>2. r.id \notin Ids(cluster_dict[c])
    BY <1>1, <2>1, RowsApart
  <2>3. list[k] \in ToSet(list) /\ list = instance_list[cluster_dict[c]]
    BY <1>1, <1>3 DEF list
  <2>4. list[k].id \in Ids(cluster_dict[c])
    BY <2>3 DEF Ids
  <2> QED
    BY <2>2, <2>4
<1>5. ASSUME NEW r \in InstancesBefore(list, k, c) PROVE r.id # list[k].id
  <2>1. PICK j \in 1..(k - 1) : r = InstanceRow(list[j].id, c)
    BY DEF InstancesBefore
  <2>2. j \in 1..Len(list) /\ j # k
    <3>1. k \in 1..Len(list) /\ Len(list) \in Nat /\ k \in Nat
      BY <1>1, <1>3
    <3> QED
      BY <3>1, Within, Zenon
  <2>3. r.id = list[j].id
    BY <2>1 DEF InstanceRow
  <2> QED
    BY <1>3, <2>2, <2>3 DEF OnceId
<1>6. c \in ha_cluster /\ \A r \in ha_instance : r.id # list[k].id
  BY <1>1, <1>2, <1>4, <1>5
<1> QED
  BY <1>6 DEF c, list, k
----------------------------------------------------------------------------
(***************************************************************************)
(* The steps of a save.                                                    *)
(***************************************************************************)
\* A save keeps what there is to keep if it keeps the keys and, undisturbed, closes no
\* cursor and goes on as it should.
LEMMA SavesKeep ==
    ASSUME SInv, IInv', NEW t \in Threads, alive, pc[t] # "idle", Saving, Keys',
           \A u \in Threads : u # t => pc'[u] = pc[u],
           Undisturbed(t) => cursor' = cursor /\ Progress(t)',
           cursor' \in {cursor, "closed"}
    PROVE  SInv'
<1>1. UNCHANGED <<server, alive, loading, overlapped, failed, hit>>
  BY DEF Saving, world, start, history
<1>2. Faults'
  BY <1>1 DEF SInv, Faults
<1>3. ClosedOnlyByTrouble'
  <2>1. CASE Undisturbed(t)
    BY <1>1, <2>1 DEF SInv, ClosedOnlyByTrouble
  <2>2. CASE ~Undisturbed(t)
    BY <1>1, <2>2 DEF SInv, Faults, Undisturbed, ClosedOnlyByTrouble
  <2> QED
    BY <2>1, <2>2
<1>4. Undisturbed(t)' => Progress(t)'
  BY <1>1 DEF Undisturbed
<1>5. \A u \in Threads : Undisturbed(u)' => Progress(u)'
  BY <1>1, <1>4, OnlyOne
<1> QED
  BY <1>2, <1>3, <1>5 DEF SInv

\* What a save writes is about the memory, which no save changes.
LEMMA SavedMemory ==
    ASSUME Saving
    PROVE  /\ UNCHANGED <<cluster_dict, node_list, instance_list>> /\ Clusters' = Clusters
           /\ \A o : NodesOf(o)' = NodesOf(o) /\ Ids(o)' = Ids(o)
           /\ \A C : NodeRowsOf(C)' = NodeRowsOf(C) /\ InstanceRowsOf(C)' = InstanceRowsOf(C)
<1>1. UNCHANGED memory /\ UNCHANGED <<cluster_dict, node_list, instance_list>>
  BY DEF Saving, memory
<1>2. Clusters' = Clusters /\ \A o : NodesOf(o)' = NodesOf(o) /\ Ids(o)' = Ids(o)
  BY <1>1, MemoryKept
<1> QED
  BY <1>1, <1>2 DEF NodeRowsOf, InstanceRowsOf

\* A save that is refused at its beginning is no success.
LEMMA RaisesProgress ==
    ASSUME SInv, NEW t \in Threads, SaveRaises(t), Undisturbed(t), pc[t] # "idle",
           cursor = "closed", UNCHANGED cursor
    PROVE  Progress(t)'
<1>1. request[t].op # "fill_cluster"
  BY DEF SInv, Progress
<1>2. pc'[t] = "answer" /\ request' = request /\ result'[t] \in {"raises", "failed"}
  BY Domains DEF SaveRaises, Finish, Goto
<1>3. Hass(request'[t].op, result'[t]) # "succeed"
  BY <1>1, <1>2 DEF Hass
<1>4. (Hass(request[t].op, result[t]))' = Hass(request'[t].op, result'[t])
  BY DEF Hass
<1> QED
  BY <1>1, <1>2, <1>3, <1>4 DEF Progress, WritePlaces

\* The steps that only lead to the first row.
LEMMA OpensProgress ==
    ASSUME SInv, IInv', NEW t \in Threads, SaveStarts(t) \/ ResetAll(t) \/ GetAllTable(t)
    PROVE  SInv'
<1>1. /\ alive /\ pc[t] \in {"save", "reset all", "tables"} /\ Saving /\ UNCHANGED <<tables, cursor>>
  BY DEF SaveStarts, ResetAll, GetAllTable, At
<1>2. Keys'
  BY <1>1 DEF SInv, Keys, tables
<1>3. \A u \in Threads : u # t => pc'[u] = pc[u]
  <2>1. Saved(t) \/ SaveRaises(t) \/ \E to : Goto(t, to)
    BY DEF SaveStarts, ResetAll, GetAllTable
  <2> QED
    BY <2>1, Domains, SaveEnds DEF SInv, Goto
<1>4. ASSUME Undisturbed(t) PROVE Progress(t)'
  <2>1. Progress(t) /\ server
    BY <1>4 DEF SInv, Undisturbed
  <2>2. CASE SaveStarts(t) \/ ResetAll(t)
    <3>1. pc'[t] \in {"reset all", "tables"} /\ request' = request
      BY <2>1, <2>2, Domains DEF SaveStarts, ResetAll, Goto
    <3> QED
      BY <1>1, <2>1, <3>1 DEF Progress, WritePlaces
  <2>3. CASE GetAllTable(t) /\ cursor = "open"
    <3>1. /\ pc'[t] = "reset" /\ position' = [position EXCEPT ![t] = 1] /\ request' = request
          /\ cursor' = "open"
      BY <1>1, <2>1, <2>3, Domains DEF GetAllTable, Goto
    <3>2. position'[t] = 1
      BY <3>1 DEF SInv, IInv, Shared
    <3>3. position'[t] \in 1..3
      BY <3>2
    <3> QED
      BY <3>1, <3>2, <3>3 DEF Progress, WritePlaces
  <2>4. CASE GetAllTable(t) /\ cursor = "closed"
    <3>1. SaveRaises(t)
      BY <2>4 DEF GetAllTable
    <3> QED
      BY <1>1, <1>4, <2>4, <3>1, RaisesProgress
  <2>5. cursor \in {"open", "closed"}
    BY DEF SInv, IInv, Outer
  <2> QED
    BY <2>2, <2>3, <2>4, <2>5
<1> QED
  BY <1>1, <1>2, <1>3, <1>4, SavesKeep

\* Emptying a table.
LEMMA ResetProgress ==
    ASSUME SInv, IInv', NEW t \in Threads, ResetTable(t)
    PROVE  SInv'
<1>1. alive /\ pc[t] = "reset" /\ Saving /\ UNCHANGED cursor
  BY DEF ResetTable, At
<1>2. Keys'
  <2>1. CASE UNCHANGED tables
    BY <2>1 DEF SInv, Keys, tables
  <2>2. CASE /\ ha_cluster' = IF position[t] = 1 THEN {} ELSE ha_cluster
             /\ ha_instance' = IF position[t] \in {1, 2} THEN {} ELSE ha_instance
             /\ ha_node' = IF position[t] \in {1, 3} THEN {} ELSE ha_node
    BY <2>2 DEF SInv, Keys
  <2> QED
    BY <2>1, <2>2 DEF ResetTable
<1>3. \A u \in Threads : u # t => pc'[u] = pc[u]
  <2>1. SaveRaises(t) \/ \E to : Goto(t, to)
    BY DEF ResetTable
  <2> QED
    BY <2>1, Domains, SaveEnds DEF SInv, Goto
<1>4. ASSUME Undisturbed(t) PROVE Progress(t)'
  <2>1. Progress(t) /\ server
    BY <1>4 DEF SInv, Undisturbed
  <2>2. cursor = "open" /\ position[t] \in 1..3 /\ (position[t] # 1 => Emptied)
    BY <1>1, <2>1 DEF Progress
  <2>3. /\ ha_cluster' = IF position[t] = 1 THEN {} ELSE ha_cluster
        /\ ha_instance' = IF position[t] \in {1, 2} THEN {} ELSE ha_instance
        /\ ha_node' = IF position[t] \in {1, 3} THEN {} ELSE ha_node
        /\ position' = [position EXCEPT ![t] = @ + 1]
        /\ Goto(t, IF position[t] = 3 THEN "write" ELSE "reset")
        /\ position[t] = 3 => todo' = [todo EXCEPT ![t] = {<<c, cluster_dict[c]>> : c \in Clusters}]
        /\ request' = request
    BY <2>1, <2>2 DEF ResetTable
  <2>4. Emptied' /\ cursor' = "open"
    BY <1>1, <2>2, <2>3 DEF Emptied
  <2>5. CASE position[t] = 3
    <3>1. pc'[t] = "write" /\ todo'[t] = {<<c, cluster_dict[c]>> : c \in Clusters}
      BY <2>3, <2>5, Domains DEF Goto, SInv, IInv, Shared
    <3>2. Clusters' = Clusters /\ cluster_dict' = cluster_dict
      BY <1>1, SavedMemory
    <3>3. todo'[t] = {<<c, cluster_dict'[c]>> : c \in Clusters'}
      BY <3>1, <3>2
    <3>4. /\ \A pair \in todo'[t] : pair[1] \in Clusters' /\ pair[2] = cluster_dict'[pair[1]]
          /\ Begun(t)' = {}
      <4>1. \A pair \in todo'[t] : \E c \in Clusters' : pair[1] = c /\ pair[2] = cluster_dict'[c]
        BY <3>3
      <4>2. \A c \in Clusters' : <<c, cluster_dict'[c]>> \in todo'[t] /\ <<c, cluster_dict'[c]>>[1] = c
        BY <3>3
      <4> QED
        BY <4>1, <4>2 DEF Begun
    <3>5. NodeRowsOf(Begun(t))' = {} /\ InstanceRowsOf(Begun(t))' = {}
      BY <3>4 DEF NodeRowsOf, InstanceRowsOf
    <3> QED
      BY <2>4, <3>1, <3>4, <3>5 DEF Progress, WritePlaces, Emptied
  <2>6. CASE position[t] # 3
    <3>1. pc'[t] = "reset" /\ position'[t] = position[t] + 1
      BY <2>3, <2>6, Domains DEF Goto, SInv, IInv, Shared
    <3>2. position'[t] \in 1..3
      BY <2>2, <2>6, <3>1
    <3> QED
      BY <2>4, <3>1, <3>2 DEF Progress, WritePlaces
  <2> QED
    BY <2>5, <2>6
<1> QED
  BY <1>1, <1>2, <1>3, <1>4, SavesKeep

\* A save that has written everything leaves the tables as a mirror of the memory.
LEMMA MirrorWritten ==
    ASSUME SInv, NEW t \in Threads, Undisturbed(t), pc[t] = "write", todo[t] = {}
    PROVE  TablesMirror /\ cursor = "open"
<1>1. Progress(t)
  BY DEF SInv
<1>2. Begun(t) = Clusters
  BY DEF Begun
<1> QED
  BY <1>1, <1>2 DEF Progress, WritePlaces, TablesMirror, ClusterRows, NodeRows, InstanceRows,
                    NodeRowsOf, InstanceRowsOf

\* The keys after a row has been written, skipped or refused.
LEMMA KeysKept ==
    ASSUME SInv, NEW c,
           \/ ha_cluster' \in {ha_cluster, ha_cluster \cup {c}} /\ UNCHANGED <<ha_node, ha_instance>>
           \/ /\ UNCHANGED <<ha_cluster, ha_instance>>
              /\ \/ UNCHANGED ha_node
                 \/ \E n : /\ ha_node' = ha_node \cup {NodeRow(n, c)} /\ c \in ha_cluster
                           /\ \A r \in ha_node : r.node # n
           \/ /\ UNCHANGED <<ha_cluster, ha_node>>
              /\ \/ UNCHANGED ha_instance
                 \/ \E i : /\ ha_instance' = ha_instance \cup {InstanceRow(i, c)} /\ c \in ha_cluster
                           /\ \A r \in ha_instance : r.id # i
    PROVE  Keys'
<1>1. Keys
  BY DEF SInv
<1>2. CASE ha_cluster' \in {ha_cluster, ha_cluster \cup {c}} /\ UNCHANGED <<ha_node, ha_instance>>
  BY <1>1, <1>2 DEF Keys
<1>3. CASE UNCHANGED <<ha_cluster, ha_node, ha_instance>>
  BY <1>1, <1>3 DEF Keys
<1>4. ASSUME NEW n, ha_node' = ha_node \cup {NodeRow(n, c)}, c \in ha_cluster,
             \A r \in ha_node : r.node # n, UNCHANGED <<ha_cluster, ha_instance>>
      PROVE  Keys'
  <2>1. NodeRow(n, c).node = n /\ NodeRow(n, c).cluster = c
    BY DEF NodeRow
  <2>2. \A r \in ha_node' : r \in ha_node \/ r = NodeRow(n, c)
    BY <1>4
  <2>3. \A r, s \in ha_node' : r.node = s.node => r = s
    BY <1>1, <1>4, <2>1, <2>2 DEF Keys
  <2>4. \A r \in (ha_node \cup ha_instance)' : r.cluster \in ha_cluster'
    BY <1>1, <1>4, <2>1, <2>2 DEF Keys
  <2>5. \A r, s \in ha_instance' : r.id = s.id => r = s
    BY <1>1, <1>4 DEF Keys
  <2> QED
    BY <2>3, <2>4, <2>5 DEF Keys
<1>5. ASSUME NEW i, ha_instance' = ha_instance \cup {InstanceRow(i, c)}, c \in ha_cluster,
             \A r \in ha_instance : r.id # i, UNCHANGED <<ha_cluster, ha_node>>
      PROVE  Keys'
  <2>1. InstanceRow(i, c).id = i /\ InstanceRow(i, c).cluster = c
    BY DEF InstanceRow
  <2>2. \A r \in ha_instance' : r \in ha_instance \/ r = InstanceRow(i, c)
    BY <1>5
  <2>3. \A r, s \in ha_instance' : r.id = s.id => r = s
    BY <1>1, <1>5, <2>1, <2>2 DEF Keys
  <2>4. \A r \in (ha_node \cup ha_instance)' : r.cluster \in ha_cluster'
    BY <1>1, <1>5, <2>1, <2>2 DEF Keys
  <2>5. \A r, s \in ha_node' : r.node = s.node => r = s
    BY <1>1, <1>5 DEF Keys
  <2> QED
    BY <2>3, <2>4, <2>5 DEF Keys
<1> QED
  BY <1>2, <1>3, <1>4, <1>5

\* The row of a cluster.
LEMMA WriteClusterProgress ==
    ASSUME SInv, IInv', NEW t \in Threads, WriteCluster(t)
    PROVE  SInv'
<1>1. alive /\ pc[t] = "write" /\ Saving
  BY DEF WriteCluster, At
<1>2. Keys' /\ cursor' \in {cursor, "closed"}
  <2>1. CASE UNCHANGED <<ha_cluster, ha_node, ha_instance>> /\ cursor' \in {cursor, "closed"}
    BY <2>1, KeysKept
  <2>2. ASSUME NEW pair \in todo[t],
               ha_cluster' \in {ha_cluster, ha_cluster \cup {pair[1]}},
               UNCHANGED <<ha_node, ha_instance, cursor>>
        PROVE  Keys' /\ cursor' \in {cursor, "closed"}
    BY <2>2, KeysKept
  <2> QED
    BY <2>1, <2>2 DEF WriteCluster, WriteFails, tables
<1>3. \A u \in Threads : u # t => pc'[u] = pc[u]
  <2>1. Saved(t) \/ \E to : Goto(t, to)
    BY DEF WriteCluster, WriteFails
  <2> QED
    BY <2>1, Domains, SaveEnds DEF SInv, Goto
<1>4. ASSUME Undisturbed(t) PROVE cursor' = cursor /\ Progress(t)'
  <2>1. Progress(t) /\ server
    BY <1>4 DEF SInv, Undisturbed
  <2>2. CASE todo[t] = {}
    <3>1. TablesMirror /\ cursor = "open"
      BY <1>1, <1>4, <2>2, MirrorWritten
    <3>2. Saved(t) /\ UNCHANGED <<tables, cursor>>
      BY <2>2 DEF WriteCluster
    <3>3. TablesMirror'
      BY <1>1, <3>1, <3>2, MirrorKept DEF Saving
    <3>4. pc'[t] \in {"fill", "answer"}
      BY <3>2, SaveEnds DEF SInv
    <3> QED
      BY <3>1, <3>2, <3>3, <3>4 DEF Progress, WritePlaces
  <2>3. ASSUME NEW pair \in todo[t],
               ~Refuses(pair[1] \notin ha_cluster),
               ha_cluster' = IF Inserts(pair[1] \notin ha_cluster) THEN ha_cluster \cup {pair[1]}
                             ELSE ha_cluster,
               todo' = [todo EXCEPT ![t] = @ \ {pair}],
               writing' = [writing EXCEPT ![t] = pair],
               position' = [position EXCEPT ![t] = 1],
               Goto(t, "write nodes"),
               UNCHANGED <<ha_node, ha_instance, cursor, object, request, result>>
        PROVE  cursor' = cursor /\ Progress(t)'
    <3> DEFINE c == pair[1]
    <3>1. /\ cursor = "open" /\ c \in Clusters /\ pair[2] = cluster_dict[c] /\ c \notin ha_cluster
      BY <1>1, <1>4, ClusterLegal
    <3>2. ha_cluster' = ha_cluster \cup {c} /\ cursor' = "open"
      BY <2>1, <2>3, <3>1 DEF Inserts
    <3>3. /\ pc'[t] = "write nodes" /\ todo'[t] = todo[t] \ {pair} /\ writing'[t] = pair
          /\ position'[t] = 1 /\ request' = request
      BY <2>3, Domains DEF Goto, SInv, IInv, Shared
    <3>4. /\ \A other \in todo[t] : other[1] \in Clusters /\ other[2] = cluster_dict[other[1]]
          /\ ha_cluster = Begun(t)
          /\ ha_node = NodeRowsOf(Begun(t)) /\ ha_instance = InstanceRowsOf(Begun(t))
      BY <1>1, <2>1 DEF Progress, WritePlaces
    <3>5. \A other \in todo[t] : other[1] = c => other = pair
      <4>1. todo[t] \subseteq ClusterNames \X Objects
        BY DEF SInv, IInv, ThreadOK
      <4>2. ASSUME NEW other \in todo[t], other[1] = c PROVE other = pair
        <5>1. other[2] = pair[2] /\ other[1] = pair[1]
          BY <3>1, <3>4, <4>2
        <5>2. other \in ClusterNames \X Objects /\ pair \in ClusterNames \X Objects
          BY <4>1
        <5> QED
          BY <5>1, <5>2
      <4> QED
        BY <4>2
    <3>6. Begun(t)' = Begun(t) \cup {c} /\ c \notin Begun(t)
      <4>1. Clusters' = Clusters
        BY <1>1, SavedMemory
      <4>2. c \notin Begun(t)
        BY DEF Begun
      <4> QED
        <5>1. Begun(t)' = {d \in Clusters : \A p \in todo[t] \ {pair} : p[1] # d}
          BY <3>3, <4>1 DEF Begun
        <5>2. \A d \in Clusters :
                 (\A p \in todo[t] \ {pair} : p[1] # d) <=> d = c \/ \A p \in todo[t] : p[1] # d
          BY <3>5
        <5>3. Begun(t) = {d \in Clusters : \A p \in todo[t] : p[1] # d}
          BY DEF Begun
        <5> QED
          BY <3>1, <4>2, <5>1, <5>2, <5>3
    <3>7. Begun(t)' \ {c} = Begun(t)
      BY <3>6
    <3>8. /\ Clusters' = Clusters /\ UNCHANGED <<cluster_dict, node_list>>
          /\ NodeRowsOf(Begun(t) \ {c})' = ha_node' /\ InstanceRowsOf(Begun(t) \ {c})' = ha_instance'
      <4>1. /\ Clusters' = Clusters /\ UNCHANGED <<cluster_dict, node_list>>
            /\ \A o : NodesOf(o)' = NodesOf(o) /\ Ids(o)' = Ids(o)
        BY <1>1, SavedMemory
      <4>2. ha_node' = NodeRowsOf(Begun(t)) /\ ha_instance' = InstanceRowsOf(Begun(t))
        BY <2>3, <3>4
      <4> QED
        BY <3>7, <4>1, <4>2 DEF NodeRowsOf, InstanceRowsOf
    <3>9. WritesNodes(t)'
      <4>1. cluster_dict[c] \in Objects
        BY <3>1 DEF SInv, IInv, Memory, Clusters
      <4>2. node_list[cluster_dict[c]] \in Seq(Nodes)
        BY <4>1 DEF SInv, IInv, Memory
      <4>3. NodesBefore(node_list[cluster_dict[c]], 1, c) = {}
        BY <4>2 DEF NodesBefore
      <4>4. 1 <= Len(node_list[cluster_dict[c]]) + 1
        BY <4>2, LenProperties
      <4> QED
        BY <3>3, <3>7, <3>8, <4>3, <4>4 DEF WritesNodes
    <3>10. \A other \in todo'[t] : other[1] \in Clusters' /\ other[2] = cluster_dict'[other[1]]
      BY <3>3, <3>4, <3>8
    <3>11. ha_cluster' = Begun(t)' /\ writing'[t][1] \in Begun(t)' /\ writing'[t][2] = cluster_dict'[writing'[t][1]]
      BY <3>1, <3>2, <3>3, <3>4, <3>6, <3>8
    <3> QED
      BY <3>1, <3>2, <3>3, <3>9, <3>10, <3>11 DEF Progress, WritePlaces
  <2>4. CASE todo[t] # {}
    <3>1. \A pair \in todo[t] : ~Refuses(pair[1] \notin ha_cluster)
      BY <1>1, <1>4, ClusterLegal DEF Refuses
    <3>2. PICK pair \in todo[t] :
             IF Refuses(pair[1] \notin ha_cluster) THEN WriteFails(t)
             ELSE /\ ha_cluster' = IF Inserts(pair[1] \notin ha_cluster) THEN ha_cluster \cup {pair[1]}
                                   ELSE ha_cluster
                  /\ todo' = [todo EXCEPT ![t] = @ \ {pair}]
                  /\ writing' = [writing EXCEPT ![t] = pair]
                  /\ position' = [position EXCEPT ![t] = 1]
                  /\ Goto(t, "write nodes")
                  /\ UNCHANGED <<ha_node, ha_instance, cursor, object, request, result>>
      BY <2>4 DEF WriteCluster
    <3> QED
      BY <2>3, <3>1, <3>2
  <2> QED
    BY <2>2, <2>4
<1> QED
  BY <1>1, <1>2, <1>3, <1>4, SavesKeep

\* The row of a node, or the end of the list.
LEMMA WriteNodeProgress ==
    ASSUME SInv, IInv', NEW t \in Threads, WriteNode(t)
    PROVE  SInv'
<1> DEFINE c == writing[t][1]
           o == writing[t][2]
           list == node_list[o]
           k == position[t]
           legal == c \in ha_cluster /\ \A r \in ha_node : r.node # list[k]
<1>1. alive /\ pc[t] = "write nodes" /\ Saving
  BY DEF WriteNode, At
<1>2. \/ /\ k > Len(list)
         /\ Goto(t, "write instances") /\ position' = [position EXCEPT ![t] = 1]
         /\ UNCHANGED <<tables, cursor, object, todo, writing, request, result>>
      \/ ~(k > Len(list)) /\ Refuses(legal) /\ WriteFails(t)
      \/ /\ ~(k > Len(list)) /\ ~Refuses(legal)
         /\ ha_node' = IF Inserts(legal) THEN ha_node \cup {NodeRow(list[k], c)} ELSE ha_node
         /\ position' = [position EXCEPT ![t] = k + 1]
         /\ UNCHANGED <<pc, ha_cluster, ha_instance, cursor, object, todo, writing, request, result>>
  BY DEF WriteNode
<1>3. Keys' /\ cursor' \in {cursor, "closed"}
  <2>1. CASE UNCHANGED <<ha_cluster, ha_node, ha_instance>> /\ cursor' \in {cursor, "closed"}
    BY <2>1, KeysKept
  <2>2. CASE /\ legal /\ ha_node' = ha_node \cup {NodeRow(list[k], c)}
             /\ UNCHANGED <<ha_cluster, ha_instance, cursor>>
    BY <2>2, KeysKept
  <2> QED
    BY <1>2, <2>1, <2>2 DEF WriteFails, Inserts, tables
<1>4. \A u \in Threads : u # t => pc'[u] = pc[u]
  <2>1. Saved(t) \/ (\E to : Goto(t, to)) \/ UNCHANGED pc
    BY <1>2 DEF WriteFails
  <2> QED
    BY <2>1, Domains, SaveEnds DEF SInv, Goto
<1>5. ASSUME Undisturbed(t) PROVE cursor' = cursor /\ Progress(t)'
  <2>1. Progress(t) /\ server
    BY <1>5 DEF SInv, Undisturbed
  <2>2. /\ c \in Begun(t) /\ c \in Clusters /\ o = cluster_dict[c] /\ cluster_dict[c] \in Objects
        /\ list \in Seq(Nodes) /\ instance_list[cluster_dict[c]] \in Seq(InstanceObjects)
        /\ k \in Nat /\ k # 0 /\ cursor = "open" /\ ha_cluster = Begun(t)
    BY <1>1, <1>5, Writes
  <2>3. /\ k <= Len(list) + 1
        /\ ha_node = NodeRowsOf(Begun(t) \ {c}) \cup NodesBefore(list, k, c)
        /\ ha_instance = InstanceRowsOf(Begun(t) \ {c})
    BY <1>1, <2>1, <2>2 DEF Progress, WritesNodes
  <2>4. \A pair \in todo[t] : pair[1] \in Clusters /\ pair[2] = cluster_dict[pair[1]]
    BY <1>1, <2>1 DEF Progress, WritePlaces
  <2>5. /\ Clusters' = Clusters /\ UNCHANGED <<cluster_dict, node_list, instance_list>>
        /\ \A x : NodesOf(x)' = NodesOf(x) /\ Ids(x)' = Ids(x)
    BY <1>1, SavedMemory
  <2>6. Len(list) \in Nat
    BY <2>2, LenProperties
  <2>7. ASSUME UNCHANGED <<todo, writing, request, cursor>>
        PROVE  /\ Begun(t)' = Begun(t) /\ writing'[t][1] = c /\ writing'[t][2] = cluster_dict'[c]
               /\ \A pair \in todo'[t] : pair[1] \in Clusters' /\ pair[2] = cluster_dict'[pair[1]]
               /\ NodeRowsOf(Begun(t))' = NodeRowsOf(Begun(t))
               /\ NodeRowsOf(Begun(t) \ {writing[t][1]})' = NodeRowsOf(Begun(t) \ {c})
               /\ InstanceRowsOf(Begun(t) \ {writing[t][1]})' = InstanceRowsOf(Begun(t) \ {c})
    <3>1. Begun(t)' = Begun(t)
      BY <2>5, <2>7 DEF Begun
    <3>2. writing'[t][1] = c /\ writing'[t][2] = cluster_dict'[c]
      BY <2>2, <2>5, <2>7
    <3>3. \A pair \in todo'[t] : pair[1] \in Clusters' /\ pair[2] = cluster_dict'[pair[1]]
      BY <2>4, <2>5, <2>7
    <3>4. NodeRowsOf(Begun(t))' = NodeRowsOf(Begun(t))
      BY <2>5, <3>1 DEF NodeRowsOf
    <3>5. InstanceRowsOf(Begun(t))' = InstanceRowsOf(Begun(t))
      BY <2>5, <3>1 DEF InstanceRowsOf
    <3>6. NodeRowsOf(Begun(t) \ {writing[t][1]})' = NodeRowsOf(Begun(t) \ {c})
      BY <2>5, <3>1, <3>2 DEF NodeRowsOf
    <3>7. InstanceRowsOf(Begun(t) \ {writing[t][1]})' = InstanceRowsOf(Begun(t) \ {c})
      BY <2>5, <3>1, <3>2 DEF InstanceRowsOf
    <3> QED
      BY <3>1, <3>2, <3>3, <3>4, <3>5, <3>6, <3>7
  <2> HIDE DEF c, o, list, k
  <2>8. CASE /\ k > Len(list)
             /\ Goto(t, "write instances") /\ position' = [position EXCEPT ![t] = 1]
             /\ UNCHANGED <<tables, cursor, object, todo, writing, request, result>>
    <3>1. pc'[t] = "write instances" /\ position'[t] = 1
      BY <2>8, Domains DEF Goto, SInv, IInv, Shared
    <3>2. UNCHANGED <<ha_cluster, ha_node, ha_instance, todo, writing, request, cursor>>
      BY <2>8 DEF tables
    <3>3. k = Len(list) + 1
      BY <2>2, <2>3, <2>6, <2>8, Within, Zenon
    <3>4. NodesBefore(list, k, c) = {NodeRow(n, c) : n \in NodesOf(cluster_dict[c])}
      <4>1. k \in Nat \ {0} /\ NodesOf(cluster_dict[c]) = ToSet(list)
        BY <2>2 DEF NodesOf, list
      <4>2. \A l \in Seq(Nodes) :
               k = Len(l) + 1 => NodesBefore(l, k, c) = {NodeRow(n, c) : n \in ToSet(l)}
        BY <4>1, RowsBefore, ZenonT(40)
      <4> QED
        BY <2>2, <3>3, <4>1, <4>2, Zenon
    <3>5. ha_node = NodeRowsOf(Begun(t))
      BY <2>2, <2>3, <3>4, RowsSplit
    <3>6. InstancesBefore(instance_list[cluster_dict[c]], 1, c) = {}
      BY <2>2 DEF InstancesBefore
    <3>7. WritesInstances(t)'
      <4>1. 1 <= Len(instance_list[cluster_dict[c]]) + 1
        BY <2>2, LenProperties
      <4>2. InstancesBefore(instance_list'[cluster_dict'[c]], 1, c) = {}
        BY <2>5, <3>6
      <4> QED
        BY <2>3, <2>5, <2>7, <3>1, <3>2, <3>5, <4>1, <4>2 DEF WritesInstances
    <3> QED
      BY <2>2, <2>7, <3>1, <3>2, <3>7 DEF Progress, WritePlaces
  <2>9. CASE /\ ~(k > Len(list)) /\ ~Refuses(legal)
             /\ ha_node' = IF Inserts(legal) THEN ha_node \cup {NodeRow(list[k], c)} ELSE ha_node
             /\ position' = [position EXCEPT ![t] = k + 1]
             /\ UNCHANGED <<pc, ha_cluster, ha_instance, cursor, object, todo, writing, request, result>>
    <3>1. position'[t] = k + 1 /\ pc'[t] = "write nodes"
      BY <1>1, <2>9 DEF SInv, IInv, Shared
    <3>2. Inserts(legal)
      BY <2>1, <2>2, <2>9 DEF Inserts, Refuses
    <3>3. NodesBefore(list, k + 1, c) = NodesBefore(list, k, c) \cup {NodeRow(list[k], c)}
      BY <2>2, RowsBefore
    <3>4. ha_node' = NodeRowsOf(Begun(t) \ {c}) \cup NodesBefore(list, k + 1, c)
      BY <2>3, <2>9, <3>2, <3>3
    <3>5. k + 1 <= Len(list) + 1
      BY <2>2, <2>6, <2>9
    <3>6. list = node_list'[cluster_dict'[c]]
      BY <2>2, <2>5 DEF list
    <3>7. UNCHANGED <<todo, writing, request, cursor, ha_cluster, ha_instance>>
      BY <2>9
    <3>8. WritesNodes(t)'
      BY <2>3, <2>7, <3>1, <3>4, <3>5, <3>6, <3>7 DEF WritesNodes
    <3> QED
      BY <2>2, <2>7, <3>1, <3>7, <3>8 DEF Progress, WritePlaces
  <2>10. CASE ~(k > Len(list)) /\ Refuses(legal)
    <3>1. k <= Len(list)
      BY <2>2, <2>6, <2>10
    <3>2. legal
      BY <1>1, <1>5, <3>1, NodeLegal DEF c, o, list, k
    <3> QED
      BY <2>2, <2>10, <3>2 DEF Refuses
  <2> QED
    BY <1>2, <2>8, <2>9, <2>10
<1> QED
  BY <1>1, <1>3, <1>4, <1>5, SavesKeep

\* The row of an instance, or the end of the list.
LEMMA WriteInstanceProgress ==
    ASSUME SInv, IInv', NEW t \in Threads, WriteInstance(t)
    PROVE  SInv'
<1> DEFINE c == writing[t][1]
           o == writing[t][2]
           list == instance_list[o]
           k == position[t]
           legal == c \in ha_cluster /\ \A r \in ha_instance : r.id # list[k].id
<1>1. alive /\ pc[t] = "write instances" /\ Saving
  BY DEF WriteInstance, At
<1>2. \/ /\ k > Len(list)
         /\ Goto(t, "write")
         /\ UNCHANGED <<tables, cursor, object, position, todo, writing, request, result>>
      \/ ~(k > Len(list)) /\ Refuses(legal) /\ WriteFails(t)
      \/ /\ ~(k > Len(list)) /\ ~Refuses(legal)
         /\ ha_instance' = IF Inserts(legal) THEN ha_instance \cup {InstanceRow(list[k].id, c)}
                           ELSE ha_instance
         /\ position' = [position EXCEPT ![t] = k + 1]
         /\ UNCHANGED <<pc, ha_cluster, ha_node, cursor, object, todo, writing, request, result>>
  BY DEF WriteInstance
<1>3. Keys' /\ cursor' \in {cursor, "closed"}
  <2>1. CASE UNCHANGED <<ha_cluster, ha_node, ha_instance>> /\ cursor' \in {cursor, "closed"}
    BY <2>1, KeysKept
  <2>2. CASE /\ legal /\ ha_instance' = ha_instance \cup {InstanceRow(list[k].id, c)}
             /\ UNCHANGED <<ha_cluster, ha_node, cursor>>
    BY <2>2, KeysKept
  <2> QED
    BY <1>2, <2>1, <2>2 DEF WriteFails, Inserts, tables
<1>4. \A u \in Threads : u # t => pc'[u] = pc[u]
  <2>1. Saved(t) \/ (\E to : Goto(t, to)) \/ UNCHANGED pc
    BY <1>2 DEF WriteFails
  <2> QED
    BY <2>1, Domains, SaveEnds DEF SInv, Goto
<1>5. ASSUME Undisturbed(t) PROVE cursor' = cursor /\ Progress(t)'
  <2>1. Progress(t) /\ server
    BY <1>5 DEF SInv, Undisturbed
  <2>2. /\ c \in Begun(t) /\ c \in Clusters /\ o = cluster_dict[c] /\ cluster_dict[c] \in Objects
        /\ list \in Seq(InstanceObjects)
        /\ k \in Nat /\ k # 0 /\ cursor = "open" /\ ha_cluster = Begun(t)
    BY <1>1, <1>5, Writes
  <2>3. /\ k <= Len(list) + 1
        /\ ha_node = NodeRowsOf(Begun(t))
        /\ ha_instance = InstanceRowsOf(Begun(t) \ {c}) \cup InstancesBefore(list, k, c)
    BY <1>1, <2>1, <2>2 DEF Progress, WritesInstances
  <2>4. \A pair \in todo[t] : pair[1] \in Clusters /\ pair[2] = cluster_dict[pair[1]]
    BY <1>1, <2>1 DEF Progress, WritePlaces
  <2>5. /\ Clusters' = Clusters /\ UNCHANGED <<cluster_dict, node_list, instance_list>>
        /\ \A x : NodesOf(x)' = NodesOf(x) /\ Ids(x)' = Ids(x)
    BY <1>1, SavedMemory
  <2>6. Len(list) \in Nat
    BY <2>2, LenProperties
  <2>7. ASSUME UNCHANGED <<todo, writing, request, cursor>>
        PROVE  /\ Begun(t)' = Begun(t) /\ writing'[t][1] = c /\ writing'[t][2] = cluster_dict'[c]
               /\ \A pair \in todo'[t] : pair[1] \in Clusters' /\ pair[2] = cluster_dict'[pair[1]]
               /\ NodeRowsOf(Begun(t))' = NodeRowsOf(Begun(t))
               /\ InstanceRowsOf(Begun(t))' = InstanceRowsOf(Begun(t))
               /\ InstanceRowsOf(Begun(t) \ {writing[t][1]})' = InstanceRowsOf(Begun(t) \ {c})
    <3>1. Begun(t)' = Begun(t)
      BY <2>5, <2>7 DEF Begun
    <3>2. writing'[t][1] = c /\ writing'[t][2] = cluster_dict'[c]
      BY <2>2, <2>5, <2>7
    <3>3. \A pair \in todo'[t] : pair[1] \in Clusters' /\ pair[2] = cluster_dict'[pair[1]]
      BY <2>4, <2>5, <2>7
    <3>4. NodeRowsOf(Begun(t))' = NodeRowsOf(Begun(t))
      BY <2>5, <3>1 DEF NodeRowsOf
    <3>5. InstanceRowsOf(Begun(t))' = InstanceRowsOf(Begun(t))
      BY <2>5, <3>1 DEF InstanceRowsOf
    <3>6. NodeRowsOf(Begun(t) \ {writing[t][1]})' = NodeRowsOf(Begun(t) \ {c})
      BY <2>5, <3>1, <3>2 DEF NodeRowsOf
    <3>7. InstanceRowsOf(Begun(t) \ {writing[t][1]})' = InstanceRowsOf(Begun(t) \ {c})
      BY <2>5, <3>1, <3>2 DEF InstanceRowsOf
    <3> QED
      BY <3>1, <3>2, <3>3, <3>4, <3>5, <3>6, <3>7
  <2> HIDE DEF c, o, list, k
  <2>8. CASE /\ k > Len(list)
             /\ Goto(t, "write")
             /\ UNCHANGED <<tables, cursor, object, position, todo, writing, request, result>>
    <3>1. pc'[t] = "write"
      BY <2>8, Domains DEF Goto
    <3>2. UNCHANGED <<ha_cluster, ha_node, ha_instance, todo, writing, request, cursor>>
      BY <2>8 DEF tables
    <3>3. k = Len(list) + 1
      BY <2>2, <2>3, <2>6, <2>8, Within, Zenon
    <3>4. InstancesBefore(list, k, c) = {InstanceRow(i, c) : i \in Ids(cluster_dict[c])}
      <4>1. k \in Nat \ {0} /\ Ids(cluster_dict[c]) = {instance.id : instance \in ToSet(list)}
        BY <2>2 DEF Ids, list
      <4>2. \A l \in Seq(InstanceObjects) :
               k = Len(l) + 1 =>
                   InstancesBefore(l, k, c) =
                       {InstanceRow(i, c) : i \in {instance.id : instance \in ToSet(l)}}
        BY <4>1, RowsBefore, ZenonT(40)
      <4> QED
        BY <2>2, <3>3, <4>1, <4>2, Zenon
    <3>5. ha_instance = InstanceRowsOf(Begun(t))
      BY <2>2, <2>3, <3>4, RowsSplit
    <3>6. ha_node' = NodeRowsOf(Begun(t))' /\ ha_instance' = InstanceRowsOf(Begun(t))'
      BY <2>3, <2>7, <3>2, <3>5
    <3> QED
      BY <2>2, <2>7, <3>1, <3>2, <3>6 DEF Progress, WritePlaces
  <2>9. CASE /\ ~(k > Len(list)) /\ ~Refuses(legal)
             /\ ha_instance' = IF Inserts(legal) THEN ha_instance \cup {InstanceRow(list[k].id, c)}
                               ELSE ha_instance
             /\ position' = [position EXCEPT ![t] = k + 1]
             /\ UNCHANGED <<pc, ha_cluster, ha_node, cursor, object, todo, writing, request, result>>
    <3>1. position'[t] = k + 1 /\ pc'[t] = "write instances"
      BY <1>1, <2>9 DEF SInv, IInv, Shared
    <3>2. Inserts(legal)
      BY <2>1, <2>2, <2>9 DEF Inserts, Refuses
    <3>3. InstancesBefore(list, k + 1, c) = InstancesBefore(list, k, c) \cup {InstanceRow(list[k].id, c)}
      BY <2>2, RowsBefore
    <3>4. ha_instance' = InstanceRowsOf(Begun(t) \ {c}) \cup InstancesBefore(list, k + 1, c)
      BY <2>3, <2>9, <3>2, <3>3
    <3>5. k + 1 <= Len(list) + 1
      BY <2>2, <2>6, <2>9
    <3>6. list = instance_list'[cluster_dict'[c]]
      BY <2>2, <2>5 DEF list
    <3>7. UNCHANGED <<todo, writing, request, cursor, ha_cluster, ha_node>>
      BY <2>9
    <3>8. WritesInstances(t)'
      BY <2>3, <2>7, <3>1, <3>4, <3>5, <3>6, <3>7 DEF WritesInstances
    <3> QED
      BY <2>2, <2>7, <3>1, <3>7, <3>8 DEF Progress, WritePlaces
  <2>10. CASE ~(k > Len(list)) /\ Refuses(legal)
    <3>1. k <= Len(list)
      BY <2>2, <2>6, <2>10
    <3>2. legal
      BY <1>1, <1>5, <3>1, InstanceLegal DEF c, o, list, k
    <3> QED
      BY <2>2, <2>10, <3>2 DEF Refuses
  <2> QED
    BY <1>2, <2>8, <2>9, <2>10
<1> QED
  BY <1>1, <1>3, <1>4, <1>5, SavesKeep

\* A save.
LEMMA SyncProgress ==
    ASSUME SInv, IInv', NEW t \in Threads, sync_to_db(t)
    PROVE  SInv'
  BY OpensProgress, ResetProgress, WriteClusterProgress, WriteNodeProgress, WriteInstanceProgress
  DEF sync_to_db
----------------------------------------------------------------------------
(***************************************************************************)
(* The other steps.                                                        *)
(***************************************************************************)
\* A fault disturbs every thread that is under way.
LEMMA FaultHits ==
    ASSUME SInv, Trouble
    PROVE  /\ failed' /\ UNCHANGED overlapped /\ DOMAIN hit' = Threads
           /\ \A t \in Threads : pc[t] # "idle" => hit'[t]
           /\ loading \/ ~alive => hit'[Loader]
<1>1. Loader \in Threads
  BY DEF Threads
<1> QED
  BY <1>1 DEF Trouble, Faults, SInv

\* A statement fails, or a row is refused.
LEMMA StatementFailsProgress ==
    ASSUME SInv, IInv', NEW t \in Threads, StatementFails(t) \/ RowTooWide(t)
    PROVE  SInv'
<1>1. /\ Trouble /\ pc[t] # "idle" /\ alive /\ UNCHANGED <<server, alive, loading>>
      /\ UNCHANGED <<ha_cluster, ha_node, ha_instance>>
      /\ Saved(t) \/ SaveRaises(t)
  BY DEF StatementFails, RowTooWide, At, WriteFails, world, start, tables, Fault
<1>2. /\ failed' /\ UNCHANGED overlapped /\ DOMAIN hit' = Threads /\ hit'[t]
      /\ loading \/ ~alive => hit'[Loader]
  BY <1>1, FaultHits
<1>3. \A u \in Threads : u # t => pc'[u] = pc[u]
  BY <1>1, SaveEnds DEF SInv
<1>4. Faults' /\ Keys' /\ ClosedOnlyByTrouble'
  BY <1>1, <1>2 DEF SInv, Faults, Keys, ClosedOnlyByTrouble
<1>5. ~Undisturbed(t)'
  BY <1>2 DEF Undisturbed
<1> QED
  BY <1>1, <1>2, <1>3, <1>4, <1>5, OnlyOne DEF SInv

\* A thread that is idle has nothing to keep.
LEMMA AllIdle ==
    ASSUME IInv', Faults', Keys', ClosedOnlyByTrouble', \A t \in Threads : pc'[t] = "idle"
    PROVE  SInv'
  BY DEF SInv, Progress, WritePlaces

\* A step that changes nothing a save depends on.
LEMMA StandsStill ==
    ASSUME SInv, IInv',
           UNCHANGED <<server, alive, loading, memory, tables, cursor, pc, thread, overlapped, failed, hit>>
    PROVE  SInv'
<1>1. Faults' /\ Keys' /\ ClosedOnlyByTrouble'
  BY QuietKeeps
<1>2. UNCHANGED <<request, result, position, todo, writing, cluster_dict, node_list, instance_list,
                  ha_cluster, ha_node, ha_instance>>
  BY DEF thread, memory, tables
<1>3. Clusters' = Clusters /\ \A o : NodesOf(o)' = NodesOf(o) /\ Ids(o)' = Ids(o)
  BY MemoryKept
<1>4. ASSUME NEW t \in Threads, Progress(t) PROVE Progress(t)'
  <2>1. Begun(t)' = Begun(t)
    BY <1>2, <1>3 DEF Begun
  <2>2. /\ NodeRowsOf(Begun(t))' = NodeRowsOf(Begun(t))
        /\ InstanceRowsOf(Begun(t))' = InstanceRowsOf(Begun(t))
        /\ NodeRowsOf(Begun(t) \ {writing[t][1]})' = NodeRowsOf(Begun(t) \ {writing[t][1]})
        /\ InstanceRowsOf(Begun(t) \ {writing[t][1]})' = InstanceRowsOf(Begun(t) \ {writing[t][1]})
    BY <1>2, <1>3, <2>1 DEF NodeRowsOf, InstanceRowsOf
  <2>3. WritesNodes(t) => WritesNodes(t)'
    BY <1>2, <2>2 DEF WritesNodes
  <2>4. WritesInstances(t) => WritesInstances(t)'
    BY <1>2, <2>2 DEF WritesInstances
  <2>5. TablesMirror => TablesMirror'
    BY MirrorKept
  <2>6. Emptied' = Emptied /\ cursor' = cursor /\ pc' = pc
    BY <1>2 DEF Emptied
  <2>7. (Hass(request[t].op, result[t]))' = Hass(request[t].op, result[t])
    BY <1>2 DEF Hass
  <2> QED
    BY <1>2, <1>3, <1>4, <2>1, <2>2, <2>3, <2>4, <2>5, <2>6, <2>7 DEF Progress
<1>5. \A t \in Threads : Undisturbed(t)' = Undisturbed(t)
  BY DEF Undisturbed
<1> QED
  BY <1>1, <1>4, <1>5 DEF SInv

\* The cloud changes, or the database server comes or goes.
LEMMA WorldProgress ==
    ASSUME SInv, IInv', CloudChanges \/ ServerChanges
    PROVE  SInv'
<1>1. CASE CloudChanges
  BY <1>1, StandsStill DEF CloudChanges, start
<1>2. CASE ServerChanges
  <2>1. Trouble /\ UNCHANGED <<alive, loading, tables, pc>>
    BY <1>2 DEF ServerChanges, start
  <2>2. /\ failed' /\ UNCHANGED overlapped /\ DOMAIN hit' = Threads
        /\ \A t \in Threads : pc[t] # "idle" => hit'[t]
        /\ loading \/ ~alive => hit'[Loader]
    BY <2>1, FaultHits
  <2>3. Faults' /\ Keys' /\ ClosedOnlyByTrouble'
    BY <2>1, <2>2 DEF SInv, Faults, Keys, ClosedOnlyByTrouble, tables
  <2>4. ASSUME NEW t \in Threads, Undisturbed(t)' PROVE pc'[t] = "idle"
    BY <2>1, <2>2, <2>4 DEF Undisturbed
  <2>5. \A t \in Threads : pc'[t] = "idle" => Progress(t)'
    BY DEF Progress, WritePlaces
  <2> QED
    BY <2>3, <2>4, <2>5 DEF SInv
<1> QED
  BY <1>1, <1>2

\* A crash, and a start.
LEMMA ProcessProgress ==
    ASSUME SInv, IInv', Process
    PROVE  SInv'
<1>1. CASE Crash
  <2>1. /\ alive' = FALSE /\ loading' = FALSE /\ overlapped' = FALSE /\ failed' = FALSE
        /\ hit' = [t \in Threads |-> FALSE] /\ pc' = [t \in Threads |-> "idle"]
        /\ UNCHANGED <<ha_cluster, ha_node, ha_instance>>
    BY <1>1 DEF Crash, OfAll, tables
  <2>2. Faults' /\ Keys' /\ ClosedOnlyByTrouble'
    BY <2>1 DEF SInv, Faults, Keys, ClosedOnlyByTrouble
  <2> QED
    BY <2>1, <2>2, AllIdle
<1>2. CASE sync_from_db \/ sync_from_db_fails
  <2>1. /\ ~alive /\ server /\ alive' = TRUE /\ UNCHANGED <<pc, server, tables, overlapped>>
    BY <1>2 DEF sync_from_db, sync_from_db_fails, Start, Fault, Trouble, world
  <2>2. \A t \in Threads : pc'[t] = "idle"
    BY <2>1 DEF SInv, IInv, Alone, Threads
  <2>3. ~overlapped
    BY <2>1 DEF SInv, Faults
  <2>4. CASE sync_from_db
    <3>1. cursor' = "open" /\ hit' = [t \in Threads |-> FALSE] /\ UNCHANGED failed
      BY <2>4 DEF sync_from_db, OfAll
    <3>2. Faults' /\ Keys' /\ ClosedOnlyByTrouble'
      BY <2>1, <2>3, <3>1 DEF SInv, Faults, Keys, ClosedOnlyByTrouble, tables
    <3> QED
      BY <2>2, <3>2, AllIdle
  <2>5. CASE sync_from_db_fails
    <3>1. Trouble
      BY <2>5 DEF sync_from_db_fails, Fault
    <3>2. failed' /\ DOMAIN hit' = Threads /\ hit'[Loader]
      BY <2>1, <3>1, FaultHits
    <3>3. Faults' /\ Keys' /\ ClosedOnlyByTrouble'
      BY <2>1, <2>3, <3>2 DEF SInv, Faults, Keys, ClosedOnlyByTrouble, tables
    <3> QED
      BY <2>2, <3>3, AllIdle
  <2> QED
    BY <1>2, <2>4, <2>5
<1> QED
  BY <1>1, <1>2 DEF Process

\* A request is received or, by the main thread, made.
LEMMA BeginsProgress ==
    ASSUME SInv, IInv', NEW t \in Threads, NEW r, r.op # "fill_cluster", Begins(t, r),
           overlapped => overlapped', overlapped' => overlapped \/ (alive /\ ~loading),
           UNCHANGED <<server, alive, loading, tables, cursor, failed, hit>>
    PROVE  SInv'
<1>1. /\ pc'[t] = "begin" /\ request'[t] = r /\ \A u \in Threads : u # t => pc'[u] = pc[u]
  BY Domains DEF Begins, Goto
<1>2. Faults' /\ Keys' /\ ClosedOnlyByTrouble'
  BY DEF SInv, Faults, Keys, ClosedOnlyByTrouble, tables
<1>3. Progress(t)'
  BY <1>1 DEF Progress, WritePlaces
<1>4. ASSUME NEW u \in Threads, u # t, Undisturbed(u)' PROVE Progress(u)'
  <2>1. ~overlapped'
    BY <1>4 DEF Undisturbed
  <2>2. pc'[u] = "idle"
    BY <1>1, <1>4, <2>1 DEF IInv, Alone
  <2> QED
    BY <2>2 DEF Progress, WritePlaces
<1> QED
  BY <1>2, <1>3, <1>4 DEF SInv

\* The REST service starts a thread.
LEMMA ReceiveProgress ==
    ASSUME SInv, IInv', NEW h \in Handlers, NEW r \in Requests, Receive(h, r)
    PROVE  SInv'
<1>1. r.op # "fill_cluster"
  BY DEF Requests, Request
<1>2. /\ Begins(h, r) /\ alive /\ ~loading
      /\ UNCHANGED <<server, alive, loading, tables, cursor, failed, hit>>
      /\ overlapped => overlapped'
  BY DEF Receive, Begins, At, world, start
<1>3. h \in Threads
  BY DEF Threads
<1> QED
  BY <1>1, <1>2, <1>3, BeginsProgress

\* The main thread loads what has been read.
LEMMA LoadProgress ==
    ASSUME SInv, IInv', LoadCluster \/ LoadNodes \/ LoadInstance
    PROVE  SInv'
<1>1. ASSUME NEW op \in {"create_cluster", "add_node", "add_instance"}, NEW c, NEW nodes, NEW i, NEW left,
             LoaderBegins(Request(op, c, nodes, i), left)
      PROVE  SInv'
  <2>1. Request(op, c, nodes, i).op # "fill_cluster"
    BY DEF Request
  <2>2. /\ Begins(Loader, Request(op, c, nodes, i)) /\ Loader \in Threads
        /\ UNCHANGED <<server, alive, loading, tables, cursor, failed, hit, overlapped>>
    BY <1>1 DEF LoaderBegins, world, history, Threads
  <2> QED
    BY <2>1, <2>2, BeginsProgress
<1> QED
  BY <1>1 DEF LoadCluster, LoadNodes, LoadInstance

\* A request is over.
LEMMA ForgetsProgress ==
    ASSUME SInv, IInv', NEW t \in Threads, Forgets(t), pc[t] # "idle",
           UNCHANGED <<server, alive, loading, tables, cursor, failed, overlapped>>
    PROVE  SInv'
<1>1. pc'[t] = "idle" /\ \A u \in Threads : u # t => pc'[u] = pc[u]
  BY Domains DEF Forgets, Goto
<1>2. /\ DOMAIN hit' = Threads /\ hit'[Loader] = hit[Loader]
      /\ \A u \in Threads : hit'[u] => hit[u]
  BY DEF Forgets, SInv, Faults, Threads
<1>3. Faults' /\ Keys' /\ ClosedOnlyByTrouble'
  BY <1>2 DEF SInv, Faults, Keys, ClosedOnlyByTrouble, tables
<1>4. Progress(t)'
  BY <1>1 DEF Progress, WritePlaces
<1> QED
  BY <1>1, <1>3, <1>4, OnlyOne DEF SInv

\* The requests.
LEMMA HandleProgress ==
    ASSUME SInv, IInv', NEW t \in Threads, Handle(t)
    PROVE  SInv'
<1>1. CASE Answer(t)
  BY <1>1, ForgetsProgress DEF Answer, At, world, start
<1>2. CASE DeleteInstance(t) /\ ~Undisturbed(t)
  <2>1. pc[t] = "delete" /\ Raising /\ (Finish(t, "failed") \/ Goto(t, "save") \/ UNCHANGED pc)
    BY <1>2 DEF DeleteInstance, At
  <2>2. \A u \in Threads : u # t => pc'[u] = pc[u]
    BY <2>1, Domains DEF Finish, Goto
  <2>3. UNCHANGED <<server, alive, loading, tables, cursor, overlapped, failed, hit>>
    BY <2>1 DEF Raising, world, start
  <2>4. Faults' /\ Keys' /\ ClosedOnlyByTrouble'
    BY <2>3, QuietKeeps
  <2>5. ~Undisturbed(t)'
    BY <1>2, <2>3 DEF Undisturbed
  <2> QED
    BY <2>1, <2>2, <2>3, <2>4, <2>5, OnlyOne DEF SInv
<1>3. CASE DeleteInstance(t) /\ Undisturbed(t)
  BY <1>3, DeleteInstancePrepares, PreparesKeeps
<1>4. CASE ChecksOnly(t)
  BY <1>4, ChecksPrepare, PreparesKeeps
<1>5. CASE CreateCluster(t) \/ DeleteCluster(t)
  BY <1>5, ClusterPrepares, PreparesKeeps
<1>6. CASE AddNode(t) \/ DeleteNode(t)
  BY <1>6, NodesPrepare, PreparesKeeps
<1>7. CASE AddInstance(t) \/ AppendInstance(t) \/ UpdateInstanceHost(t) \/ UpdateAll(t)
  BY <1>7, InstancesPrepare, PreparesKeeps
<1> QED
  BY <1>1, <1>2, <1>3, <1>4, <1>5, <1>6, <1>7 DEF Handle, ChecksOnly

\* The main thread has loaded everything.
LEMMA LoadEndsProgress ==
    ASSUME SInv, IInv', LoadEnds
    PROVE  SInv'
<1>1. /\ alive' = alive /\ loading /\ loading' = FALSE /\ pc[Loader] = "idle"
      /\ hit' = [t \in Threads |-> FALSE]
      /\ UNCHANGED <<server, tables, cursor, pc, overlapped, failed>>
  BY DEF LoadEnds, At, OfAll, world
<1>2. Faults' /\ Keys' /\ ClosedOnlyByTrouble'
  BY <1>1 DEF SInv, IInv, Alone, Faults, Keys, ClosedOnlyByTrouble, tables
<1>3. \A t \in Threads : pc'[t] = "idle"
  BY <1>1 DEF SInv, IInv, Alone, Threads
<1> QED
  BY <1>2, <1>3, AllIdle

\* Before the first start no table breaks its keys and no thread runs.
LEMMA InitProgress == Init => SInv
<1> SUFFICES ASSUME Init PROVE SInv
  OBVIOUS
<1>1. IInv
  BY InitInvariant
<1>2. /\ pc = [t \in Threads |-> "idle"] /\ hit = [t \in Threads |-> FALSE]
      /\ server = TRUE /\ alive = FALSE /\ loading = FALSE /\ overlapped = FALSE
  BY DEF Init, OfAll
<1>3. Keys
  <2>1. PICK owner \in [Nodes \cup Instances -> ha_cluster \cup {None}] :
           /\ ha_node = {NodeRow(n, owner[n]) : n \in {n \in Nodes \ wide : owner[n] # None}}
           /\ ha_instance = {InstanceRow(i, owner[i]) : i \in {i \in Instances : owner[i] # None}}
    BY DEF Init
  <2>2. \A r \in ha_node : \E n \in Nodes : r = NodeRow(n, owner[n]) /\ owner[n] \in ha_cluster
    BY <2>1
  <2>3. \A r \in ha_instance : \E i \in Instances : r = InstanceRow(i, owner[i]) /\ owner[i] \in ha_cluster
    BY <2>1
  <2>4. \A n : NodeRow(n, owner[n]).node = n /\ NodeRow(n, owner[n]).cluster = owner[n]
    BY DEF NodeRow
  <2>5. \A i : InstanceRow(i, owner[i]).id = i /\ InstanceRow(i, owner[i]).cluster = owner[i]
    BY DEF InstanceRow
  <2> QED
    BY <2>2, <2>3, <2>4, <2>5 DEF Keys
<1>4. Faults /\ ClosedOnlyByTrouble
  BY <1>2 DEF Faults, ClosedOnlyByTrouble
<1>5. \A t \in Threads : Progress(t)
  BY <1>2 DEF Progress, WritePlaces
<1> QED
  BY <1>1, <1>3, <1>4, <1>5 DEF SInv

\* Every step.
LEMMA NextProgress ==
    ASSUME SInv, [Next]_vars
    PROVE  SInv'
<1>0. IInv'
  BY NextKeeps DEF SInv
<1>1. CASE UNCHANGED vars
  BY <1>0, <1>1, StandsStill DEF vars, world, start, history
<1>2. CASE Process
  BY <1>0, <1>2, ProcessProgress
<1>3. CASE CloudChanges \/ ServerChanges
  BY <1>0, <1>3, WorldProgress
<1>4. CASE Load
  <2>1. CASE LoaderGoesOn
    <3>1. /\ Forgets(Loader) /\ pc[Loader] # "idle" /\ Loader \in Threads
          /\ UNCHANGED <<server, alive, loading, tables, cursor, failed, overlapped>>
      BY <2>1 DEF LoaderGoesOn, At, world, Threads
    <3> QED
      BY <1>0, <3>1, ForgetsProgress
  <2> QED
    BY <1>0, <1>4, <2>1, LoadProgress, LoadEndsProgress DEF Load
<1>5. ASSUME NEW t \in Threads,
             Handle(t) \/ sync_to_db(t) \/ StatementFails(t) \/ RowTooWide(t)
      PROVE  SInv'
  BY <1>0, <1>5, HandleProgress, SyncProgress, StatementFailsProgress
<1>6. ASSUME NEW h \in Handlers, NEW r \in Requests, Receive(h, r) PROVE SInv'
  BY <1>0, <1>6, ReceiveProgress
<1> QED
  BY <1>1, <1>2, <1>3, <1>4, <1>5, <1>6 DEF Next

\* What a save that is undisturbed has done so far, in every reachable state.
LEMMA SaveInvariance == Spec => []SInv
<1>1. SInv /\ [Next]_vars => SInv'
  BY NextProgress
<1> QED
  BY InitProgress, <1>1, PTL DEF Spec

\* The one cursor that all threads share, which nothing but a restart opens again, is
\* closed by a fault of the database, by a row that is too wide for its columns or by
\* requests that meet, and by nothing else: no row of a save that is alone breaks a key.
THEOREM RegistryClosedOnlyByTrouble == Spec => []ClosedOnlyByTrouble
<1>1. SInv => ClosedOnlyByTrouble
  BY DEF SInv
<1> QED
  BY <1>1, SaveInvariance, PTL

\* While a save that is alone writes its rows, the tables hold nothing that is not
\* protected: a crash in the middle of it loses rows and brings none back.
THEOREM RegistryTornSaveOnlyLoses == Spec => []TornSaveOnlyLoses
<1>1. SInv => TornSaveOnlyLoses
  <2> SUFFICES ASSUME SInv, NEW t \in Threads, pc[t] \in WritePlaces, Undisturbed(t)
               PROVE  /\ ha_cluster \subseteq ClusterRows /\ ha_node \subseteq NodeRows
                      /\ ha_instance \subseteq InstanceRows
    BY DEF TornSaveOnlyLoses, WritePlaces, Undisturbed
  <2>1. Progress(t) /\ Begun(t) \subseteq Clusters
    BY DEF SInv, Begun
  <2>2. /\ \A C \in SUBSET Clusters : NodeRowsOf(C) \subseteq NodeRows
        /\ \A C \in SUBSET Clusters : InstanceRowsOf(C) \subseteq InstanceRows
    BY DEF NodeRowsOf, InstanceRowsOf, NodeRows, InstanceRows
  <2>3. ha_cluster \subseteq ClusterRows
    BY <2>1 DEF Progress, ClusterRows
  <2>4. CASE pc[t] = "write"
    BY <2>1, <2>2, <2>3, <2>4 DEF Progress
  <2>5. ASSUME pc[t] \in {"write nodes", "write instances"}
        PROVE  ha_node \subseteq NodeRows /\ ha_instance \subseteq InstanceRows
    <3> DEFINE c == writing[t][1]
    <3>1. /\ c \in Clusters /\ cluster_dict[c] \in Objects /\ position[t] \in Nat
          /\ node_list[cluster_dict[c]] \in Seq(Nodes)
          /\ instance_list[cluster_dict[c]] \in Seq(InstanceObjects)
      BY <2>5, Writes
    <3>2. Begun(t) \ {c} \in SUBSET Clusters /\ Begun(t) \in SUBSET Clusters
      BY <2>1
    <3>3. CASE pc[t] = "write nodes"
      <4>1. WritesNodes(t)
        BY <2>1, <3>3 DEF Progress
      <4>2. NodesBefore(node_list[cluster_dict[c]], position[t], c) \subseteq NodeRows
        <5>1. /\ Len(node_list[cluster_dict[c]]) \in Nat
              /\ ToSet(node_list[cluster_dict[c]]) =
                     {node_list[cluster_dict[c]][j] : j \in 1..Len(node_list[cluster_dict[c]])}
          BY <3>1, Elements
        <5>2. \A j \in 1..(position[t] - 1) : j \in 1..Len(node_list[cluster_dict[c]])
          BY <3>1, <4>1, <5>1 DEF WritesNodes
        <5>3. \A j \in 1..(position[t] - 1) :
                 node_list[cluster_dict[c]][j] \in NodesOf(cluster_dict[c])
          BY <5>1, <5>2 DEF NodesOf
        <5> QED
          BY <3>1, <5>3 DEF NodesBefore, NodeRows
      <4> QED
        BY <2>2, <3>2, <4>1, <4>2 DEF WritesNodes
    <3>4. CASE pc[t] = "write instances"
      <4>1. WritesInstances(t)
        BY <2>1, <3>4 DEF Progress
      <4>2. InstancesBefore(instance_list[cluster_dict[c]], position[t], c) \subseteq InstanceRows
        <5>1. /\ Len(instance_list[cluster_dict[c]]) \in Nat
              /\ ToSet(instance_list[cluster_dict[c]]) =
                     {instance_list[cluster_dict[c]][j] : j \in 1..Len(instance_list[cluster_dict[c]])}
          BY <3>1, Elements
        <5>2. \A j \in 1..(position[t] - 1) : j \in 1..Len(instance_list[cluster_dict[c]])
          BY <3>1, <4>1, <5>1 DEF WritesInstances
        <5>3. \A j \in 1..(position[t] - 1) :
                 instance_list[cluster_dict[c]][j].id \in Ids(cluster_dict[c])
          BY <5>1, <5>2 DEF Ids
        <5> QED
          BY <3>1, <5>3 DEF InstancesBefore, InstanceRows
      <4> QED
        BY <2>2, <3>2, <4>1, <4>2 DEF WritesInstances
    <3> QED
      BY <2>5, <3>3, <3>4
  <2> QED
    BY <2>3, <2>4, <2>5 DEF WritePlaces
<1> QED
  BY <1>1, SaveInvariance, PTL

\* A request that was alone, met no fault of the database and no row that is too wide,
\* and is answered with success has been saved: the tables mirror the memory when its
\* thread returns.
THEOREM RegistrySucceedMeansSaved == Spec => SucceedMeansSaved
<1>1. SInv => [\A h \in Handlers :
                  /\ At(h, "answer") /\ pc'[h] = "idle" /\ alive'
                  /\ Hass(request[h].op, result[h]) = "succeed"
                  /\ ~overlapped /\ ~hit[h] /\ server
                  => TablesMirror]_vars
  <2> SUFFICES ASSUME SInv, NEW h \in Handlers, pc[h] = "answer", Undisturbed(h),
                      Hass(request[h].op, result[h]) = "succeed"
               PROVE  TablesMirror
    BY DEF At, Undisturbed
  <2>1. h \in Threads
    BY DEF Threads
  <2> QED
    BY <2>1 DEF SInv, Progress
<1> QED
  BY <1>1, SaveInvariance, PTL DEF SucceedMeansSaved

----------------------------------------------------------------------------
(***************************************************************************)
(* What a crash may lose when saves meet.                                  *)
(***************************************************************************)
\* Has the thread t changed the memory, or is it about to, and all of the save to do?
Dirty(t) ==
    \/ pc[t] \in {"add nodes", "save", "reset all", "tables"}
    \/ pc[t] = "reset" /\ position[t] = 1

\* A deletion among other requests: whoever iterates the list may skip an instance.
Deletes(t) == pc[t] = "delete" /\ overlapped /\ ~unsaved

\* Will the thread t still write the cluster c as it is now?
Waiting(t, c) ==
    \/ pc[t] = "reset"
    \/ pc[t] \in WritePlaces /\ <<c, cluster_dict[c]>> \in todo[t]

\* Will the thread t still come to the k-th node, or instance, of the cluster c?
WritesNode(t, c, k) ==
    pc[t] = "write nodes" /\ writing[t] = <<c, cluster_dict[c]>> /\ position[t] <= k
WritesInstance(t, c, k) ==
    /\ writing[t] = <<c, cluster_dict[c]>>
    /\ pc[t] = "write nodes" \/ (pc[t] = "write instances" /\ position[t] <= k)

\* The rows of the cluster c are in the tables, or a save will write them.
ClusterKept(c) == (\E t \in Threads : Waiting(t, c)) \/ c \in ha_cluster
NodesKept(c) ==
    \/ \E t \in Threads : Waiting(t, c)
    \/ \A k \in 1..Len(node_list[cluster_dict[c]]) :
          \/ NodeRow(node_list[cluster_dict[c]][k], c) \in ha_node
          \/ \E t \in Threads : WritesNode(t, c, k)
InstancesKept(c) ==
    \/ \E t \in Threads : Waiting(t, c)
    \/ \A k \in 1..Len(instance_list[cluster_dict[c]]) :
          \/ InstanceRow(instance_list[cluster_dict[c]][k].id, c) \in ha_instance
          \/ \E t \in Threads : WritesInstance(t, c, k)

\* A request among others has raised with a list changed, and no save followed.
Excused == overlapped /\ unsaved

\* Nothing is lost: all is in the tables or will be.
ClustersSafe == (\E t \in Threads : Dirty(t)) \/ \A c \in Clusters : ClusterKept(c)
NodesSafe == Excused \/ (\E t \in Threads : Dirty(t)) \/ \A c \in Clusters : NodesKept(c)
InstancesSafe ==
    \/ Excused
    \/ \E t \in Threads : Dirty(t) \/ Deletes(t)
    \/ \A c \in Clusters : InstancesKept(c)
Safe == ClustersSafe /\ NodesSafe /\ InstancesSafe

\* A controller that does not run has no cluster in memory.
Vacant == ~alive => Clusters = {}

\* When the tables are to be trusted.
Trusted == alive /\ ~failed /\ cursor = "open"

KInv == SInv /\ Vacant /\ (Trusted => Safe)
----------------------------------------------------------------------------
(***************************************************************************)
(* What is safe stays safe.                                                *)
(***************************************************************************)
\* Where a thread has something of a save before it.
Busy == {"add nodes", "save", "reset all", "tables", "reset"} \cup WritePlaces

\* A thread whose step has nothing to do with a save in progress.
Apart(t) ==
    \/ /\ pc'[t] = pc[t] /\ position'[t] = position[t]
       /\ todo'[t] = todo[t] /\ writing'[t] = writing[t]
    \/ pc[t] \notin Busy

\* No cluster is new.
NoneNew == \A c \in Clusters' : c \in Clusters /\ cluster_dict'[c] = cluster_dict[c]

\* A thread that will save makes everything safe.
LEMMA DirtySafe ==
    ASSUME NEW t \in Threads, Dirty(t)'
    PROVE  Safe'
  BY DEF Safe, ClustersSafe, NodesSafe, InstancesSafe

\* What is safe stays so while no save goes on, or a new one is due.
LEMMA ClustersStaySafe ==
    ASSUME ClustersSafe, NoneNew, UNCHANGED ha_cluster, \A t \in Threads : Apart(t) \/ Dirty(t)'
    PROVE  ClustersSafe'
<1>1. CASE \E t \in Threads : Dirty(t)'
  BY <1>1 DEF ClustersSafe
<1>2. CASE \A t \in Threads : ~Dirty(t)' /\ Apart(t)
  <2>1. \A t \in Threads : ~Dirty(t)
    BY <1>2 DEF Apart, Busy, Dirty
  <2>2. ASSUME NEW c \in Clusters' PROVE ClusterKept(c)'
    <3>1. c \in Clusters /\ cluster_dict'[c] = cluster_dict[c]
      BY DEF NoneNew
    <3>2. ClusterKept(c)
      BY <2>1, <3>1 DEF ClustersSafe
    <3>3. \A t \in Threads : Waiting(t, c) => Waiting(t, c)'
      BY <1>2, <3>1 DEF Apart, Busy, WritePlaces, Waiting
    <3> QED
      BY <3>2, <3>3 DEF ClusterKept
  <2> QED
    BY <2>2 DEF ClustersSafe
<1> QED
  BY <1>1, <1>2

\* Likewise the nodes.
LEMMA NodesStaySafe ==
    ASSUME NodesSafe, Excused => Excused', NoneNew, UNCHANGED <<node_list, ha_node>>,
           \A t \in Threads : Apart(t) \/ Dirty(t)'
    PROVE  NodesSafe'
<1>1. CASE Excused' \/ \E t \in Threads : Dirty(t)'
  BY <1>1 DEF NodesSafe
<1>2. CASE ~Excused' /\ \A t \in Threads : ~Dirty(t)' /\ Apart(t)
  <2>1. ~Excused /\ \A t \in Threads : ~Dirty(t)
    BY <1>2 DEF Apart, Busy, Dirty
  <2>2. ASSUME NEW c \in Clusters' PROVE NodesKept(c)'
    <3>1. c \in Clusters /\ cluster_dict'[c] = cluster_dict[c]
      BY DEF NoneNew
    <3>2. NodesKept(c)
      BY <2>1, <3>1 DEF NodesSafe
    <3>3. \A t \in Threads : Waiting(t, c) => Waiting(t, c)'
      BY <1>2, <3>1 DEF Apart, Busy, WritePlaces, Waiting
    <3>4. \A t \in Threads : \A k : WritesNode(t, c, k) => WritesNode(t, c, k)'
      BY <1>2, <3>1 DEF Apart, Busy, WritePlaces, WritesNode
    <3> QED
      BY <3>1, <3>2, <3>3, <3>4 DEF NodesKept, NodeRow
  <2> QED
    BY <2>2 DEF NodesSafe
<1> QED
  BY <1>1, <1>2

\* Likewise the instances, whatever their hosts.
LEMMA InstancesStaySafe ==
    ASSUME InstancesSafe, Excused => Excused', NoneNew, UNCHANGED ha_instance,
           \A c \in Clusters' : LET o == cluster_dict[c]
                                IN  /\ Len(instance_list'[o]) = Len(instance_list[o])
                                    /\ \A k \in 1..Len(instance_list[o]) :
                                          instance_list'[o][k].id = instance_list[o][k].id,
           \A t \in Threads : Apart(t) \/ Dirty(t)',
           \A t \in Threads : Deletes(t) => Deletes(t)' \/ Dirty(t)' \/ Excused'
    PROVE  InstancesSafe'
<1>1. CASE Excused' \/ \E t \in Threads : Dirty(t)' \/ Deletes(t)'
  BY <1>1 DEF InstancesSafe
<1>2. CASE ~Excused' /\ \A t \in Threads : ~Dirty(t)' /\ ~Deletes(t)' /\ Apart(t)
  <2>1. ~Excused /\ \A t \in Threads : ~Dirty(t) /\ ~Deletes(t)
    BY <1>2 DEF Apart, Busy, Dirty
  <2>2. ASSUME NEW c \in Clusters' PROVE InstancesKept(c)'
    <3>1. c \in Clusters /\ cluster_dict'[c] = cluster_dict[c]
      BY DEF NoneNew
    <3>2. InstancesKept(c)
      BY <2>1, <3>1 DEF InstancesSafe
    <3>3. \A t \in Threads : Waiting(t, c) => Waiting(t, c)'
      BY <1>2, <3>1 DEF Apart, Busy, WritePlaces, Waiting
    <3>4. \A t \in Threads : \A k : WritesInstance(t, c, k) => WritesInstance(t, c, k)'
      BY <1>2, <3>1 DEF Apart, Busy, WritePlaces, WritesInstance
    <3> QED
      BY <3>1, <3>2, <3>3, <3>4 DEF InstancesKept, InstanceRow
  <2> QED
    BY <2>2 DEF InstancesSafe
<1> QED
  BY <1>1, <1>2

\* A controller that does not run holds nothing.
LEMMA VacantKept ==
    ASSUME Vacant, UNCHANGED <<cluster_dict, alive>>
    PROVE  Vacant'
  BY DEF Vacant, Clusters

\* A step that leaves the memory, the tables and the saves alone.
LEMMA AsideIsKept ==
    ASSUME KInv, SInv', UNCHANGED <<memory, ha_cluster, ha_node, ha_instance, cursor, alive, failed>>,
           unsaved => unsaved', overlapped => overlapped',
           \A t \in Threads : Apart(t) \/ Dirty(t)',
           \A t \in Threads : pc[t] = "delete" => pc'[t] = "delete"
    PROVE  KInv'
<1>1. UNCHANGED <<cluster_dict, node_list, instance_list>>
  BY DEF memory
<1>2. NoneNew /\ (Excused => Excused')
  BY <1>1 DEF NoneNew, Clusters, Excused
<1>3. Vacant'
  BY <1>1, VacantKept DEF KInv
<1>4. ASSUME Trusted' PROVE Safe'
  <2>1. ClustersSafe /\ NodesSafe /\ InstancesSafe
    BY <1>4 DEF Trusted, KInv, Safe
  <2>2. ClustersSafe'
    BY <1>2, <2>1, ClustersStaySafe
  <2>3. NodesSafe'
    BY <1>1, <1>2, <2>1, NodesStaySafe
  <2>4. \A t \in Threads : Deletes(t) => Deletes(t)' \/ Excused'
    BY DEF Deletes, Excused
  <2>5. \A c \in Clusters' : LET o == cluster_dict[c]
                             IN  /\ Len(instance_list'[o]) = Len(instance_list[o])
                                 /\ \A k \in 1..Len(instance_list[o]) :
                                       instance_list'[o][k].id = instance_list[o][k].id
    BY <1>1
  <2>6. InstancesSafe'
    BY <1>2, <2>1, <2>4, <2>5, InstancesStaySafe
  <2> QED
    BY <2>2, <2>3, <2>6 DEF Safe
<1> QED
  BY <1>3, <1>4 DEF KInv

\* A step of the thread t, as far as the saves of the others are concerned.
Others(t) ==
    \A u \in Threads : u # t => /\ pc'[u] = pc[u] /\ position'[u] = position[u]
                                /\ todo'[u] = todo[u] /\ writing'[u] = writing[u]

\* A step of one thread that has nothing to save yet.
LEMMA StepIsKept ==
    ASSUME KInv, SInv', NEW t \in Threads, Others(t), pc[t] \notin Busy \cup {"delete"},
           UNCHANGED <<memory, tables, cursor, alive, failed>>,
           unsaved => unsaved', overlapped => overlapped'
    PROVE  KInv'
<1>1. UNCHANGED <<ha_cluster, ha_node, ha_instance>>
  BY DEF tables
<1>2. \A u \in Threads : Apart(u)
  BY DEF Others, Apart
<1>3. \A u \in Threads : pc[u] = "delete" => pc'[u] = "delete"
  BY DEF Others
<1> QED
  BY <1>1, <1>2, <1>3, AsideIsKept

\* A crash forgets the memory, and so does the start find it empty.
LEMMA ProcessIsKept ==
    ASSUME KInv, SInv', Process
    PROVE  KInv'
<1>1. CASE Crash
  <2>1. /\ alive' = FALSE /\ cluster_dict' = NoClusters
    BY <1>1 DEF Crash
  <2>2. Clusters' = {}
    BY <2>1 DEF Clusters, NoClusters
  <2> QED
    BY <2>1, <2>2 DEF KInv, Vacant, Trusted
<1>2. CASE sync_from_db \/ sync_from_db_fails
  <2>1. /\ ~alive /\ alive' = TRUE /\ UNCHANGED memory
    BY <1>2 DEF sync_from_db, sync_from_db_fails, Start
  <2>2. Clusters' = {}
    BY <2>1, MemoryKept DEF KInv, Vacant, memory
  <2> QED
    BY <2>1, <2>2 DEF KInv, Vacant, Safe, ClustersSafe, NodesSafe, InstancesSafe
<1> QED
  BY <1>1, <1>2 DEF Process

\* When the cloud changes nothing is lost; after a fault nothing is promised.
LEMMA WorldIsKept ==
    ASSUME KInv, SInv', CloudChanges \/ ServerChanges
    PROVE  KInv'
<1>1. CASE CloudChanges
  <2>1. UNCHANGED <<memory, ha_cluster, ha_node, ha_instance, cursor, alive, failed, unsaved,
                    overlapped, pc, position, todo, writing>>
    BY <1>1 DEF CloudChanges, tables, start, thread
  <2>2. \A t \in Threads : Apart(t)
    BY <2>1 DEF Apart
  <2> QED
    BY <2>1, <2>2, AsideIsKept
<1>2. CASE ServerChanges
  <2>1. /\ failed' /\ UNCHANGED <<memory, alive>>
    BY <1>2 DEF ServerChanges, Trouble, start
  <2>2. Vacant'
    BY <2>1, VacantKept DEF KInv, memory
  <2> QED
    BY <2>1, <2>2 DEF KInv, Trusted
<1> QED
  BY <1>1, <1>2

\* The domains of what the threads keep.
LEMMA ThreadDomains ==
    ASSUME KInv
    PROVE  DOMAIN pc = Threads /\ DOMAIN position = Threads /\ DOMAIN todo = Threads /\ DOMAIN writing = Threads
  BY DEF KInv, SInv, IInv, Shared

\* A request begins, or the loading goes on.
LEMMA BeginsIsKept ==
    ASSUME KInv, SInv', NEW t \in Threads, NEW r, Begins(t, r), overlapped => overlapped',
           UNCHANGED <<memory, tables, cursor, alive, failed, unsaved>>
    PROVE  KInv'
<1>1. Others(t)
  BY ThreadDomains DEF Begins, Goto, Others
<1>2. pc[t] \notin Busy \cup {"delete"}
  BY DEF Begins, At, Busy, WritePlaces
<1> QED
  BY <1>1, <1>2, StepIsKept

\* A request is over.
LEMMA ForgetsIsKept ==
    ASSUME KInv, SInv', NEW t \in Threads, Forgets(t), pc[t] = "answer", overlapped => overlapped',
           UNCHANGED <<memory, tables, cursor, alive, failed, unsaved>>
    PROVE  KInv'
<1>1. Others(t)
  BY ThreadDomains DEF Forgets, Goto, Others
<1>2. pc[t] \notin Busy \cup {"delete"}
  BY DEF Busy, WritePlaces
<1> QED
  BY <1>1, <1>2, StepIsKept

\* The main thread loads what has been read.
LEMMA LoadIsKept ==
    ASSUME KInv, SInv', Load
    PROVE  KInv'
<1>1. Loader \in Threads
  BY DEF Threads
<1>2. ASSUME NEW r, NEW left, LoaderBegins(r, left) PROVE KInv'
  <2>1. /\ Begins(Loader, r)
        /\ UNCHANGED <<memory, tables, cursor, alive, failed, unsaved, overlapped>>
    BY <1>2 DEF LoaderBegins, world, history
  <2> QED
    BY <1>1, <2>1, BeginsIsKept
<1>3. CASE LoaderGoesOn
  <2>1. /\ Forgets(Loader) /\ pc[Loader] = "answer"
        /\ UNCHANGED <<memory, tables, cursor, alive, failed, unsaved, overlapped>>
    BY <1>3 DEF LoaderGoesOn, At, world
  <2> QED
    BY <1>1, <2>1, ForgetsIsKept
<1>4. CASE LoadEnds
  <2>1. UNCHANGED <<memory, ha_cluster, ha_node, ha_instance, cursor, alive, failed, unsaved,
                    overlapped, pc, position, todo, writing>>
    BY <1>4 DEF LoadEnds, tables, thread, world
  <2>2. \A t \in Threads : Apart(t)
    BY <2>1 DEF Apart
  <2> QED
    BY <2>1, <2>2, AsideIsKept
<1> QED
  BY <1>2, <1>3, <1>4 DEF Load, LoadCluster, LoadNodes, LoadInstance

\* A request comes in while others may be under way.
LEMMA ReceiveIsKept ==
    ASSUME KInv, SInv', NEW h \in Handlers, NEW r, Receive(h, r)
    PROVE  KInv'
<1>1. /\ Begins(h, r) /\ (overlapped => overlapped') /\ h \in Threads
      /\ UNCHANGED <<memory, tables, cursor, alive, failed, unsaved>>
  BY DEF Receive, world, start, Threads
<1> QED
  BY <1>1, BeginsIsKept

\* The steps of a request that only look.
LEMMA ChecksAreKept ==
    ASSUME KInv, SInv', NEW t \in Threads, ChecksOnly(t) \/ Answer(t)
    PROVE  KInv'
<1>1. CASE Answer(t)
  <2>1. /\ Forgets(t) /\ pc[t] = "answer"
        /\ UNCHANGED <<memory, tables, cursor, alive, failed, unsaved, overlapped>>
    BY <1>1 DEF Answer, At, world, start
  <2> QED
    BY <2>1, ForgetsIsKept
<1>2. CASE ChecksOnly(t)
  <2>1. pc[t] \in {"begin", "fill"} /\ InMemory /\ UNCHANGED <<memory, writing>>
    BY <1>2 DEF ChecksOnly, CreateClusterChecks, AddNodeChecks, AddInstanceChecks,
                DeleteInstanceBegins, UpdateAllBegins, UpdateDb, At
  <2>2. UNCHANGED <<tables, cursor, alive, failed, unsaved, overlapped>>
    BY <2>1 DEF InMemory, world, start, history
  <2>3. /\ \E place : pc' = [pc EXCEPT ![t] = place]
        /\ UNCHANGED position \/ position' = [position EXCEPT ![t] = 1]
        /\ UNCHANGED todo \/ \E pairs : todo' = [todo EXCEPT ![t] = pairs]
    BY <1>2 DEF ChecksOnly, CreateClusterChecks, AddNodeChecks, AddInstanceChecks,
                DeleteInstanceBegins, UpdateAllBegins, UpdateDb, Finish, Goto
  <2>4. Others(t)
    BY <2>1, <2>3, ThreadDomains DEF Others
  <2>5. pc[t] \notin Busy \cup {"delete"}
    BY <2>1 DEF Busy, WritePlaces
  <2> QED
    BY <2>1, <2>2, <2>4, <2>5, StepIsKept
<1> QED
  BY <1>1, <1>2
----------------------------------------------------------------------------
(***************************************************************************)
(* The steps in memory, and what a crash finds after them.                 *)
(***************************************************************************)
\* A thread has changed the memory and will save it.
LEMMA ChangeIsKept ==
    ASSUME KInv, SInv', NEW t \in Threads, alive, UNCHANGED alive, Dirty(t)'
    PROVE  KInv'
  BY DirtySafe DEF KInv, Vacant

\* What a step in memory leaves alone.
LEMMA RaisingFrame ==
    ASSUME Raising
    PROVE  UNCHANGED <<tables, cursor, alive, failed, overlapped, ha_cluster, ha_node, ha_instance>>
  BY DEF Raising, start, tables

\* Likewise one that cannot raise.
LEMMA InMemoryFrame ==
    ASSUME InMemory
    PROVE  /\ UNCHANGED <<tables, cursor, alive, failed, unsaved, overlapped>>
           /\ UNCHANGED <<ha_cluster, ha_node, ha_instance>>
  BY DEF InMemory, start, history, tables

\* What only one list of nodes loses is still there for the others, and what is left of
\* it was in the tables if all of it was; and no save goes on unless requests have met.
LEMMA NodesShrink ==
    ASSUME KInv, SInv', NodesSafe, ~overlapped, UNCHANGED <<cluster_dict, ha_node>>,
           NEW t \in Threads, pc[t] \notin {"idle"} \cup Busy,
           \A o \in Objects : ToSet(node_list'[o]) \subseteq ToSet(node_list[o])
    PROVE  NodesSafe'
<1>1. Alone /\ Memory /\ Memory'
  BY DEF KInv, SInv, IInv
<1>2. \A u \in Threads : u # t => pc[u] = "idle"
  BY <1>1 DEF Alone
<1>3. \A u \in Threads : ~Dirty(u) /\ \A c : ~Waiting(u, c) /\ \A j : ~WritesNode(u, c, j)
  BY <1>2 DEF Dirty, Waiting, WritesNode, WritePlaces, Busy
<1>4. Clusters' = Clusters
  BY DEF Clusters
<1>5. ASSUME NEW c \in Clusters PROVE NodesKept(c)'
  <2> DEFINE p == cluster_dict[c]
  <2>1. NodesKept(c)
    BY <1>3 DEF NodesSafe, Excused
  <2>2. \A j \in 1..Len(node_list[p]) : NodeRow(node_list[p][j], c) \in ha_node
    BY <1>3, <2>1 DEF NodesKept
  <2>3. p \in Objects /\ node_list[p] \in Seq(Nodes) /\ node_list'[p] \in Seq(Nodes)
    BY <1>1 DEF Memory, Clusters
  <2>4. \A x \in ToSet(node_list[p]) : NodeRow(x, c) \in ha_node
    BY <2>2, <2>3, Elements
  <2>5. \A j \in 1..Len(node_list'[p]) : node_list'[p][j] \in ToSet(node_list[p])
    <3>1. ToSet(node_list'[p]) = {node_list'[p][j] : j \in 1..Len(node_list'[p])}
      BY <2>3, Elements
    <3>2. ToSet(node_list'[p]) \subseteq ToSet(node_list[p])
      BY <2>3
    <3> QED
      BY <3>1, <3>2
  <2> QED
    BY <2>4, <2>5 DEF NodesKept, NodeRow
<1> QED
  BY <1>4, <1>5 DEF NodesSafe

\* Likewise the instances.
LEMMA InstancesShrink ==
    ASSUME KInv, SInv', InstancesSafe, ~overlapped, UNCHANGED <<cluster_dict, ha_instance>>,
           NEW t \in Threads, pc[t] \notin {"idle"} \cup Busy,
           \A o \in Objects : ToSet(instance_list'[o]) \subseteq ToSet(instance_list[o])
    PROVE  InstancesSafe'
<1>1. Alone /\ Memory /\ Memory'
  BY DEF KInv, SInv, IInv
<1>2. \A u \in Threads : u # t => pc[u] = "idle"
  BY <1>1 DEF Alone
<1>3. \A u \in Threads : /\ ~Dirty(u) /\ ~Deletes(u)
                         /\ \A c : ~Waiting(u, c) /\ \A j : ~WritesInstance(u, c, j)
  BY <1>2 DEF Dirty, Deletes, Waiting, WritesInstance, WritePlaces, Busy
<1>4. Clusters' = Clusters
  BY DEF Clusters
<1>5. ASSUME NEW c \in Clusters PROVE InstancesKept(c)'
  <2> DEFINE p == cluster_dict[c]
  <2>1. InstancesKept(c)
    BY <1>3 DEF InstancesSafe, Excused
  <2>2. \A j \in 1..Len(instance_list[p]) : InstanceRow(instance_list[p][j].id, c) \in ha_instance
    BY <1>3, <2>1 DEF InstancesKept
  <2>3. /\ p \in Objects /\ instance_list[p] \in Seq(InstanceObjects)
        /\ instance_list'[p] \in Seq(InstanceObjects)
    BY <1>1 DEF Memory, Clusters
  <2>4. \A x \in ToSet(instance_list[p]) : InstanceRow(x.id, c) \in ha_instance
    BY <2>2, <2>3, Elements
  <2>5. \A j \in 1..Len(instance_list'[p]) : instance_list'[p][j] \in ToSet(instance_list[p])
    <3>1. ToSet(instance_list'[p]) = {instance_list'[p][j] : j \in 1..Len(instance_list'[p])}
      BY <2>3, Elements
    <3>2. ToSet(instance_list'[p]) \subseteq ToSet(instance_list[p])
      BY <2>3
    <3> QED
      BY <3>1, <3>2
  <2> QED
    BY <2>4, <2>5 DEF InstancesKept, InstanceRow
<1> QED
  BY <1>4, <1>5 DEF InstancesSafe

\* A new cluster is saved next.
LEMMA CreateClusterIsKept ==
    ASSUME KInv, SInv', NEW t \in Threads, CreateCluster(t)
    PROVE  KInv'
<1>1. InMemory /\ alive /\ pc' = [pc EXCEPT ![t] = "save"]
  BY DEF CreateCluster, At, Goto
<1>2. Dirty(t)'
  BY <1>1, ThreadDomains DEF Dirty
<1> QED
  BY <1>1, <1>2, InMemoryFrame, ChangeIsKept

\* And so is the deletion of one, unless it is refused or raises; a cluster that is gone
\* has nothing to lose.
LEMMA DeleteClusterIsKept ==
    ASSUME KInv, SInv', NEW t \in Threads, DeleteCluster(t)
    PROVE  KInv'
<1>1. /\ InMemory /\ alive /\ pc[t] = "begin"
      /\ UNCHANGED <<node_list, instance_list, created, position, todo, writing>>
      /\ \/ UNCHANGED cluster_dict
         \/ cluster_dict' = [cluster_dict EXCEPT ![request[t].cluster] = None]
      /\ pc' \in {[pc EXCEPT ![t] = "answer"], [pc EXCEPT ![t] = "save"]}
  BY DEF DeleteCluster, At, Goto, Finish
<1>2. UNCHANGED <<alive, cursor, failed, unsaved, overlapped, ha_cluster, ha_node, ha_instance>>
  BY <1>1, InMemoryFrame
<1>3. CASE pc' = [pc EXCEPT ![t] = "save"]
  <2>1. Dirty(t)'
    BY <1>3, ThreadDomains DEF Dirty
  <2> QED
    BY <1>1, <1>2, <2>1, ChangeIsKept
<1>4. CASE pc' = [pc EXCEPT ![t] = "answer"]
  <2>1. NoneNew
    <3>1. DOMAIN cluster_dict = ClusterNames
      BY DEF KInv, SInv, IInv, Memory
    <3> QED
      BY <1>1, <3>1 DEF NoneNew, Clusters
  <2>2. Excused => Excused'
    BY <1>2 DEF Excused
  <2>3. pc[t] \notin Busy
    BY <1>1 DEF Busy, WritePlaces
  <2>4. \A u \in Threads : Apart(u)
    BY <1>1, <1>4, <2>3 DEF Apart
  <2>5. \A u \in Threads : Deletes(u) => Deletes(u)'
    BY <1>1, <1>2, <1>4 DEF Deletes
  <2>6. ASSUME Trusted' PROVE Safe'
    <3>1. ClustersSafe /\ NodesSafe /\ InstancesSafe
      BY <1>2, <2>6 DEF Trusted, KInv, Safe
    <3>2. ClustersSafe'
      BY <1>2, <2>1, <2>4, <3>1, ClustersStaySafe
    <3>3. NodesSafe'
      BY <1>1, <1>2, <2>1, <2>2, <2>4, <3>1, NodesStaySafe
    <3>4. \A c \in Clusters' : LET o == cluster_dict[c]
                               IN  /\ Len(instance_list'[o]) = Len(instance_list[o])
                                   /\ \A k \in 1..Len(instance_list[o]) :
                                         instance_list'[o][k].id = instance_list[o][k].id
      BY <1>1
    <3>5. InstancesSafe'
      BY <1>2, <2>1, <2>2, <2>4, <2>5, <3>1, <3>4, InstancesStaySafe
    <3> QED
      BY <3>2, <3>3, <3>5 DEF Safe
  <2> QED
    BY <1>1, <1>2, <2>6 DEF KInv, Vacant
<1> QED
  BY <1>1, <1>3, <1>4

\* Each node that is added makes the save due, which comes after the last.
LEMMA AddNodeIsKept ==
    ASSUME KInv, SInv', NEW t \in Threads, AddNode(t)
    PROVE  KInv'
<1>1. InMemory /\ alive /\ \E place \in {"save", "add nodes"} : pc' = [pc EXCEPT ![t] = place]
  BY DEF AddNode, At, Goto
<1>2. Dirty(t)'
  BY <1>1, ThreadDomains DEF Dirty
<1> QED
  BY <1>1, <1>2, InMemoryFrame, ChangeIsKept

\* The deletion of a node is saved, unless the list held it twice: then requests have
\* met, or what is left of the list is in the tables.
LEMMA DeleteNodeIsKept ==
    ASSUME KInv, SInv', NEW t \in Threads, DeleteNode(t)
    PROVE  KInv'
<1> DEFINE o == Cluster(t)
           list == node_list[o]
           at == {k \in 1..Len(list) : list[k] \in request[t].nodes}
<1>1. /\ Raising /\ alive /\ pc[t] = "begin" /\ request[t].op = "delete_node"
      /\ UNCHANGED <<cluster_dict, instance_list, created, position, todo, writing>>
      /\ unsaved => unsaved'
      /\ \/ pc' = [pc EXCEPT ![t] = "save"]
         \/ pc' = [pc EXCEPT ![t] = "answer"] /\ UNCHANGED node_list
         \/ /\ pc' = [pc EXCEPT ![t] = "answer"] /\ unsaved'
            /\ o # None /\ at # {} /\ node_list' = [node_list EXCEPT ![o] = RemoveAt(list, Min(at))]
  BY DEF DeleteNode, At, Op, Finish, Goto
<1>2. UNCHANGED <<alive, tables, cursor, failed, overlapped, ha_cluster, ha_node, ha_instance>>
  BY <1>1, RaisingFrame
<1>3. CASE pc' = [pc EXCEPT ![t] = "save"]
  <2>1. Dirty(t)'
    BY <1>3, ThreadDomains DEF Dirty
  <2> QED
    BY <1>1, <1>2, <2>1, ChangeIsKept
<1>4. CASE pc' = [pc EXCEPT ![t] = "answer"] /\ UNCHANGED node_list
  <2>1. Others(t)
    BY <1>1, <1>4, ThreadDomains DEF Others
  <2>2. UNCHANGED memory /\ pc[t] \notin Busy \cup {"delete"}
    BY <1>1, <1>4 DEF memory, Busy, WritePlaces
  <2> QED
    BY <1>1, <1>2, <2>1, <2>2, StepIsKept
<1>5. CASE /\ pc' = [pc EXCEPT ![t] = "answer"] /\ unsaved'
           /\ o # None /\ at # {} /\ node_list' = [node_list EXCEPT ![o] = RemoveAt(list, Min(at))]
  <2>1. o \in Objects /\ node_list \in [Objects -> Seq(Nodes)]
    BY <1>1, <1>5, NamedCluster DEF KInv, SInv, IInv, ThreadOK, Fits, Memory
  <2>2. list \in Seq(Nodes)
    BY <2>1
  <2>3. Min(at) \in 1..Len(list)
    <3>1. Len(list) \in Nat
      BY <2>2, LenProperties
    <3>2. at \subseteq 1..Len(list) /\ at # {}
      BY <1>5
    <3> HIDE DEF at, list
    <3>3. Min(at) \in at
      BY <3>1, <3>2, MinOfPositions
    <3> QED
      BY <3>2, <3>3
  <2> DEFINE new == RemoveAt(list, Min(at))
  <2>4. ToSet(new) \subseteq ToSet(list)
    BY <2>2, <2>3, RemoveNode
  <2>5. node_list' = [node_list EXCEPT ![o] = new]
    BY <1>5
  <2> HIDE DEF new, at
  <2>6. \A p \in Objects : ToSet(node_list'[p]) \subseteq ToSet(node_list[p])
    BY <2>1, <2>4, <2>5
  <2>7. NoneNew /\ (Excused => Excused') /\ (overlapped => Excused')
    BY <1>1, <1>2, <1>5 DEF NoneNew, Clusters, Excused
  <2>8. pc[t] \notin {"idle"} \cup Busy
    BY <1>1 DEF Busy, WritePlaces
  <2>9. \A u \in Threads : Apart(u) /\ (Deletes(u) => Excused')
    BY <1>1, <1>5, <2>7, <2>8 DEF Apart, Deletes
  <2>10. ASSUME Trusted' PROVE Safe'
    <3>1. ClustersSafe /\ NodesSafe /\ InstancesSafe
      BY <1>2, <2>10 DEF Trusted, KInv, Safe
    <3>2. ClustersSafe'
      BY <1>2, <2>7, <2>9, <3>1, ClustersStaySafe
    <3>3. NodesSafe'
      <4>1. CASE overlapped
        BY <2>7, <4>1 DEF NodesSafe
      <4>2. CASE ~overlapped
        BY <1>1, <1>2, <2>6, <2>8, <3>1, <4>2, NodesShrink
      <4> QED
        BY <4>1, <4>2
    <3>4. \A c \in Clusters' : LET p == cluster_dict[c]
                               IN  /\ Len(instance_list'[p]) = Len(instance_list[p])
                                   /\ \A k \in 1..Len(instance_list[p]) :
                                         instance_list'[p][k].id = instance_list[p][k].id
      BY <1>1
    <3>5. InstancesSafe'
      BY <1>2, <2>7, <2>9, <3>1, <3>4, InstancesStaySafe
    <3> QED
      BY <3>2, <3>3, <3>5 DEF Safe
  <2> QED
    BY <1>1, <1>2, <2>10 DEF KInv, Vacant
<1> QED
  BY <1>1, <1>3, <1>4, <1>5

\* A host is looked for, and nothing changed yet.
LEMMA AddInstanceIsKept ==
    ASSUME KInv, SInv', NEW t \in Threads, AddInstance(t)
    PROVE  KInv'
<1>1. /\ InMemory /\ UNCHANGED memory /\ pc[t] = "protect" /\ UNCHANGED <<position, todo, writing>>
      /\ \E place : pc' = [pc EXCEPT ![t] = place]
  BY DEF AddInstance, At, Finish, Goto
<1>2. Others(t)
  BY <1>1, ThreadDomains DEF Others
<1>3. pc[t] \notin Busy \cup {"delete"}
  BY <1>1 DEF Busy, WritePlaces
<1> QED
  BY <1>1, <1>2, <1>3, InMemoryFrame, StepIsKept

\* The new instance is saved, unless its host has left the cluster: then requests have met.
LEMMA AppendInstanceIsKept ==
    ASSUME KInv, SInv', NEW t \in Threads, AppendInstance(t)
    PROVE  KInv'
<1>1. /\ Raising /\ alive /\ pc[t] = "append"
      /\ UNCHANGED <<cluster_dict, node_list, created, position, todo, writing>>
      /\ \/ pc' = [pc EXCEPT ![t] = "save"]
         \/ /\ pc' = [pc EXCEPT ![t] = "answer"] /\ unsaved'
            /\ ~(request[t].nodes \subseteq NodesOf(object[t]))
  BY DEF AppendInstance, At, Finish, Goto
<1>2. UNCHANGED <<alive, cursor, failed, overlapped, ha_cluster>>
  BY <1>1, RaisingFrame
<1>3. CASE pc' = [pc EXCEPT ![t] = "save"]
  <2>1. Dirty(t)'
    BY <1>3, ThreadDomains DEF Dirty
  <2> QED
    BY <1>1, <1>2, <2>1, ChangeIsKept
<1>4. CASE /\ pc' = [pc EXCEPT ![t] = "answer"] /\ unsaved'
           /\ ~(request[t].nodes \subseteq NodesOf(object[t]))
  <2>1. overlapped
    BY <1>1, <1>4 DEF KInv, SInv, IInv, Relies
  <2>2. Excused'
    BY <1>2, <1>4, <2>1 DEF Excused
  <2>3. NoneNew /\ pc[t] \notin Busy
    BY <1>1 DEF NoneNew, Clusters, Busy, WritePlaces
  <2>4. \A u \in Threads : Apart(u)
    BY <1>1, <1>4, <2>3 DEF Apart
  <2>5. Trusted' => Safe'
    BY <1>2, <2>2, <2>3, <2>4, ClustersStaySafe DEF Trusted, KInv, Safe, NodesSafe, InstancesSafe
  <2> QED
    BY <1>1, <1>2, <2>5 DEF KInv, Vacant
<1> QED
  BY <1>1, <1>3, <1>4
----------------------------------------------------------------------------
(***************************************************************************)
(* Corrections and deletions.                                              *)
(***************************************************************************)
\* When hosts are corrected no id changes.
LEMMA HostsCorrected ==
    ASSUME KInv, SInv', NEW t \in Threads, alive, InMemory, Others(t),
           UNCHANGED <<cluster_dict, node_list>>, pc[t] \in {"begin", "update all"},
           NEW o \in Objects, NEW new, instance_list' = [instance_list EXCEPT ![o] = new],
           Len(new) = Len(instance_list[o]),
           \A k \in 1..Len(new) : new[k].id = instance_list[o][k].id
    PROVE  KInv'
<1>1. UNCHANGED <<ha_cluster, ha_node, ha_instance, cursor, alive, failed, unsaved, overlapped>>
  BY InMemoryFrame
<1>2. instance_list \in [Objects -> Seq(InstanceObjects)] /\ cluster_dict \in [ClusterNames -> Objects \cup {None}]
  BY DEF KInv, SInv, IInv, Memory
<1>3. \A p \in Objects : instance_list'[p] = IF p = o THEN new ELSE instance_list[p]
  BY <1>2
<1>4. NoneNew /\ (Excused => Excused')
  BY <1>1 DEF NoneNew, Clusters, Excused
<1>5. \A c \in Clusters' : cluster_dict[c] \in Objects
  BY <1>2 DEF Clusters
<1>6. \A c \in Clusters' : LET p == cluster_dict[c]
                           IN  /\ Len(instance_list'[p]) = Len(instance_list[p])
                               /\ \A k \in 1..Len(instance_list[p]) :
                                     instance_list'[p][k].id = instance_list[p][k].id
  BY <1>3, <1>5
<1>7. \A u \in Threads : Apart(u) /\ (Deletes(u) => Deletes(u)')
  BY <1>1 DEF Others, Apart, Busy, WritePlaces, Deletes
<1>8. ASSUME Trusted' PROVE Safe'
  <2>1. ClustersSafe /\ NodesSafe /\ InstancesSafe
    BY <1>1, <1>8 DEF Trusted, KInv, Safe
  <2>2. ClustersSafe'
    BY <1>1, <1>4, <1>7, <2>1, ClustersStaySafe
  <2>3. NodesSafe'
    BY <1>1, <1>4, <1>7, <2>1, NodesStaySafe
  <2>4. InstancesSafe'
    BY <1>1, <1>4, <1>6, <1>7, <2>1, InstancesStaySafe
  <2> QED
    BY <2>2, <2>3, <2>4 DEF Safe
<1> QED
  BY <1>1, <1>8 DEF KInv, Vacant

\* One host is corrected, and nothing saved: no id has changed.
LEMMA UpdateInstanceHostIsKept ==
    ASSUME KInv, SInv', NEW t \in Threads, UpdateInstanceHost(t)
    PROVE  KInv'
<1> DEFINE o == Cluster(t)
           list == instance_list[o]
           stale == {k \in 1..Len(list) :
                        /\ list[k].id = request[t].instance
                        /\ list[k].host # placed[list[k].id]}
           m == Min(stale)
           new == [list EXCEPT ![m] = [list[m] EXCEPT !.host = placed[request[t].instance]]]
<1>1. /\ InMemory /\ alive /\ pc[t] = "begin" /\ request[t].op = "update_instance_host"
      /\ UNCHANGED <<cluster_dict, node_list, created, position, todo, writing>>
      /\ pc' = [pc EXCEPT ![t] = "answer"]
      /\ \/ UNCHANGED instance_list
         \/ o # None /\ stale # {} /\ instance_list' = [instance_list EXCEPT ![o] = new]
  BY DEF UpdateInstanceHost, At, Op, Finish, Goto
<1>2. Others(t)
  BY <1>1, ThreadDomains DEF Others
<1>3. CASE UNCHANGED instance_list
  <2>1. UNCHANGED memory /\ pc[t] \notin Busy \cup {"delete"}
    BY <1>1, <1>3 DEF memory, Busy, WritePlaces
  <2>2. UNCHANGED <<tables, cursor, alive, failed, unsaved, overlapped>>
    BY <1>1, InMemoryFrame
  <2> QED
    BY <1>2, <2>1, <2>2, StepIsKept
<1>4. CASE o # None /\ stale # {} /\ instance_list' = [instance_list EXCEPT ![o] = new]
  <2>1. ThreadOK(t) /\ Memory /\ Outer /\ Fresh
    BY DEF KInv, SInv, IInv
  <2>2. request[t].cluster \in ClusterNames /\ request[t].instance \in Instances
    BY <1>1, <2>1 DEF ThreadOK, Fits
  <2>3. o \in Objects
    BY <1>4, <2>1, <2>2, NamedCluster
  <2>4. list \in Seq(InstanceObjects) /\ placed[request[t].instance] \in Nodes \cup {Elsewhere}
    BY <2>1, <2>2, <2>3 DEF Memory, Outer
  <2>5. DOMAIN list = 1..Len(list) /\ Len(list) \in Nat /\ \A k \in 1..Len(list) : list[k] \in InstanceObjects
    BY <2>4, Elements, ElementOfSeq
  <2>6. m \in stale
    <3>1. stale \subseteq 1..Len(list) /\ stale # {}
      BY <1>4
    <3> HIDE DEF stale, list
    <3> QED
      BY <2>5, <3>1, MinOfPositions
  <2>7. list[m].id = request[t].instance
    BY <2>6
  <2>8. DOMAIN new = 1..Len(list) /\ new = [k \in 1..Len(list) |-> new[k]]
    BY <2>5
  <2> HIDE DEF m
  <2>9. \A k \in 1..Len(list) : /\ new[k] \in InstanceObjects /\ new[k].id = list[k].id
                                /\ new[k].host \in {list[k].host, placed[new[k].id]}
    BY <2>4, <2>5, <2>7 DEF InstanceObjects
  <2>10. instance_list' = [instance_list EXCEPT ![o] = new]
    BY <1>4
  <2> HIDE DEF new
  <2>11. new \in Seq(InstanceObjects) /\ Len(new) = Len(list)
    BY <2>4, <2>8, <2>9, SameIds
  <2> QED
    BY <1>1, <1>2, <2>3, <2>9, <2>10, <2>11, HostsCorrected
<1> QED
  BY <1>1, <1>3, <1>4

\* Each cluster's hosts are corrected in turn, before the save.
LEMMA UpdateAllIsKept ==
    ASSUME KInv, SInv', NEW t \in Threads, UpdateAll(t)
    PROVE  KInv'
<1>1. /\ InMemory /\ alive /\ pc[t] = "update all"
      /\ UNCHANGED <<cluster_dict, node_list, created, position, writing>>
      /\ UNCHANGED pc \/ \E place \in {"answer", "save"} : pc' = [pc EXCEPT ![t] = place]
      /\ UNCHANGED todo \/ \E left \in SUBSET todo[t] : todo' = [todo EXCEPT ![t] = left]
      /\ \/ UNCHANGED instance_list
         \/ \E pair \in todo[t] : \E last :
                instance_list' =
                    [instance_list EXCEPT ![pair[2]] = Updated(instance_list[pair[2]], last)]
  BY DEF UpdateAll, At, Finish, Goto
<1>2. Others(t)
  BY <1>1, ThreadDomains DEF Others
<1>3. CASE UNCHANGED instance_list
  <2>1. UNCHANGED memory /\ pc[t] \notin Busy \cup {"delete"}
    BY <1>1, <1>3 DEF memory, Busy, WritePlaces
  <2>2. UNCHANGED <<tables, cursor, alive, failed, unsaved, overlapped>>
    BY <1>1, InMemoryFrame
  <2> QED
    BY <1>2, <2>1, <2>2, StepIsKept
<1>4. ASSUME NEW pair \in todo[t], NEW last,
             instance_list' = [instance_list EXCEPT ![pair[2]] = Updated(instance_list[pair[2]], last)]
      PROVE  KInv'
  <2> DEFINE o == pair[2]
             list == instance_list[o]
             new == Updated(list, last)
  <2>1. ThreadOK(t) /\ Memory /\ Outer
    BY DEF KInv, SInv, IInv
  <2>2. o \in Objects
    BY <2>1 DEF ThreadOK
  <2>3. list \in Seq(InstanceObjects) /\ placed \in [Instances -> Nodes \cup {Elsewhere}]
    BY <2>1, <2>2 DEF Memory, Outer
  <2>4. \A k \in 1..Len(list) : list[k] \in InstanceObjects
    BY <2>3, ElementOfSeq
  <2>5. DOMAIN new = 1..Len(list) /\ new = [k \in 1..Len(list) |-> new[k]]
    BY DEF Updated
  <2>6. \A k \in 1..Len(list) : /\ new[k] \in InstanceObjects /\ new[k].id = list[k].id
                                /\ new[k].host \in {list[k].host, placed[new[k].id]}
    BY <2>3, <2>4 DEF Updated, InstanceObjects
  <2> HIDE DEF new
  <2>7. new \in Seq(InstanceObjects) /\ Len(new) = Len(list)
    BY <2>3, <2>5, <2>6, SameIds
  <2>8. instance_list' = [instance_list EXCEPT ![o] = new]
    BY <1>4 DEF new
  <2> HIDE DEF o
  <2> QED
    BY <1>1, <1>2, <2>2, <2>6, <2>7, <2>8, HostsCorrected
<1> QED
  BY <1>1, <1>3, <1>4

\* What is left of a list after a deletion was in it, and in the tables if all of it
\* was; and no save goes on meanwhile unless requests have met.
LEMMA DeleteInstanceIsKept ==
    ASSUME KInv, SInv', NEW t \in Threads, DeleteInstance(t)
    PROVE  KInv'
<1> DEFINE o == object[t]
           k == position[t]
           list == instance_list[o]
           new == RemoveAt(list, k)
<1>1. /\ Raising /\ alive /\ pc[t] = "delete" /\ (unsaved => unsaved')
      /\ UNCHANGED <<cluster_dict, node_list, created, todo, writing>>
      /\ position' \in {position, [position EXCEPT ![t] = k + 1]}
      /\ \/ pc' = [pc EXCEPT ![t] = "save"]
         \/ UNCHANGED <<pc, instance_list>>
         \/ /\ ~(k > Len(list)) /\ instance_list' = [instance_list EXCEPT ![o] = new]
            /\ \/ UNCHANGED <<pc, unsaved>>
               \/ unsaved' /\ pc' = [pc EXCEPT ![t] = "answer"]
  BY DEF DeleteInstance, At, Finish, Goto
<1>2. UNCHANGED <<ha_cluster, ha_node, ha_instance, tables, cursor, alive, failed, overlapped>>
  BY <1>1, RaisingFrame
<1>3. Others(t)
  BY <1>1, ThreadDomains DEF Others
<1>4. \A u \in Threads : Apart(u)
  BY <1>1, <1>3 DEF Others, Apart, Busy, WritePlaces
<1>5. CASE pc' = [pc EXCEPT ![t] = "save"]
  <2>1. Dirty(t)'
    BY <1>5, ThreadDomains DEF Dirty
  <2> QED
    BY <1>1, <1>2, <2>1, ChangeIsKept
<1>6. CASE UNCHANGED <<pc, instance_list>>
  <2>1. UNCHANGED memory
    BY <1>1, <1>6 DEF memory
  <2> QED
    BY <1>1, <1>2, <1>4, <1>6, <2>1, AsideIsKept
<1>7. CASE /\ ~(k > Len(list)) /\ instance_list' = [instance_list EXCEPT ![o] = new]
           /\ \/ UNCHANGED <<pc, unsaved>>
              \/ unsaved' /\ pc' = [pc EXCEPT ![t] = "answer"]
  <2>1. ThreadOK(t) /\ Memory
    BY DEF KInv, SInv, IInv
  <2>2. o \in 1..created /\ created \in 0..MaxObjects /\ k \in Nat /\ k # 0
    BY <1>1, <2>1 DEF ThreadOK, Memory
  <2>3. o \in Objects
    BY <2>2, BoundsTyped DEF Objects
  <2>4. list \in Seq(InstanceObjects)
    BY <2>1, <2>3 DEF Memory
  <2>5. k \in 1..Len(list)
    <3>1. Len(list) \in Nat
      BY <2>4, LenProperties
    <3> QED
      BY <1>7, <2>2, <3>1
  <2>6. ToSet(new) \subseteq ToSet(list)
    BY <2>4, <2>5, RemoveInstance
  <2>7. instance_list' = [instance_list EXCEPT ![o] = new]
    BY <1>7
  <2> HIDE DEF new
  <2>8. \A p \in Objects : ToSet(instance_list'[p]) \subseteq ToSet(instance_list[p])
    BY <2>1, <2>6, <2>7 DEF Memory
  <2>9. NoneNew /\ (Excused => Excused')
    BY <1>1, <1>2 DEF NoneNew, Clusters, Excused
  <2>10. ASSUME Trusted' PROVE Safe'
    <3>1. ClustersSafe /\ NodesSafe /\ InstancesSafe
      BY <1>2, <2>10 DEF Trusted, KInv, Safe
    <3>2. ClustersSafe'
      BY <1>2, <1>4, <2>9, <3>1, ClustersStaySafe
    <3>3. NodesSafe'
      BY <1>1, <1>2, <1>4, <2>9, <3>1, NodesStaySafe
    <3>4. InstancesSafe'
      <4>1. CASE overlapped /\ unsaved'
        BY <1>2, <4>1 DEF InstancesSafe, Excused
      <4>2. CASE overlapped /\ ~unsaved'
        <5>1. Deletes(t)'
          BY <1>1, <1>2, <1>7, <4>2 DEF Deletes
        <5> QED
          BY <5>1 DEF InstancesSafe
      <4>3. CASE ~overlapped
        <5>1. pc[t] \notin {"idle"} \cup Busy
          BY <1>1 DEF Busy, WritePlaces
        <5> QED
          BY <1>1, <1>2, <2>8, <3>1, <4>3, <5>1, InstancesShrink
      <4> QED
        BY <4>1, <4>2, <4>3
    <3> QED
      BY <3>2, <3>3, <3>4 DEF Safe
  <2> QED
    BY <1>1, <1>2, <2>10 DEF KInv, Vacant
<1> QED
  BY <1>1, <1>5, <1>6, <1>7
----------------------------------------------------------------------------
(***************************************************************************)
(* The saves, whoever else saves.                                          *)
(***************************************************************************)
\* What a save leaves alone.
LEMMA SavingFrame ==
    ASSUME Saving
    PROVE  UNCHANGED <<memory, cluster_dict, node_list, instance_list, alive, failed, unsaved,
                       overlapped, server>>
  BY DEF Saving, memory, world, start, history

\* A statement of a save has to keep what is promised only while the cursor is open.
LEMMA SaveIsKept ==
    ASSUME KInv, SInv', Saving, cursor' \in {cursor, "closed"},
           server /\ cursor = "open" /\ cursor' = "open" /\ Safe => Safe'
    PROVE  KInv'
<1>1. UNCHANGED <<cluster_dict, alive, failed>>
  BY SavingFrame
<1>2. Vacant'
  BY <1>1, VacantKept DEF KInv
<1>3. ASSUME Trusted' PROVE Safe'
  <2>1. Trusted /\ cursor = "open" /\ cursor' = "open"
    BY <1>1, <1>3 DEF Trusted
  <2>2. server
    BY <2>1 DEF Trusted, KInv, SInv, Faults
  <2> QED
    BY <2>1, <2>2 DEF KInv
<1> QED
  BY <1>2, <1>3 DEF KInv

\* A save that begins has all of its work to do.
LEMMA SaveOpensIsKept ==
    ASSUME KInv, SInv', NEW t \in Threads, SaveStarts(t) \/ ResetAll(t) \/ GetAllTable(t)
    PROVE  KInv'
<1>1. Saving /\ UNCHANGED cursor
  BY DEF SaveStarts, ResetAll, GetAllTable
<1>2. ASSUME server, cursor = "open" PROVE Dirty(t)'
  <2>1. CASE SaveStarts(t) \/ ResetAll(t)
    <3>1. pc'[t] \in {"reset all", "tables"}
      BY <1>2, <2>1, ThreadDomains DEF SaveStarts, ResetAll, Goto
    <3> QED
      BY <3>1 DEF Dirty
  <2>2. CASE GetAllTable(t)
    <3>1. pc'[t] = "reset" /\ position'[t] = 1
      BY <1>2, <2>2, ThreadDomains DEF GetAllTable, Goto
    <3> QED
      BY <3>1 DEF Dirty
  <2> QED
    BY <2>1, <2>2
<1> QED
  BY <1>1, <1>2, DirtySafe, SaveIsKept

\* What is deleted from the tables is still to be written.
LEMMA ResetTableIsKept ==
    ASSUME KInv, SInv', NEW t \in Threads, ResetTable(t)
    PROVE  KInv'
<1>1. Saving /\ UNCHANGED cursor
  BY DEF ResetTable
<1>2. UNCHANGED cluster_dict /\ Clusters' = Clusters
  BY <1>1, SavingFrame DEF Clusters
<1>3. ASSUME cursor = "open" PROVE \A c \in Clusters : Waiting(t, c)'
  <2>1. /\ pc' = [pc EXCEPT ![t] = IF position[t] = 3 THEN "write" ELSE "reset"]
        /\ todo' = IF position[t] = 3
                   THEN [todo EXCEPT ![t] = {<<c, cluster_dict[c]>> : c \in Clusters}]
                   ELSE todo
    BY <1>3 DEF ResetTable, Goto
  <2>2. \/ pc'[t] = "reset"
        \/ pc'[t] = "write" /\ todo'[t] = {<<c, cluster_dict[c]>> : c \in Clusters}
    BY <2>1, ThreadDomains
  <2> QED
    BY <1>2, <2>2 DEF Waiting, WritePlaces
<1>4. cursor = "open" => Safe'
  BY <1>2, <1>3 DEF Safe, ClustersSafe, NodesSafe, InstancesSafe, ClusterKept, NodesKept, InstancesKept
<1> QED
  BY <1>1, <1>4, SaveIsKept

\* The clusters stay safe when a save goes on: what the thread no longer has to write is
\* in the tables.
LEMMA ClustersGoOn ==
    ASSUME ClustersSafe, NEW t \in Threads, Others(t), ~Dirty(t), UNCHANGED cluster_dict,
           ha_cluster \subseteq ha_cluster',
           \A c \in Clusters : Waiting(t, c) => Waiting(t, c)' \/ c \in ha_cluster'
    PROVE  ClustersSafe'
<1>1. \A u \in Threads : u # t => /\ Dirty(u) => Dirty(u)'
                                  /\ \A c : Waiting(u, c) => Waiting(u, c)'
  BY DEF Others, Dirty, Waiting
<1>2. Clusters' = Clusters
  BY DEF Clusters
<1>3. CASE \E u \in Threads : Dirty(u)
  BY <1>1, <1>3 DEF ClustersSafe
<1>4. CASE \A c \in Clusters : ClusterKept(c)
  <2>1. \A c \in Clusters : ClusterKept(c)'
    BY <1>1, <1>4 DEF ClusterKept
  <2> QED
    BY <1>2, <2>1 DEF ClustersSafe
<1> QED
  BY <1>3, <1>4 DEF ClustersSafe

\* Likewise the nodes.
LEMMA NodesGoOn ==
    ASSUME NodesSafe, NEW t \in Threads, Others(t), ~Dirty(t),
           UNCHANGED <<cluster_dict, node_list, overlapped, unsaved>>, ha_node \subseteq ha_node',
           \A c \in Clusters : Waiting(t, c) =>
               \/ Waiting(t, c)'
               \/ \A k \in 1..Len(node_list[cluster_dict[c]]) : WritesNode(t, c, k)',
           \A c \in Clusters : \A k \in 1..Len(node_list[cluster_dict[c]]) : WritesNode(t, c, k) =>
               WritesNode(t, c, k)' \/ NodeRow(node_list[cluster_dict[c]][k], c) \in ha_node'
    PROVE  NodesSafe'
<1>1. \A u \in Threads : u # t => /\ Dirty(u) => Dirty(u)'
                                  /\ \A c : Waiting(u, c) => Waiting(u, c)'
                                  /\ \A c, k : WritesNode(u, c, k) => WritesNode(u, c, k)'
  BY DEF Others, Dirty, Waiting, WritesNode
<1>2. Clusters' = Clusters
  BY DEF Clusters
<1>3. CASE Excused
  BY <1>3 DEF NodesSafe, Excused
<1>4. CASE \E u \in Threads : Dirty(u)
  BY <1>1, <1>4 DEF NodesSafe
<1>5. CASE \A c \in Clusters : NodesKept(c)
  <2>1. ASSUME NEW c \in Clusters PROVE NodesKept(c)'
    <3>1. CASE \E u \in Threads : Waiting(u, c)
      BY <1>1, <3>1 DEF NodesKept
    <3>2. CASE \A k \in 1..Len(node_list[cluster_dict[c]]) :
                  \/ NodeRow(node_list[cluster_dict[c]][k], c) \in ha_node
                  \/ \E u \in Threads : WritesNode(u, c, k)
      <4>1. ASSUME NEW k \in 1..Len(node_list[cluster_dict[c]])
            PROVE  \/ NodeRow(node_list[cluster_dict[c]][k], c) \in ha_node'
                   \/ \E u \in Threads : WritesNode(u, c, k)'
        BY <1>1, <3>2
      <4> QED
        BY <4>1 DEF NodesKept, NodeRow
    <3> QED
      BY <1>5, <3>1, <3>2 DEF NodesKept
  <2> QED
    BY <1>2, <2>1 DEF NodesSafe
<1> QED
  BY <1>3, <1>4, <1>5 DEF NodesSafe

\* Likewise the instances.
LEMMA InstancesGoOn ==
    ASSUME InstancesSafe, NEW t \in Threads, Others(t), ~Dirty(t), ~Deletes(t),
           UNCHANGED <<cluster_dict, instance_list, overlapped, unsaved>>,
           ha_instance \subseteq ha_instance',
           \A c \in Clusters : Waiting(t, c) =>
               \/ Waiting(t, c)'
               \/ \A k \in 1..Len(instance_list[cluster_dict[c]]) : WritesInstance(t, c, k)',
           \A c \in Clusters : \A k \in 1..Len(instance_list[cluster_dict[c]]) : WritesInstance(t, c, k) =>
               \/ WritesInstance(t, c, k)'
               \/ InstanceRow(instance_list[cluster_dict[c]][k].id, c) \in ha_instance'
    PROVE  InstancesSafe'
<1>1. \A u \in Threads : u # t =>
          /\ Dirty(u) => Dirty(u)'
          /\ Deletes(u) => Deletes(u)'
          /\ \A c : Waiting(u, c) => Waiting(u, c)'
          /\ \A c, k : WritesInstance(u, c, k) => WritesInstance(u, c, k)'
  BY DEF Others, Dirty, Deletes, Waiting, WritesInstance
<1>2. Clusters' = Clusters
  BY DEF Clusters
<1>3. CASE Excused
  BY <1>3 DEF InstancesSafe, Excused
<1>4. CASE \E u \in Threads : Dirty(u) \/ Deletes(u)
  BY <1>1, <1>4 DEF InstancesSafe
<1>5. CASE \A c \in Clusters : InstancesKept(c)
  <2>1. ASSUME NEW c \in Clusters PROVE InstancesKept(c)'
    <3>1. CASE \E u \in Threads : Waiting(u, c)
      BY <1>1, <3>1 DEF InstancesKept
    <3>2. CASE \A k \in 1..Len(instance_list[cluster_dict[c]]) :
                  \/ InstanceRow(instance_list[cluster_dict[c]][k].id, c) \in ha_instance
                  \/ \E u \in Threads : WritesInstance(u, c, k)
      <4>1. ASSUME NEW k \in 1..Len(instance_list[cluster_dict[c]])
            PROVE  \/ InstanceRow(instance_list[cluster_dict[c]][k].id, c) \in ha_instance'
                   \/ \E u \in Threads : WritesInstance(u, c, k)'
        BY <1>1, <3>2
      <4> QED
        BY <4>1 DEF InstancesKept, InstanceRow
    <3> QED
      BY <1>5, <3>1, <3>2 DEF InstancesKept
  <2> QED
    BY <1>2, <2>1 DEF InstancesSafe
<1> QED
  BY <1>3, <1>4, <1>5 DEF InstancesSafe

\* The lists of a cluster have lengths.
LEMMA ListLengths ==
    ASSUME KInv, NEW c \in Clusters
    PROVE  Len(node_list[cluster_dict[c]]) \in Nat /\ Len(instance_list[cluster_dict[c]]) \in Nat
<1>1. /\ cluster_dict[c] \in Objects /\ node_list \in [Objects -> Seq(Nodes)]
      /\ instance_list \in [Objects -> Seq(InstanceObjects)]
  BY DEF KInv, SInv, IInv, Memory, Clusters
<1> QED
  BY <1>1, LenProperties

\* A row that is refused closes the cursor.
LEMMA RefusedCloses ==
    ASSUME NEW t, WriteFails(t)
    PROVE  cursor' # "open"
  BY DEF WriteFails

\* The row of a cluster, with all of its nodes and instances to follow.
LEMMA WriteClusterIsKept ==
    ASSUME KInv, SInv', NEW t \in Threads, WriteCluster(t)
    PROVE  KInv'
<1>1. Saving /\ pc[t] = "write" /\ cursor' \in {cursor, "closed"}
  BY DEF WriteCluster, At, WriteFails
<1>2. UNCHANGED <<cluster_dict, node_list, instance_list, overlapped, unsaved>>
  BY <1>1, SavingFrame
<1>3. ~Dirty(t) /\ ~Deletes(t) /\ \A c, k : ~WritesNode(t, c, k) /\ ~WritesInstance(t, c, k)
  BY <1>1 DEF Dirty, Deletes, WritesNode, WritesInstance
<1>4. ASSUME server, cursor = "open", cursor' = "open", ClustersSafe, NodesSafe, InstancesSafe
      PROVE  ClustersSafe' /\ NodesSafe' /\ InstancesSafe'
  <2>1. CASE todo[t] = {}
    <3>1. Saved(t) /\ UNCHANGED <<tables, position, todo, writing>>
      BY <2>1 DEF WriteCluster
    <3>2. \E place : pc' = [pc EXCEPT ![t] = place]
      BY <3>1 DEF Saved, Goto
    <3>3. Others(t)
      BY <3>1, <3>2, ThreadDomains DEF Others
    <3>4. \A c : ~Waiting(t, c)
      BY <1>1, <2>1 DEF Waiting
    <3>5. UNCHANGED <<ha_cluster, ha_node, ha_instance>>
      BY <3>1 DEF tables
    <3> QED
      BY <1>2, <1>3, <1>4, <3>3, <3>4, <3>5, ClustersGoOn, NodesGoOn, InstancesGoOn
  <2>2. CASE todo[t] # {}
    <3>1. PICK pair \in todo[t] :
              IF Refuses(pair[1] \notin ha_cluster) THEN WriteFails(t)
              ELSE /\ ha_cluster' = IF Inserts(pair[1] \notin ha_cluster) THEN ha_cluster \cup {pair[1]}
                                    ELSE ha_cluster
                   /\ todo' = [todo EXCEPT ![t] = @ \ {pair}]
                   /\ writing' = [writing EXCEPT ![t] = pair]
                   /\ position' = [position EXCEPT ![t] = 1]
                   /\ Goto(t, "write nodes")
                   /\ UNCHANGED <<ha_node, ha_instance, cursor, object, request, result>>
      BY <2>2 DEF WriteCluster
    <3>2. ~Refuses(pair[1] \notin ha_cluster)
      BY <1>4, <3>1, RefusedCloses
    <3>3. Inserts(pair[1] \notin ha_cluster)
      BY <1>4, <3>2 DEF Inserts, Refuses
    <3>4. /\ ha_cluster' = ha_cluster \cup {pair[1]} /\ UNCHANGED <<ha_node, ha_instance>>
          /\ todo' = [todo EXCEPT ![t] = @ \ {pair}] /\ writing' = [writing EXCEPT ![t] = pair]
          /\ position' = [position EXCEPT ![t] = 1] /\ pc' = [pc EXCEPT ![t] = "write nodes"]
      BY <3>1, <3>2, <3>3 DEF Goto
    <3>5. Others(t)
      BY <3>4, ThreadDomains DEF Others
    <3>6. /\ todo'[t] = todo[t] \ {pair} /\ writing'[t] = pair /\ position'[t] = 1
          /\ pc'[t] = "write nodes"
      BY <3>4, ThreadDomains
    <3>7. ASSUME NEW c \in Clusters, Waiting(t, c), ~Waiting(t, c)'
          PROVE  pair = <<c, cluster_dict[c]>> /\ c \in ha_cluster'
      <4>1. <<c, cluster_dict[c]>> \in todo[t] /\ <<c, cluster_dict[c]>> \notin todo'[t]
        BY <1>1, <1>2, <3>6, <3>7 DEF Waiting, WritePlaces
      <4>2. pair = <<c, cluster_dict[c]>>
        BY <3>6, <4>1
      <4>3. pair[1] = c
        BY <4>2
      <4> QED
        BY <3>4, <4>2, <4>3
    <3>8. ASSUME NEW c \in Clusters, pair = <<c, cluster_dict[c]>>
          PROVE  /\ \A k \in 1..Len(node_list[cluster_dict[c]]) : WritesNode(t, c, k)'
                 /\ \A k \in 1..Len(instance_list[cluster_dict[c]]) : WritesInstance(t, c, k)'
      <4>1. writing'[t] = <<c, cluster_dict'[c]>> /\ pc'[t] = "write nodes" /\ position'[t] = 1
        BY <1>2, <3>6, <3>8
      <4>2. \A k \in 1..Len(node_list[cluster_dict[c]]) : 1 <= k
        BY ListLengths
      <4> QED
        BY <4>1, <4>2 DEF WritesNode, WritesInstance
    <3> QED
      BY <1>2, <1>3, <1>4, <3>4, <3>5, <3>7, <3>8, ClustersGoOn, NodesGoOn, InstancesGoOn
  <2> QED
    BY <2>1, <2>2
<1> QED
  BY <1>1, <1>4, SaveIsKept DEF Safe

\* The row of a node.
LEMMA WriteNodeIsKept ==
    ASSUME KInv, SInv', NEW t \in Threads, WriteNode(t)
    PROVE  KInv'
<1> DEFINE c == writing[t][1]
           list == node_list[writing[t][2]]
           k == position[t]
           legal == c \in ha_cluster /\ \A r \in ha_node : r.node # list[k]
<1>1. Saving /\ pc[t] = "write nodes" /\ cursor' \in {cursor, "closed"}
  BY DEF WriteNode, At, WriteFails
<1>2. UNCHANGED <<cluster_dict, node_list, instance_list, overlapped, unsaved>>
  BY <1>1, SavingFrame
<1>3. ~Dirty(t) /\ ~Deletes(t) /\ k \in Nat
  BY <1>1 DEF Dirty, Deletes, KInv, SInv, IInv, ThreadOK
<1>4. ASSUME server, cursor = "open", cursor' = "open", ClustersSafe, NodesSafe, InstancesSafe
      PROVE  ClustersSafe' /\ NodesSafe' /\ InstancesSafe'
  <2>1. CASE k > Len(list)
    <3>1. /\ pc' = [pc EXCEPT ![t] = "write instances"] /\ position' = [position EXCEPT ![t] = 1]
          /\ UNCHANGED <<ha_cluster, ha_node, ha_instance, todo, writing>>
      BY <2>1 DEF WriteNode, Goto, tables
    <3>2. Others(t) /\ pc'[t] = "write instances" /\ position'[t] = 1
      BY <3>1, ThreadDomains DEF Others
    <3>3. \A d : Waiting(t, d) => Waiting(t, d)'
      BY <1>1, <1>2, <3>1, <3>2 DEF Waiting, WritePlaces
    <3>4. ASSUME NEW d \in Clusters, NEW j \in 1..Len(node_list[cluster_dict[d]])
          PROVE  ~WritesNode(t, d, j)
      <4>1. SUFFICES ASSUME WritesNode(t, d, j) PROVE FALSE
        OBVIOUS
      <4>2. writing[t] = <<d, cluster_dict[d]>> /\ position[t] <= j
        BY <4>1 DEF WritesNode
      <4>3. list = node_list[cluster_dict[d]]
        BY <4>2
      <4>4. Len(node_list[cluster_dict[d]]) \in Nat
        BY ListLengths
      <4> QED
        BY <1>3, <2>1, <4>2, <4>3, <4>4
    <3>5. \A d \in Clusters : \A j \in 1..Len(instance_list[cluster_dict[d]]) : 1 <= j
      BY ListLengths
    <3>6. \A d \in Clusters : \A j \in 1..Len(instance_list[cluster_dict[d]]) :
              WritesInstance(t, d, j) => WritesInstance(t, d, j)'
      BY <1>1, <1>2, <3>1, <3>2, <3>5 DEF WritesInstance
    <3>7. NodesSafe'
      BY <1>2, <1>3, <1>4, <3>1, <3>2, <3>3, <3>4, NodesGoOn
    <3>8. InstancesSafe'
      BY <1>2, <1>3, <1>4, <3>1, <3>2, <3>3, <3>6, InstancesGoOn
    <3>9. ClustersSafe'
      BY <1>2, <1>3, <1>4, <3>1, <3>2, <3>3, ClustersGoOn
    <3> QED
      BY <3>7, <3>8, <3>9
  <2>2. CASE ~(k > Len(list))
    <3>1. ~Refuses(legal)
      BY <1>4, <2>2, RefusedCloses DEF WriteNode
    <3>2. Inserts(legal)
      BY <1>4, <3>1 DEF Inserts, Refuses
    <3>3. /\ ha_node' = ha_node \cup {NodeRow(list[k], c)} /\ position' = [position EXCEPT ![t] = k + 1]
          /\ UNCHANGED <<pc, ha_cluster, ha_instance, todo, writing>>
      BY <2>2, <3>1, <3>2 DEF WriteNode
    <3>4. Others(t) /\ position'[t] = k + 1
      BY <3>3, ThreadDomains DEF Others
    <3>5. \A d : Waiting(t, d) => Waiting(t, d)'
      BY <1>1, <1>2, <3>3 DEF Waiting, WritePlaces
    <3>6. ASSUME NEW d \in Clusters, NEW j \in 1..Len(node_list[cluster_dict[d]]), WritesNode(t, d, j)
          PROVE  WritesNode(t, d, j)' \/ NodeRow(node_list[cluster_dict[d]][j], d) \in ha_node'
      <4>1. c = d /\ list = node_list[cluster_dict[d]] /\ k <= j
        <5>1. writing[t] = <<d, cluster_dict[d]>> /\ position[t] <= j
          BY <3>6 DEF WritesNode
        <5> QED
          BY <5>1
      <4>2. CASE j = k
        BY <3>3, <4>1, <4>2
      <4>3. CASE j # k
        <5>1. k + 1 <= j
          BY <1>3, <4>1, <4>3
        <5> QED
          BY <1>1, <1>2, <3>3, <3>4, <3>6, <5>1 DEF WritesNode
      <4> QED
        BY <4>2, <4>3
    <3>7. \A d, j : WritesInstance(t, d, j) => WritesInstance(t, d, j)'
      BY <1>1, <1>2, <3>3 DEF WritesInstance
    <3>8. NodesSafe'
      BY <1>2, <1>3, <1>4, <3>3, <3>4, <3>5, <3>6, NodesGoOn
    <3>9. InstancesSafe'
      BY <1>2, <1>3, <1>4, <3>3, <3>4, <3>5, <3>7, InstancesGoOn
    <3>10. ClustersSafe'
      BY <1>2, <1>3, <1>4, <3>3, <3>4, <3>5, ClustersGoOn
    <3> QED
      BY <3>8, <3>9, <3>10
  <2> QED
    BY <2>1, <2>2
<1> QED
  BY <1>1, <1>4, SaveIsKept DEF Safe

\* The row of an instance.
LEMMA WriteInstanceIsKept ==
    ASSUME KInv, SInv', NEW t \in Threads, WriteInstance(t)
    PROVE  KInv'
<1> DEFINE c == writing[t][1]
           list == instance_list[writing[t][2]]
           k == position[t]
           legal == c \in ha_cluster /\ \A r \in ha_instance : r.id # list[k].id
<1>1. Saving /\ pc[t] = "write instances" /\ cursor' \in {cursor, "closed"}
  BY DEF WriteInstance, At, WriteFails
<1>2. UNCHANGED <<cluster_dict, node_list, instance_list, overlapped, unsaved>>
  BY <1>1, SavingFrame
<1>3. ~Dirty(t) /\ ~Deletes(t) /\ k \in Nat /\ \A d, j : ~WritesNode(t, d, j)
  BY <1>1 DEF Dirty, Deletes, WritesNode, KInv, SInv, IInv, ThreadOK
<1>4. ASSUME server, cursor = "open", cursor' = "open", ClustersSafe, NodesSafe, InstancesSafe
      PROVE  ClustersSafe' /\ NodesSafe' /\ InstancesSafe'
  <2>1. CASE k > Len(list)
    <3>1. /\ pc' = [pc EXCEPT ![t] = "write"]
          /\ UNCHANGED <<ha_cluster, ha_node, ha_instance, position, todo, writing>>
      BY <2>1 DEF WriteInstance, Goto, tables
    <3>2. Others(t) /\ pc'[t] = "write"
      BY <3>1, ThreadDomains DEF Others
    <3>3. \A d : Waiting(t, d) => Waiting(t, d)'
      BY <1>1, <1>2, <3>1, <3>2 DEF Waiting, WritePlaces
    <3>4. ASSUME NEW d \in Clusters, NEW j \in 1..Len(instance_list[cluster_dict[d]])
          PROVE  ~WritesInstance(t, d, j)
      <4>1. SUFFICES ASSUME WritesInstance(t, d, j) PROVE FALSE
        OBVIOUS
      <4>2. writing[t] = <<d, cluster_dict[d]>> /\ position[t] <= j
        BY <1>1, <4>1 DEF WritesInstance
      <4>3. list = instance_list[cluster_dict[d]]
        BY <4>2
      <4>4. Len(instance_list[cluster_dict[d]]) \in Nat
        BY ListLengths
      <4> QED
        BY <1>3, <2>1, <4>2, <4>3, <4>4
    <3>5. NodesSafe'
      BY <1>2, <1>3, <1>4, <3>1, <3>2, <3>3, NodesGoOn
    <3>6. InstancesSafe'
      BY <1>2, <1>3, <1>4, <3>1, <3>2, <3>3, <3>4, InstancesGoOn
    <3>7. ClustersSafe'
      BY <1>2, <1>3, <1>4, <3>1, <3>2, <3>3, ClustersGoOn
    <3> QED
      BY <3>5, <3>6, <3>7
  <2>2. CASE ~(k > Len(list))
    <3>1. ~Refuses(legal)
      BY <1>4, <2>2, RefusedCloses DEF WriteInstance
    <3>2. Inserts(legal)
      BY <1>4, <3>1 DEF Inserts, Refuses
    <3>3. /\ ha_instance' = ha_instance \cup {InstanceRow(list[k].id, c)}
          /\ position' = [position EXCEPT ![t] = k + 1]
          /\ UNCHANGED <<pc, ha_cluster, ha_node, todo, writing>>
      BY <2>2, <3>1, <3>2 DEF WriteInstance
    <3>4. Others(t) /\ position'[t] = k + 1
      BY <3>3, ThreadDomains DEF Others
    <3>5. \A d : Waiting(t, d) => Waiting(t, d)'
      BY <1>1, <1>2, <3>3 DEF Waiting, WritePlaces
    <3>6. ASSUME NEW d \in Clusters, NEW j \in 1..Len(instance_list[cluster_dict[d]]),
                 WritesInstance(t, d, j)
          PROVE  \/ WritesInstance(t, d, j)'
                 \/ InstanceRow(instance_list[cluster_dict[d]][j].id, d) \in ha_instance'
      <4>1. c = d /\ list = instance_list[cluster_dict[d]] /\ k <= j
        <5>1. writing[t] = <<d, cluster_dict[d]>> /\ position[t] <= j
          BY <1>1, <3>6 DEF WritesInstance
        <5> QED
          BY <5>1
      <4>2. CASE j = k
        BY <3>3, <4>1, <4>2
      <4>3. CASE j # k
        <5>1. k + 1 <= j
          BY <1>3, <4>1, <4>3
        <5> QED
          BY <1>1, <1>2, <3>3, <3>4, <3>6, <5>1 DEF WritesInstance
      <4> QED
        BY <4>2, <4>3
    <3>7. NodesSafe'
      BY <1>2, <1>3, <1>4, <3>3, <3>4, <3>5, NodesGoOn
    <3>8. InstancesSafe'
      BY <1>2, <1>3, <1>4, <3>3, <3>4, <3>5, <3>6, InstancesGoOn
    <3>9. ClustersSafe'
      BY <1>2, <1>3, <1>4, <3>3, <3>4, <3>5, ClustersGoOn
    <3> QED
      BY <3>7, <3>8, <3>9
  <2> QED
    BY <2>1, <2>2
<1> QED
  BY <1>1, <1>4, SaveIsKept DEF Safe

\* After a statement has failed, or a row has been refused, nothing is promised.
LEMMA StatementFailsIsKept ==
    ASSUME KInv, SInv', NEW t \in Threads, StatementFails(t) \/ RowTooWide(t)
    PROVE  KInv'
<1>1. failed' /\ UNCHANGED <<memory, alive>>
  BY DEF StatementFails, RowTooWide, Fault, Trouble, start
<1>2. Vacant'
  BY <1>1, VacantKept DEF KInv, memory
<1> QED
  BY <1>1, <1>2 DEF KInv, Trusted

\* At the beginning the controller does not run.
LEMMA KeptInitially == Init => KInv
<1> SUFFICES ASSUME Init PROVE KInv
  OBVIOUS
<1>1. ~alive /\ Clusters = {}
  BY DEF Init, Clusters, NoClusters
<1>2. SInv
  BY InitProgress
<1> QED
  BY <1>1, <1>2 DEF KInv, Vacant, Trusted

\* A step of anybody.
LEMMA NextIsKept ==
    ASSUME KInv, [Next]_vars
    PROVE  KInv'
<1>0. SInv'
  BY NextProgress DEF KInv
<1>1. CASE UNCHANGED vars
  <2>1. UNCHANGED <<memory, ha_cluster, ha_node, ha_instance, cursor, alive, failed, unsaved,
                    overlapped, pc, position, todo, writing>>
    BY <1>1 DEF vars, world, tables, start, thread, history
  <2>2. \A t \in Threads : Apart(t)
    BY <2>1 DEF Apart
  <2> QED
    BY <1>0, <2>1, <2>2, AsideIsKept
<1>2. CASE Process \/ Load \/ CloudChanges \/ ServerChanges
  BY <1>0, <1>2, ProcessIsKept, LoadIsKept, WorldIsKept
<1>3. ASSUME NEW t \in Threads, Handle(t) PROVE KInv'
  <2>1. CASE ChecksOnly(t) \/ Answer(t)
    BY <1>0, <2>1, ChecksAreKept
  <2>2. CASE ~(ChecksOnly(t) \/ Answer(t))
    BY <1>0, <1>3, <2>2, CreateClusterIsKept, DeleteClusterIsKept, AddNodeIsKept, DeleteNodeIsKept,
       AddInstanceIsKept, AppendInstanceIsKept, DeleteInstanceIsKept, UpdateInstanceHostIsKept, UpdateAllIsKept
       DEF Handle, ChecksOnly
  <2> QED
    BY <2>1, <2>2
<1>4. ASSUME NEW t \in Threads, sync_to_db(t) \/ StatementFails(t) \/ RowTooWide(t) PROVE KInv'
  BY <1>0, <1>4, SaveOpensIsKept, ResetTableIsKept, WriteClusterIsKept, WriteNodeIsKept,
     WriteInstanceIsKept, StatementFailsIsKept DEF sync_to_db
<1>5. ASSUME NEW h \in Handlers, NEW r \in Requests, Receive(h, r) PROVE KInv'
  BY <1>0, <1>5, ReceiveIsKept
<1> QED
  BY <1>1, <1>2, <1>3, <1>4, <1>5 DEF Next

\* What is in the tables when no request is under way.
LEMMA QuietKeepsRows ==
    ASSUME KInv
    PROVE  CrashLosesNothing
<1> SUFFICES ASSUME alive, Quiet, ~failed, cursor = "open"
             PROVE  /\ ClusterRows \subseteq ha_cluster
                    /\ ~(overlapped /\ unsaved) =>
                           NodeRows \subseteq ha_node /\ InstanceRows \subseteq ha_instance
  BY DEF CrashLosesNothing
<1>1. ClustersSafe /\ NodesSafe /\ InstancesSafe
  BY DEF KInv, Trusted, Safe
<1>2. \A t \in Threads : /\ ~Dirty(t) /\ ~Deletes(t) /\ \A c : ~Waiting(t, c)
                         /\ \A c, k : ~WritesNode(t, c, k) /\ ~WritesInstance(t, c, k)
  BY DEF Quiet, Dirty, Deletes, Waiting, WritesNode, WritesInstance, WritePlaces
<1>3. \A c \in Clusters : /\ cluster_dict[c] \in Objects
                          /\ node_list[cluster_dict[c]] \in Seq(Nodes)
                          /\ instance_list[cluster_dict[c]] \in Seq(InstanceObjects)
  BY DEF KInv, SInv, IInv, Memory, Clusters
<1>4. ClusterRows \subseteq ha_cluster
  BY <1>1, <1>2 DEF ClustersSafe, ClusterKept, ClusterRows
<1>5. ASSUME ~(overlapped /\ unsaved) PROVE NodeRows \subseteq ha_node
  <2>1. \A c \in Clusters : \A k \in 1..Len(node_list[cluster_dict[c]]) :
            NodeRow(node_list[cluster_dict[c]][k], c) \in ha_node
    BY <1>1, <1>2, <1>5 DEF NodesSafe, NodesKept, Excused
  <2>2. ASSUME NEW c \in Clusters, NEW n \in NodesOf(cluster_dict[c]) PROVE NodeRow(n, c) \in ha_node
    <3>1. \E k \in 1..Len(node_list[cluster_dict[c]]) : n = node_list[cluster_dict[c]][k]
      BY <1>3, Elements DEF NodesOf
    <3> QED
      BY <2>1, <3>1
  <2> QED
    BY <2>2 DEF NodeRows
<1>6. ASSUME ~(overlapped /\ unsaved) PROVE InstanceRows \subseteq ha_instance
  <2>1. \A c \in Clusters : \A k \in 1..Len(instance_list[cluster_dict[c]]) :
            InstanceRow(instance_list[cluster_dict[c]][k].id, c) \in ha_instance
    BY <1>1, <1>2, <1>6 DEF InstancesSafe, InstancesKept, Excused
  <2>2. ASSUME NEW c \in Clusters, NEW i \in Ids(cluster_dict[c]) PROVE InstanceRow(i, c) \in ha_instance
    <3>1. PICK x \in ToSet(instance_list[cluster_dict[c]]) : i = x.id
      BY DEF Ids
    <3>2. \E k \in 1..Len(instance_list[cluster_dict[c]]) : x = instance_list[cluster_dict[c]][k]
      BY <1>3, Elements
    <3> QED
      BY <2>1, <3>1, <3>2
  <2> QED
    BY <2>2 DEF InstanceRows
<1> QED
  BY <1>4, <1>5, <1>6

\* However requests and their saves meet, as long as the database does not fail or refuse
\* a row and the cursor is open, all that is protected is in the tables when no request is
\* under way: two saves that meet either close the cursor or leave every row to one of
\* them.  Only when one of the requests that meet has raised with its change made (the
\* host of a new instance has left, a node was there twice, the host of an instance that
\* is deleted is none of the cluster's) may a node or an instance be missing.
THEOREM RegistryCrashLosesNothing == Spec => []CrashLosesNothing
<1>1. KInv /\ [Next]_vars => KInv'
  BY NextIsKept
<1> QED
  BY KeptInitially, QuietKeepsRows, <1>1, PTL DEF Spec
=============================================================================
