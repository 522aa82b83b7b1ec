--------------------------- MODULE RegistryProofs ---------------------------
(***************************************************************************)
(* Proofs about Registry, for every set of clusters, nodes, instances and  *)
(* threads and all bounds: the variables have their types, and as long as  *)
(* no two requests meet, no node and no instance is in two places and who  *)
(* has what changes only as Ownership says.                                *)
(***************************************************************************)
EXTENDS Registry, FiniteSetTheorems, SequenceTheorems, TLAPS

Outcomes == {"none", "succeed", "failed", "raises"}
AnyRequest == [op : Ops, cluster : ClusterNames \cup {None}, nodes : SUBSET Nodes,
               instance : Instances \cup {None}]
StoredRow == [cluster : ClusterNames \cup {None}, nodes : SUBSET Nodes, instances : SUBSET Instances]

Outer ==
    /\ server \in BOOLEAN /\ alive \in BOOLEAN /\ loading \in BOOLEAN
    /\ pool \subseteq Nodes /\ placed \in [Instances -> Nodes \cup {Elsewhere}]
    /\ ha_cluster \subseteq ClusterNames
    /\ ha_node \subseteq [node : Nodes, cluster : ClusterNames]
    /\ ha_instance \subseteq [id : Instances, cluster : ClusterNames]
    /\ cursor \in {"open", "closed"}
    /\ requests \in 0..(MaxRequests + 1) /\ events \in 0..MaxEvents

\* What is still to be loaded belongs to a cluster.
ToLoad ==
    /\ row \in StoredRow /\ exist_cluster \subseteq StoredRow
    /\ row.nodes # {} \/ row.instances # {} => row.cluster \in ClusterNames
    /\ \A r \in exist_cluster : r.cluster \in ClusterNames

Memory ==
    /\ cluster_dict \in [ClusterNames -> Objects \cup {None}]
    /\ node_list \in [Objects -> Seq(Nodes)]
    /\ instance_list \in [Objects -> Seq(InstanceObjects)]
    /\ created \in 0..MaxObjects

\* Cluster objects are made one after the other, and two names never share one.
Fresh ==
    /\ \A c \in Clusters : cluster_dict[c] <= created
    /\ \A c, d \in Clusters : cluster_dict[c] = cluster_dict[d] => c = d
    /\ \A o \in Objects : o > created => Len(node_list[o]) = 0 /\ Len(instance_list[o]) = 0

\* The request of a thread fits the place where the thread is.
Fits(t) ==
    /\ request[t].op \notin {"none", "update_db", "update_all_clusters"} =>
           request[t].cluster \in ClusterNames
    /\ request[t].op \in {"add_instance", "delete_instance", "update_instance_host"} =>
           request[t].instance \in Instances
    /\ pc[t] = "create" => request[t].op = "create_cluster"
    /\ pc[t] \in {"fill", "add nodes"} => request[t].op \in {"add_node", "fill_cluster"}
    /\ pc[t] \in {"protect", "append"} => request[t].op = "add_instance"

ThreadOK(t) ==
    /\ pc[t] \in Places /\ request[t] \in AnyRequest /\ result[t] \in Outcomes
    /\ object[t] \in Objects \cup {None} /\ position[t] \in Nat
    /\ todo[t] \subseteq ClusterNames \X Objects
    /\ pc[t] \in {"write nodes", "write instances"} => writing[t] \in ClusterNames \X Objects
    /\ pc[t] \in {"write nodes", "write instances", "delete"} => position[t] # 0
    /\ pc[t] \in {"add nodes", "protect", "append", "delete"} => object[t] \in 1..created
    /\ Fits(t)

Shared ==
    /\ DOMAIN pc = Threads /\ DOMAIN request = Threads /\ DOMAIN result = Threads
    /\ DOMAIN object = Threads /\ DOMAIN position = Threads /\ DOMAIN todo = Threads
    /\ DOMAIN writing = Threads

\* Only the main thread runs while the controller starts, and none before; and two
\* threads have met if they are under way at once.
Alone ==
    /\ ~alive => ~loading
    /\ ~loading => pc[Loader] = "idle"
    /\ loading \/ ~alive => \A h \in Handlers : pc[h] = "idle"
    /\ ~overlapped => \A t, u \in Threads : pc[t] # "idle" /\ pc[u] # "idle" => t = u

\* What a thread has checked still holds when it relies on it.
Relies(t) ==
    /\ pc[t] = "create" => cluster_dict[request[t].cluster] = None
    /\ pc[t] \in {"add nodes", "protect", "append"} =>
           object[t] = cluster_dict[request[t].cluster]
    /\ pc[t] = "add nodes" => \A o \in Objects : request[t].nodes \cap NodesOf(o) = {}
    /\ pc[t] \in {"protect", "append"} =>
           \A c \in Clusters : request[t].instance \notin Ids(cluster_dict[c])
    /\ pc[t] = "append" => request[t].nodes \subseteq NodesOf(object[t])

OnceId(list) == \A j, k \in 1..Len(list) : list[j].id = list[k].id => j = k

Owned ==
    /\ \A o \in Objects : Once(node_list[o]) /\ OnceId(instance_list[o])
    /\ \A o, p \in Objects : o # p => NodesOf(o) \cap NodesOf(p) = {}
    /\ \A c, d \in Clusters : c # d => Ids(cluster_dict[c]) \cap Ids(cluster_dict[d]) = {}
    /\ \A o \in Objects : NodesOf(o) # {} => \E c \in Clusters : cluster_dict[c] = o

IInv ==
    /\ Outer /\ ToLoad /\ Memory /\ Fresh /\ Shared /\ Alone
    /\ \A t \in Threads : ThreadOK(t)
    /\ ~overlapped => Owned /\ \A t \in Threads : Relies(t)
----------------------------------------------------------------------------
(***************************************************************************)
(* Lists.                                                                  *)
(***************************************************************************)
\* A set of positions has a smallest one.
LEMMA MinOfPositions ==
    ASSUME NEW n \in Nat, NEW S, S \subseteq 1..n, S # {}
    PROVE  Min(S) \in S
<1> DEFINE R == StrictSubsetOrdering(1..n)
           F == FiniteSubsetsOf(1..n)
           T == {S \cap 1..m : m \in S}
<1>1. IsWellFoundedOn(R, F)
  BY FS_StrictSubsetOrderingWellFounded
<1>2. T \subseteq F /\ T # {}
  <2>1. IsFiniteSet(1..n)
    BY FS_Interval
  <2>2. \A U \in SUBSET (1..n) : IsFiniteSet(U)
    BY <2>1, FS_Subset
  <2> QED
    BY <2>2 DEF FiniteSubsetsOf
<1>3. PICK U \in T : \A V \in T : ~(<<V, U>> \in R)
  <2> HIDE DEF R, F, T
  <2> QED
    BY <1>1, <1>2, WFMin
<1>4. PICK m \in S : U = S \cap 1..m
  OBVIOUS
<1>5. ASSUME NEW k \in S, k < m PROVE FALSE
  <2>1. S \cap 1..k \subseteq U /\ m \in U /\ m \notin S \cap 1..k
    BY <1>4, <1>5
  <2>2. <<S \cap 1..k, U>> \in R
    BY <1>4, <2>1 DEF StrictSubsetOrdering
  <2> QED
    BY <1>3, <2>2
<1>6. \A k \in S : m <= k
  BY <1>5
<1> QED
  BY <1>6 DEF Min

\* The elements of a list.
LEMMA Elements ==
    ASSUME NEW S, NEW list \in Seq(S)
    PROVE  /\ Len(list) \in Nat /\ DOMAIN list = 1..Len(list)
           /\ ToSet(list) = {list[k] : k \in 1..Len(list)} /\ ToSet(list) \subseteq S
           /\ Len(list) = 0 <=> list = <<>>
           /\ Len(list) = 0 <=> ToSet(list) = {}
<1>1. Len(list) \in Nat /\ DOMAIN list = 1..Len(list) /\ \A k \in 1..Len(list) : list[k] \in S
  BY LenProperties, ElementOfSeq
<1>2. ToSet(list) = {list[k] : k \in 1..Len(list)}
  BY <1>1 DEF ToSet
<1>3. Len(list) = 0 <=> list = <<>>
  BY EmptySeq, SeqEqual
<1>4. Len(list) # 0 => list[1] \in ToSet(list)
  BY <1>1, <1>2
<1> QED
  BY <1>1, <1>2, <1>3, <1>4

\* A list without one of its elements: the others keep their order.
LEMMA RemoveAtProperties ==
    ASSUME NEW S, NEW list \in Seq(S), NEW k \in 1..Len(list)
    PROVE  /\ RemoveAt(list, k) \in Seq(S)
           /\ Len(RemoveAt(list, k)) = Len(list) - 1
           /\ \A j \in 1..(Len(list) - 1) :
                 RemoveAt(list, k)[j] = list[IF j < k THEN j ELSE j + 1]
<1> DEFINE front == SubSeq(list, 1, k - 1)
           back == SubSeq(list, k + 1, Len(list))
<1>1. Len(list) \in Nat /\ \A j \in 1..Len(list) : list[j] \in S
  BY LenProperties, ElementOfSeq
<1>2. /\ front \in Seq(S) /\ Len(front) = k - 1
      /\ \A j \in 1..(k - 1) : front[j] = list[j]
  BY <1>1, SubSeqProperties
<1>3. /\ back \in Seq(S) /\ Len(back) = Len(list) - k
      /\ \A j \in 1..(Len(list) - k) : back[j] = list[k + j]
  BY <1>1, SubSeqProperties
<1>4. RemoveAt(list, k) = front \o back
  BY DEF RemoveAt
<1> HIDE DEF front, back
<1>5. /\ front \o back \in Seq(S) /\ Len(front \o back) = Len(front) + Len(back)
      /\ \A j \in 1..(Len(front) + Len(back)) :
             (front \o back)[j] = IF j <= Len(front) THEN front[j] ELSE back[j - Len(front)]
  BY <1>2, <1>3, ConcatProperties
<1>6. ASSUME NEW j \in 1..(Len(list) - 1)
      PROVE  RemoveAt(list, k)[j] = list[IF j < k THEN j ELSE j + 1]
  <2>1. CASE j < k
    BY <1>1, <1>2, <1>3, <1>4, <1>5, <2>1
  <2>2. CASE j >= k
    <3>1. j - Len(front) \in 1..(Len(list) - k) /\ k + (j - Len(front)) = j + 1 /\ j > Len(front)
      BY <1>1, <1>2, <2>2
    <3>2. j \in 1..(Len(front) + Len(back))
      BY <1>1, <1>2, <1>3
    <3>3. (front \o back)[j] = back[j - Len(front)]
      BY <1>5, <3>1, <3>2
    <3>4. back[j - Len(front)] = list[j + 1]
      BY <1>3, <3>1
    <3> QED
      BY <1>4, <2>2, <3>3, <3>4
  <2> QED
    BY <1>1, <2>1, <2>2
<1> QED
  BY <1>1, <1>2, <1>3, <1>4, <1>5, <1>6

\* A list of instances holds each id once if the list of the ids does.
LEMMA OnceIds ==
    ASSUME NEW list \in Seq(InstanceObjects)
    PROVE  Once([k \in 1..Len(list) |-> list[k].id]) <=> OnceId(list)
<1> DEFINE ids == [k \in 1..Len(list) |-> list[k].id]
<1>1. Len(list) \in Nat
  BY LenProperties
<1>2. ids \in [1..Len(list) -> {list[k].id : k \in 1..Len(list)}]
  OBVIOUS
<1>3. ids \in Seq({list[k].id : k \in 1..Len(list)})
  BY <1>1, <1>2, SeqDef
<1>4. Len(ids) = Len(list)
  <2>1. Len(ids) \in Nat /\ DOMAIN ids = 1..Len(ids)
    BY <1>3, LenProperties
  <2>2. 1..Len(ids) = 1..Len(list)
    BY <2>1
  <2> QED
    BY <1>1, <2>1, <2>2
<1> QED
  BY <1>4 DEF Once, OnceId

\* A node that is not in the list can be added to it.
LEMMA AppendNode ==
    ASSUME NEW list \in Seq(Nodes), NEW n \in Nodes
    PROVE  /\ Append(list, n) \in Seq(Nodes)
           /\ ToSet(Append(list, n)) = ToSet(list) \cup {n}
           /\ n \notin ToSet(list) /\ Once(list) => Once(Append(list, n))
<1>1. /\ Append(list, n) \in Seq(Nodes) /\ Len(Append(list, n)) = Len(list) + 1
      /\ \A i \in 1..Len(list) : Append(list, n)[i] = list[i]
      /\ Append(list, n)[Len(list) + 1] = n
  BY AppendProperties
<1>2. /\ Len(list) \in Nat /\ ToSet(list) = {list[k] : k \in 1..Len(list)}
      /\ ToSet(Append(list, n)) = {Append(list, n)[k] : k \in 1..(Len(list) + 1)}
  <2>1. ToSet(Append(list, n)) = {Append(list, n)[k] : k \in 1..Len(Append(list, n))}
    BY <1>1, Elements
  <2> QED
    BY <1>1, <2>1, Elements
<1>3. \A k \in 1..(Len(list) + 1) : k \in 1..Len(list) \/ k = Len(list) + 1
  BY <1>2
<1>4. ToSet(Append(list, n)) = ToSet(list) \cup {n}
  BY <1>1, <1>2, <1>3
<1>5. ASSUME n \notin ToSet(list), Once(list) PROVE Once(Append(list, n))
  BY <1>1, <1>2, <1>3, <1>5 DEF Once
<1> QED
  BY <1>1, <1>4, <1>5

\* So can an instance whose id is not in the list.
LEMMA AppendRecord ==
    ASSUME NEW list \in Seq(InstanceObjects), NEW instance \in InstanceObjects
    PROVE  /\ Append(list, instance) \in Seq(InstanceObjects)
           /\ ToSet(Append(list, instance)) = ToSet(list) \cup {instance}
           /\ (\A old \in ToSet(list) : old.id # instance.id) /\ OnceId(list) =>
                  OnceId(Append(list, instance))
<1> DEFINE new == Append(list, instance)
<1>1. /\ new \in Seq(InstanceObjects) /\ Len(new) = Len(list) + 1
      /\ \A i \in 1..Len(list) : new[i] = list[i]
      /\ new[Len(list) + 1] = instance
  BY AppendProperties
<1>2. /\ Len(list) \in Nat /\ ToSet(list) = {list[k] : k \in 1..Len(list)}
      /\ ToSet(new) = {new[k] : k \in 1..(Len(list) + 1)}
  <2> HIDE DEF new
  <2>1. ToSet(new) = {new[k] : k \in 1..Len(new)}
    BY <1>1, Elements
  <2> QED
    BY <1>1, <2>1, Elements
<1>3. \A k \in 1..(Len(list) + 1) : k \in 1..Len(list) \/ k = Len(list) + 1
  BY <1>2
<1> HIDE DEF new
<1>4. ToSet(new) = ToSet(list) \cup {instance}
  BY <1>1, <1>2, <1>3
<1>5. ASSUME \A old \in ToSet(list) : old.id # instance.id, OnceId(list) PROVE OnceId(new)
  BY <1>1, <1>2, <1>3, <1>5 DEF OnceId
<1> QED
  BY <1>1, <1>4, <1>5 DEF new

\* Taking an element out adds none and repeats none.
LEMMA RemoveNode ==
    ASSUME NEW list \in Seq(Nodes), NEW k \in 1..Len(list)
    PROVE  /\ RemoveAt(list, k) \in Seq(Nodes)
           /\ ToSet(RemoveAt(list, k)) \subseteq ToSet(list)
           /\ Once(list) => Once(RemoveAt(list, k))
<1> DEFINE new == RemoveAt(list, k)
<1>1. /\ new \in Seq(Nodes) /\ Len(new) = Len(list) - 1 /\ Len(list) \in Nat
      /\ \A j \in 1..(Len(list) - 1) : new[j] = list[IF j < k THEN j ELSE j + 1]
  BY RemoveAtProperties, LenProperties
<1>2. /\ ToSet(list) = {list[j] : j \in 1..Len(list)}
      /\ ToSet(new) = {new[j] : j \in 1..Len(new)}
  BY <1>1, Elements
<1> HIDE DEF new
<1>3. ToSet(new) \subseteq ToSet(list)
  <2>1. ASSUME NEW j \in 1..Len(new) PROVE new[j] \in ToSet(list)
    <3>1. j \in 1..(Len(list) - 1) /\ j \in 1..Len(list) /\ j + 1 \in 1..Len(list)
      BY <1>1
    <3>2. new[j] = list[j] \/ new[j] = list[j + 1]
      BY <1>1, <3>1
    <3> QED
      BY <1>2, <3>1, <3>2
  <2> QED
    BY <1>2, <2>1
<1>4. ASSUME Once(list) PROVE Once(new)
  BY <1>1, <1>4 DEF Once
<1> QED
  BY <1>1, <1>3, <1>4 DEF new

\* The same for a list of instances.
LEMMA RemoveInstance ==
    ASSUME NEW list \in Seq(InstanceObjects), NEW k \in 1..Len(list)
    PROVE  /\ RemoveAt(list, k) \in Seq(InstanceObjects)
           /\ ToSet(RemoveAt(list, k)) \subseteq ToSet(list)
           /\ OnceId(list) => OnceId(RemoveAt(list, k))
<1> DEFINE new == RemoveAt(list, k)
<1>1. /\ new \in Seq(InstanceObjects) /\ Len(new) = Len(list) - 1 /\ Len(list) \in Nat
      /\ \A j \in 1..(Len(list) - 1) : new[j] = list[IF j < k THEN j ELSE j + 1]
  BY RemoveAtProperties, LenProperties
<1>2. /\ ToSet(list) = {list[j] : j \in 1..Len(list)}
      /\ ToSet(new) = {new[j] : j \in 1..Len(new)}
  BY <1>1, Elements
<1> HIDE DEF new
<1>3. ToSet(new) \subseteq ToSet(list)
  <2>1. ASSUME NEW j \in 1..Len(new) PROVE new[j] \in ToSet(list)
    <3>1. j \in 1..(Len(list) - 1) /\ j \in 1..Len(list) /\ j + 1 \in 1..Len(list)
      BY <1>1
    <3>2. new[j] = list[j] \/ new[j] = list[j + 1]
      BY <1>1, <3>1
    <3> QED
      BY <1>2, <3>1, <3>2
  <2> QED
    BY <1>2, <2>1
<1>4. ASSUME OnceId(list) PROVE OnceId(new)
  BY <1>1, <1>4 DEF OnceId
<1> QED
  BY <1>1, <1>3, <1>4 DEF new

\* A list whose records have got other hosts is as long and has the same ids.
LEMMA SameIds ==
    ASSUME NEW list \in Seq(InstanceObjects), NEW new,
           DOMAIN new = 1..Len(list), new = [k \in 1..Len(list) |-> new[k]],
           \A k \in 1..Len(list) : new[k] \in InstanceObjects /\ new[k].id = list[k].id
    PROVE  /\ new \in Seq(InstanceObjects) /\ Len(new) = Len(list)
           /\ {instance.id : instance \in ToSet(new)} = {instance.id : instance \in ToSet(list)}
           /\ OnceId(list) => OnceId(new)
<1>1. Len(list) \in Nat /\ ToSet(list) = {list[k] : k \in 1..Len(list)}
  BY Elements
<1>2. new \in [1..Len(list) -> InstanceObjects]
  OBVIOUS
<1>3. new \in Seq(InstanceObjects)
  BY <1>1, <1>2, SeqDef
<1>4. Len(new) = Len(list)
  <2>1. Len(new) \in Nat /\ DOMAIN new = 1..Len(new)
    BY <1>3, LenProperties
  <2> QED
    BY <1>1, <2>1
<1>5. ToSet(new) = {new[k] : k \in 1..Len(list)}
  <2>1. ToSet(new) = {new[k] : k \in 1..Len(new)}
    BY <1>3, Elements
  <2> QED
    BY <1>4, <2>1
<1>6. {instance.id : instance \in ToSet(new)} = {instance.id : instance \in ToSet(list)}
  <2>1. \A k \in 1..Len(list) : new[k] \in ToSet(new) /\ list[k] \in ToSet(list)
    BY <1>1, <1>5
  <2>2. ASSUME NEW x \in {instance.id : instance \in ToSet(new)}
        PROVE  x \in {instance.id : instance \in ToSet(list)}
    <3>1. PICK instance \in ToSet(new) : x = instance.id
      OBVIOUS
    <3>2. PICK k \in 1..Len(list) : instance = new[k]
      BY <1>5
    <3> QED
      BY <2>1, <3>1, <3>2
  <2>3. ASSUME NEW x \in {instance.id : instance \in ToSet(list)}
        PROVE  x \in {instance.id : instance \in ToSet(new)}
    <3>1. PICK instance \in ToSet(list) : x = instance.id
      OBVIOUS
    <3>2. PICK k \in 1..Len(list) : instance = list[k]
      BY <1>1
    <3> QED
      BY <2>1, <3>1, <3>2
  <2> QED
    BY <2>2, <2>3
<1>7. OnceId(list) => OnceId(new)
  BY <1>4 DEF OnceId
<1> QED
  BY <1>3, <1>4, <1>6, <1>7
----------------------------------------------------------------------------
(***************************************************************************)
(* What a step may disturb.                                                *)
(***************************************************************************)
USE LoaderIsNoHandler, NoneIsNothing, BoundsTyped

\* A step of one thread, as far as the others see it.
Step(t) ==
    /\ Shared'
    /\ \A u \in Threads :
          u # t => /\ pc'[u] = pc[u] /\ request'[u] = request[u] /\ result'[u] = result[u]
                   /\ object'[u] = object[u] /\ position'[u] = position[u]
                   /\ todo'[u] = todo[u] /\ writing'[u] = writing[u]
    /\ UNCHANGED <<alive, loading, overlapped>>

\* The clusters and what belongs to them depend on nothing but the memory.
LEMMA MemoryKept ==
    ASSUME UNCHANGED memory
    PROVE  /\ Memory => Memory'
           /\ Fresh => Fresh'
           /\ Owned => Owned'
           /\ Clusters' = Clusters
           /\ \A o : NodesOf(o)' = NodesOf(o) /\ Ids(o)' = Ids(o)
<1>1. UNCHANGED <<cluster_dict, node_list, instance_list, created>>
  BY DEF memory
<1>2. Clusters' = Clusters /\ \A o : NodesOf(o)' = NodesOf(o) /\ Ids(o)' = Ids(o)
  BY <1>1 DEF Clusters, NodesOf, Ids
<1>3. Memory => Memory'
  BY <1>1 DEF Memory
<1>4. Fresh => Fresh'
  BY <1>1, <1>2 DEF Fresh
<1>5. Owned => Owned'
  BY <1>1, <1>2 DEF Owned
<1> QED
  BY <1>2, <1>3, <1>4, <1>5

\* The invariant after a step of a thread that is under way.
LEMMA StepKeeps ==
    ASSUME IInv, NEW t \in Threads, Step(t), pc[t] # "idle",
           Outer', ToLoad', Memory', Fresh', created <= created', ThreadOK(t)',
           ~overlapped => Owned' /\ Relies(t)'
    PROVE  IInv'
<1>1. Shared'
  BY DEF Step
<1>2. ASSUME NEW u \in Threads PROVE ThreadOK(u)'
  <2>1. CASE u = t
    BY <2>1
  <2>2. CASE u # t
    <3>1. ThreadOK(u) /\ created \in Nat /\ created' \in Nat
      BY DEF IInv, Memory
    <3>2. 1..created \subseteq 1..created'
      BY <3>1
    <3> QED
      BY <2>2, <3>1, <3>2 DEF Step, ThreadOK, Fits
  <2> QED
    BY <2>1, <2>2
<1>3. \A u \in Threads : pc'[u] # "idle" => pc[u] # "idle"
  BY DEF Step
<1>4. Alone'
  <2>1. Alone /\ Loader \in Threads /\ Handlers \subseteq Threads
    BY DEF IInv, Threads
  <2> QED
    BY <1>3, <2>1 DEF Alone, Step
<1>5. ASSUME ~overlapped, NEW u \in Threads PROVE Relies(u)'
  <2>1. CASE u = t
    BY <1>5, <2>1
  <2>2. CASE u # t
    <3>1. pc'[u] = "idle"
      BY <1>5, <2>2 DEF IInv, Alone, Step
    <3> QED
      BY <3>1 DEF Relies
  <2> QED
    BY <2>1, <2>2
<1> QED
  BY <1>1, <1>2, <1>4, <1>5 DEF IInv, Step

\* ... and after one that leaves the memory alone.
LEMMA AsideKeeps ==
    ASSUME IInv, NEW t \in Threads, Step(t), pc[t] # "idle", UNCHANGED memory,
           Outer', ToLoad', ThreadOK(t)', ~overlapped => Relies(t)'
    PROVE  IInv'
<1>1. Memory' /\ Fresh' /\ (~overlapped => Owned')
  BY MemoryKept DEF IInv
<1>2. created <= created'
  BY DEF IInv, Memory, memory
<1> QED
  BY <1>1, <1>2, StepKeeps

\* The requests have their types and their arguments.
LEMMA RequestsTyped ==
    ASSUME NEW r \in Requests
    PROVE  /\ r \in AnyRequest /\ r.op # "none"
           /\ r.op \notin {"update_db", "update_all_clusters"} => r.cluster \in ClusterNames
           /\ r.op \in {"add_instance", "delete_instance", "update_instance_host"} =>
                  r.instance \in Instances
<1>1. r.op \in Ops
  BY DEF Ops
<1> DEFINE creations == {Request("create_cluster", c, nodes, None) : c \in ClusterNames, nodes \in SUBSET Nodes}
           deletions == {Request("delete_cluster", c, {}, None) : c \in ClusterNames}
           additions == {Request("add_node", c, nodes, None) : c \in ClusterNames, nodes \in SUBSET Nodes}
           removals  == {Request("delete_node", c, {n}, None) : c \in ClusterNames, n \in Nodes}
           instances == {Request(op, c, {}, i) : op \in {"add_instance", "delete_instance",
                                                          "update_instance_host"},
                                                 c \in ClusterNames, i \in Instances}
           updates   == {Request(op, None, {}, None) : op \in {"update_db", "update_all_clusters"}}
<1>2. CASE r \in creations
  BY <1>1, <1>2 DEF Request, AnyRequest
<1>3. CASE r \in deletions
  BY <1>1, <1>3 DEF Request, AnyRequest
<1>4. CASE r \in additions
  BY <1>1, <1>4 DEF Request, AnyRequest
<1>5. CASE r \in removals
  BY <1>1, <1>5 DEF Request, AnyRequest
<1>6. CASE r \in instances
  BY <1>1, <1>6 DEF Request, AnyRequest
<1>7. CASE r \in updates
  BY <1>1, <1>7 DEF Request, AnyRequest
<1>8. Requests = creations \cup deletions \cup additions \cup removals \cup instances \cup updates
  BY DEF Requests
<1> HIDE DEF creations, deletions, additions, removals, instances, updates
<1> QED
  BY <1>2, <1>3, <1>4, <1>5, <1>6, <1>7, <1>8
----------------------------------------------------------------------------
(***************************************************************************)
(* The process and the world.                                              *)
(***************************************************************************)
\* The controller as a crash leaves it.
Blank ==
    /\ cluster_dict = NoClusters /\ node_list = EmptyLists /\ instance_list = EmptyLists
    /\ created = 0 /\ pc = OfAll("idle") /\ request = OfAll(NoRequest)
    /\ result = OfAll("none") /\ object = OfAll(None) /\ position = OfAll(0)
    /\ todo = OfAll({}) /\ writing = OfAll(<<>>) /\ ~loading

Controller ==
    /\ Memory /\ Fresh /\ Shared /\ Alone /\ Owned
    /\ \A t \in Threads : ThreadOK(t) /\ Relies(t)

\* With no cluster and no request nothing can be wrong.
LEMMA NothingYet == Blank => Controller
<1> SUFFICES ASSUME Blank PROVE Controller
  OBVIOUS
<1> USE DEF Blank
<1>1. Clusters = {}
  BY DEF Clusters, NoClusters
<1>2. Memory
  <2>1. \A o \in Objects : node_list[o] \in Seq(Nodes) /\ instance_list[o] \in Seq(InstanceObjects)
    BY EmptySeq DEF EmptyLists
  <2> QED
    BY <2>1 DEF Memory, NoClusters, EmptyLists
<1>3. \A o \in Objects : Len(node_list[o]) = 0 /\ Len(instance_list[o]) = 0
  BY EmptySeq DEF EmptyLists
<1>4. Fresh
  BY <1>1, <1>3 DEF Fresh
<1>5. Shared
  BY DEF Shared, OfAll
<1>6. Alone
  BY DEF Alone, OfAll, Threads
<1>7. \A o \in Objects : NodesOf(o) = {}
  BY <1>2, <1>3, Elements DEF NodesOf, Memory
<1>8. Owned
  BY <1>1, <1>3, <1>7 DEF Owned, Once, OnceId
<1>9. ASSUME NEW t \in Threads PROVE ThreadOK(t) /\ Relies(t)
  <2>1. pc[t] = "idle" /\ request[t] = NoRequest
    BY DEF OfAll
  <2>2. NoRequest \in AnyRequest /\ NoRequest.op = "none"
    BY DEF NoRequest, Request, AnyRequest, Ops
  <2> QED
    BY <2>1, <2>2 DEF ThreadOK, Relies, Fits, OfAll, Places, Outcomes
<1> QED
  BY <1>2, <1>4, <1>5, <1>6, <1>8, <1>9 DEF Controller

\* The initial states.
LEMMA InitInvariant == Init => IInv
<1> SUFFICES ASSUME Init PROVE IInv
  OBVIOUS
<1>1. Outer
  <2>1. PICK owner \in [Nodes \cup Instances -> ha_cluster \cup {None}] :
            /\ ha_node = {NodeRow(n, owner[n]) : n \in {n \in Nodes \ wide : owner[n] # None}}
            /\ ha_instance = {InstanceRow(i, owner[i]) : i \in {i \in Instances : owner[i] # None}}
    BY DEF Init
  <2>2. ha_cluster \subseteq ClusterNames
    BY DEF Init
  <2>3. ha_node \subseteq [node : Nodes, cluster : ClusterNames]
    BY <2>1, <2>2 DEF NodeRow
  <2>4. ha_instance \subseteq [id : Instances, cluster : ClusterNames]
    BY <2>1, <2>2 DEF InstanceRow
  <2> QED
    <3>1. requests \in 0..(MaxRequests + 1) /\ events \in 0..MaxEvents
      BY DEF Init
    <3>2. pool \subseteq Nodes /\ placed \in [Instances -> Nodes \cup {Elsewhere}]
      BY DEF Init
    <3>3. server \in BOOLEAN /\ alive \in BOOLEAN /\ loading \in BOOLEAN /\ cursor \in {"open", "closed"}
      BY DEF Init
    <3> QED
      BY <2>2, <2>3, <2>4, <3>1, <3>2, <3>3 DEF Outer
<1>2. ToLoad
  BY DEF Init, ToLoad, NoRow, StoredRow
<1> QED
  BY <1>1, <1>2, NothingYet DEF Init, IInv, Blank, Controller

\* A crash forgets everything but the tables.
LEMMA CrashKeeps == ASSUME IInv, Crash PROVE IInv'
<1>1. Outer'
  <2>1. /\ UNCHANGED <<server, pool, placed, ha_cluster, ha_node, ha_instance, requests>>
        /\ events' \in 0..MaxEvents
    BY DEF IInv, Outer, Crash, Event, world, tables
  <2> QED
    BY <2>1 DEF IInv, Outer, Crash
<1>2. ToLoad'
  BY DEF Crash, ToLoad, NoRow, StoredRow
<1>3. Controller'
  <2>1. Blank'
    BY DEF Crash, Blank
  <2> QED
    BY <2>1, NothingYet, PTL
<1> QED
  BY <1>1, <1>2, <1>3 DEF IInv, Controller

\* What happens while every thread stays where it is.
LEMMA ControllerKept ==
    ASSUME IInv, UNCHANGED <<memory, pc, thread, overlapped>>, Outer', ToLoad', Alone'
    PROVE  IInv'
<1>1. UNCHANGED <<cluster_dict, created, pc, request, result, object, position, todo, writing>>
  BY DEF memory, thread
<1>2. Memory' /\ Fresh' /\ (~overlapped => Owned')
  BY MemoryKept DEF IInv
<1>3. Shared'
  BY <1>1 DEF IInv, Shared
<1>4. \A t \in Threads : ThreadOK(t)'
  BY <1>1 DEF IInv, ThreadOK, Fits
<1>5. \A t \in Threads : Relies(t) => Relies(t)'
  <2>1. Clusters' = Clusters /\ \A o : NodesOf(o)' = NodesOf(o) /\ Ids(o)' = Ids(o)
    BY MemoryKept
  <2> QED
    BY <1>1, <2>1 DEF Relies
<1> QED
  BY <1>2, <1>3, <1>4, <1>5 DEF IInv

\* The number of events stays within its bound.
LEMMA EventTyped == ASSUME IInv, Event PROVE events' \in 0..MaxEvents /\ requests' = requests
  BY DEF IInv, Outer, Event

\* Nothing of the controller changes when the cloud does ...
LEMMA CloudKeeps == ASSUME IInv, CloudChanges PROVE IInv'
<1>1. /\ UNCHANGED <<memory, pc, thread, overlapped, server, alive, loading, row, exist_cluster>>
      /\ UNCHANGED <<ha_cluster, ha_node, ha_instance, cursor>>
      /\ events' \in 0..MaxEvents /\ requests' = requests
  BY EventTyped DEF CloudChanges, start, tables
<1>2. pool' \subseteq Nodes /\ placed' \in [Instances -> Nodes \cup {Elsewhere}]
  BY DEF CloudChanges, IInv, Outer
<1>3. Outer' /\ ToLoad' /\ Alone'
  BY <1>1, <1>2 DEF IInv, Outer, ToLoad, Alone
<1> QED
  BY <1>1, <1>3, ControllerKept

\* ... or when MySQL goes away or comes back.
LEMMA ServerKeeps == ASSUME IInv, ServerChanges PROVE IInv'
<1>1. /\ UNCHANGED <<memory, pc, thread, overlapped, pool, placed, alive, loading, row, exist_cluster>>
      /\ UNCHANGED <<ha_cluster, ha_node, ha_instance, requests>> /\ server' = ~server
      /\ cursor' \in {cursor, "open"}
  BY DEF ServerChanges, Event, Trouble, start, tables, bounds, IInv, Outer
<1>2. events' \in 0..MaxEvents
  BY EventTyped DEF ServerChanges, bounds, IInv, Outer
<1>3. Outer' /\ ToLoad' /\ Alone'
  BY <1>1, <1>2 DEF IInv, Outer, ToLoad, Alone
<1> QED
  BY <1>1, <1>3, ControllerKept

\* The controller is started: what it has read belongs to clusters.
LEMMA StartKeeps == ASSUME IInv, sync_from_db \/ sync_from_db_fails PROVE IInv'
<1>1. /\ UNCHANGED <<memory, pc, thread, overlapped, server, pool, placed>>
      /\ UNCHANGED <<ha_cluster, ha_node, ha_instance>>
      /\ ~alive /\ alive' = TRUE /\ loading' = TRUE /\ row' = NoRow
      /\ cursor' \in {"open", "closed"}
  BY DEF sync_from_db, sync_from_db_fails, Start, Fault, Trouble, world, tables
<1>2. events' \in 0..MaxEvents /\ requests' = requests
  BY EventTyped DEF sync_from_db, sync_from_db_fails, Fault, bounds, IInv, Outer
<1>3. exist_cluster' \in {{}, {Read(c) : c \in ha_cluster}}
  BY DEF sync_from_db, sync_from_db_fails
<1>4. Outer'
  BY <1>1, <1>2 DEF IInv, Outer
<1>5. ToLoad'
  <2>1. ASSUME NEW c \in ha_cluster PROVE Read(c) \in StoredRow /\ Read(c).cluster \in ClusterNames
    BY <2>1 DEF IInv, Outer, Read, StoredRow
  <2>2. NoRow \in StoredRow /\ NoRow.nodes = {} /\ NoRow.instances = {}
    BY DEF NoRow, StoredRow
  <2>3. exist_cluster' \subseteq StoredRow /\ \A r \in exist_cluster' : r.cluster \in ClusterNames
    BY <1>3, <2>1
  <2> QED
    BY <1>1, <2>2, <2>3 DEF ToLoad
<1>6. Alone'
  BY <1>1 DEF IInv, Alone
<1> QED
  BY <1>1, <1>4, <1>5, <1>6, ControllerKept
----------------------------------------------------------------------------
(***************************************************************************)
(* Requests.                                                               *)
(***************************************************************************)
\* A thread that is idle takes up a request.
LEMMA BeginsKeeps ==
    ASSUME IInv, NEW t \in Threads, NEW r \in Requests, Begins(t, r), UNCHANGED memory,
           Outer', ToLoad', UNCHANGED <<alive, loading>>,
           IF t = Loader THEN loading ELSE ~loading,
           ~overlapped' => ~overlapped /\ \A u \in Threads : pc[u] = "idle"
    PROVE  IInv'
<1>1. /\ alive /\ pc[t] = "idle" /\ pc' = [pc EXCEPT ![t] = "begin"]
      /\ request' = [request EXCEPT ![t] = r]
      /\ UNCHANGED <<result, object, position, todo, writing>>
  BY DEF Begins, At, Goto
<1>2. Shared'
  BY <1>1 DEF IInv, Shared
<1>3. Memory' /\ Fresh' /\ (~overlapped => Owned') /\ created' = created
  BY MemoryKept DEF IInv, memory
<1>4. ThreadOK(t)' /\ Relies(t)'
  <2>1. pc'[t] = "begin" /\ request'[t] = r
    BY <1>1 DEF IInv, Shared
  <2>2. ThreadOK(t)
    BY DEF IInv
  <2>3. Fits(t)' /\ request'[t] \in AnyRequest
    BY <2>1, RequestsTyped DEF Fits
  <2>4. ThreadOK(t)'
    BY <1>1, <2>1, <2>2, <2>3 DEF ThreadOK, Places
  <2>5. Relies(t)'
    BY <2>1 DEF Relies
  <2> QED
    BY <2>4, <2>5
<1>5. ASSUME NEW u \in Threads PROVE ThreadOK(u)'
  <2>1. CASE u # t
    <3>1. ThreadOK(u) /\ pc'[u] = pc[u] /\ request'[u] = request[u]
      BY <1>1, <2>1 DEF IInv, Shared
    <3> QED
      BY <1>1, <1>3, <3>1 DEF ThreadOK, Fits
  <2> QED
    BY <1>4, <2>1
<1>6. ASSUME ~overlapped', NEW u \in Threads PROVE Relies(u)'
  <2>1. CASE u # t
    <3>1. pc'[u] = "idle"
      BY <1>1, <1>6, <2>1 DEF IInv, Shared
    <3> QED
      BY <3>1 DEF Relies
  <2> QED
    BY <1>4, <2>1
<1>7. Alone'
  <2>1. \A u \in Threads : u # t => pc'[u] = pc[u]
    BY <1>1 DEF IInv, Shared
  <2>2. Loader \in Threads /\ Handlers \subseteq Threads
    BY DEF Threads
  <2>3. (loading' \/ ~alive') => \A h \in Handlers : pc'[h] = "idle"
    BY <1>1, <2>1, <2>2 DEF IInv, Alone
  <2>4. ~loading' => pc'[Loader] = "idle"
    BY <1>1, <2>1, <2>2 DEF IInv, Alone
  <2>5. ~overlapped' => \A u, v \in Threads : pc'[u] # "idle" /\ pc'[v] # "idle" => u = v
    BY <2>1
  <2> QED
    BY <1>1, <2>3, <2>4, <2>5 DEF Alone
<1> QED
  BY <1>2, <1>3, <1>5, <1>6, <1>7 DEF IInv

\* The REST service starts a thread for a request.
LEMMA ReceiveKeeps ==
    ASSUME IInv, NEW h \in Handlers, NEW r \in Requests, Receive(h, r)
    PROVE  IInv'
<1>1. /\ Begins(h, r) /\ UNCHANGED memory /\ ~loading /\ UNCHANGED <<alive, loading>>
      /\ overlapped' = (overlapped \/ \E t \in Threads : pc[t] # "idle")
  BY DEF Receive, start
<1>2. Outer'
  BY DEF Receive, IInv, Outer, world, tables, start
<1>3. ToLoad'
  BY DEF Receive, IInv, ToLoad, start
<1>4. h \in Threads /\ h # Loader
  BY DEF Threads
<1> QED
  BY <1>1, <1>2, <1>3, <1>4, BeginsKeeps

\* The main thread loads what it has read.
LEMMA LoadKeeps == ASSUME IInv, LoadCluster \/ LoadNodes \/ LoadInstance PROVE IInv'
<1>1. ASSUME NEW r \in Requests, NEW left, LoaderBegins(r, left), loading, ToLoad' PROVE IInv'
  <2>1. Begins(Loader, r) /\ UNCHANGED <<memory, alive, loading, overlapped>>
    BY <1>1 DEF LoaderBegins, history
  <2>2. Outer'
    BY <1>1 DEF LoaderBegins, IInv, Outer, world, tables, bounds
  <2>3. Loader \in Threads /\ \A u \in Threads : pc[u] = "idle"
    BY <1>1, <2>1 DEF Begins, At, IInv, Alone, Threads
  <2> QED
    BY <1>1, <2>1, <2>2, <2>3, BeginsKeeps
<1>2. CASE LoadCluster
  <2>1. PICK r \in exist_cluster :
            /\ LoaderBegins(Request("create_cluster", r.cluster, {}, None), r)
            /\ exist_cluster' = exist_cluster \ {r}
    BY <1>2 DEF LoadCluster
  <2>2. r.cluster \in ClusterNames /\ loading /\ row' = r
    BY <1>2, <2>1 DEF IInv, ToLoad, LoadCluster, LoaderBegins
  <2>3. Request("create_cluster", r.cluster, {}, None) \in Requests
    BY <2>2 DEF Requests
  <2>4. ToLoad'
    BY <2>1, <2>2 DEF IInv, ToLoad
  <2> QED
    BY <1>1, <2>1, <2>2, <2>3, <2>4
<1>3. CASE LoadNodes
  <2>1. /\ LoaderBegins(Request("add_node", row.cluster, row.nodes, None), [row EXCEPT !.nodes = {}])
        /\ loading /\ row.nodes # {} /\ exist_cluster' = exist_cluster
    BY <1>3 DEF LoadNodes
  <2>2. row \in StoredRow /\ row.cluster \in ClusterNames /\ row' = [row EXCEPT !.nodes = {}]
    BY <2>1 DEF IInv, ToLoad, LoaderBegins
  <2>3. Request("add_node", row.cluster, row.nodes, None) \in Requests
    BY <2>2 DEF Requests, StoredRow
  <2>4. ToLoad'
    BY <2>1, <2>2 DEF IInv, ToLoad, StoredRow
  <2> QED
    BY <1>1, <2>1, <2>3, <2>4
<1>4. CASE LoadInstance
  <2>1. PICK i \in row.instances :
            LoaderBegins(Request("add_instance", row.cluster, {}, i),
                         [row EXCEPT !.instances = @ \ {i}])
    BY <1>4 DEF LoadInstance
  <2>2. /\ loading /\ exist_cluster' = exist_cluster
        /\ row \in StoredRow /\ row.cluster \in ClusterNames
        /\ row' = [row EXCEPT !.instances = @ \ {i}]
    BY <1>4, <2>1 DEF IInv, ToLoad, LoaderBegins, LoadInstance
  <2>3. Request("add_instance", row.cluster, {}, i) \in Requests
    BY <2>2 DEF Requests, StoredRow
  <2>4. ToLoad'
    BY <2>2 DEF IInv, ToLoad, StoredRow
  <2> QED
    BY <1>1, <2>1, <2>2, <2>3, <2>4
<1> QED
  BY <1>2, <1>3, <1>4

\* The main thread has loaded everything.
LEMMA LoadEndsKeeps == ASSUME IInv, LoadEnds PROVE IInv'
<1>1. /\ UNCHANGED <<memory, pc, thread, overlapped>>
      /\ alive' = alive /\ loading' = FALSE /\ row' = NoRow /\ exist_cluster' = exist_cluster
      /\ loading /\ pc[Loader] = "idle"
  BY DEF LoadEnds, At
<1>2. Outer'
  BY DEF LoadEnds, IInv, Outer, world, tables, bounds
<1>3. ToLoad'
  BY <1>1 DEF IInv, ToLoad, NoRow, StoredRow
<1>4. Alone'
  BY <1>1 DEF IInv, Alone
<1> QED
  BY <1>1, <1>2, <1>3, <1>4, ControllerKept

\* A thread that has answered forgets its request.
LEMMA ForgetsKeeps ==
    ASSUME IInv, NEW t \in Threads, Forgets(t), pc[t] = "answer", UNCHANGED memory,
           UNCHANGED <<alive, loading, overlapped>>, Outer', ToLoad'
    PROVE  IInv'
<1>1. Step(t) /\ pc'[t] = "idle"
  BY DEF Forgets, Goto, Step, IInv, Shared
<1>2. ThreadOK(t)'
  <2>1. NoRequest \in AnyRequest /\ NoRequest.op = "none"
    BY DEF NoRequest, Request, AnyRequest, Ops
  <2>2. /\ request'[t] = NoRequest /\ object'[t] = None /\ position'[t] = 0 /\ todo'[t] = {}
        /\ result'[t] = "none"
    BY DEF Forgets, IInv, Shared
  <2> QED
    BY <1>1, <2>1, <2>2 DEF ThreadOK, Fits, Places, Outcomes
<1>3. Relies(t)'
  BY <1>1 DEF Relies
<1> QED
  BY <1>1, <1>2, <1>3, AsideKeeps

\* A handler answers, and the main thread goes on with the next it has read.
LEMMA AnswerKeeps ==
    ASSUME IInv, (\E h \in Threads : Answer(h)) \/ LoaderGoesOn
    PROVE  IInv'
<1>1. ASSUME NEW h \in Threads, Answer(h) PROVE IInv'
  <2>1. Outer' /\ ToLoad'
    BY <1>1 DEF Answer, IInv, Outer, ToLoad, world, tables, bounds, start
  <2> QED
    BY <1>1, <2>1, ForgetsKeeps DEF Answer, At, start
<1>2. CASE LoaderGoesOn
  <2>1. Outer'
    BY <1>2 DEF LoaderGoesOn, IInv, Outer, world, tables, bounds
  <2>2. ToLoad'
    BY <1>2 DEF LoaderGoesOn, IInv, ToLoad, NoRow, StoredRow
  <2> QED
    BY <1>2, <2>1, <2>2, ForgetsKeeps DEF LoaderGoesOn, At, Threads
<1> QED
  BY <1>1, <1>2
----------------------------------------------------------------------------
(***************************************************************************)
(* What the requests do in memory.                                         *)
(***************************************************************************)
\* A step in memory leaves the world and the tables alone, whether it raises or not.
LEMMA RaisingKeeps ==
    ASSUME IInv, Raising
    PROVE  Outer' /\ ToLoad' /\ UNCHANGED <<alive, loading, overlapped, placed>>
  BY DEF Raising, IInv, Outer, ToLoad, world, tables, start, bounds

\* The same of the steps that cannot raise.
LEMMA InMemoryKeeps ==
    ASSUME IInv, InMemory
    PROVE  Outer' /\ ToLoad' /\ UNCHANGED <<alive, loading, overlapped, placed>>
  BY RaisingKeeps DEF InMemory, Raising, history

\* The requests' steps that neither change a list nor bind a name.
ChecksOnly(t) ==
    \/ CreateClusterChecks(t) \/ AddNodeChecks(t) \/ AddInstanceChecks(t)
    \/ DeleteInstanceBegins(t) \/ UpdateAllBegins(t) \/ UpdateDb(t)

\* The cluster that a request names is one of the objects that have been made.
LEMMA NamedCluster ==
    ASSUME Memory, Fresh, NEW t, request[t].cluster \in ClusterNames, Cluster(t) # None
    PROVE  Cluster(t) \in 1..created /\ Cluster(t) \in Objects
<1>1. request[t].cluster \in Clusters
  BY DEF Clusters, Cluster
<1>2. Cluster(t) \in Objects /\ Cluster(t) <= created
  BY <1>1 DEF Memory, Fresh, Cluster
<1> QED
  BY <1>2 DEF Memory, Objects

\* A name that is free, as the thread has seen it.
LEMMA CreateClusterChecksKeeps ==
    ASSUME IInv, NEW t \in Threads, CreateClusterChecks(t) PROVE IInv'
<1>1. /\ InMemory /\ UNCHANGED memory /\ pc[t] = "begin" /\ request[t].op = "create_cluster"
      /\ UNCHANGED <<request, object, position, todo, writing>>
      /\ \/ pc' = [pc EXCEPT ![t] = "answer"] /\ result' = [result EXCEPT ![t] = "failed"]
         \/ Cluster(t) = None /\ pc' = [pc EXCEPT ![t] = "create"] /\ UNCHANGED result
  BY DEF CreateClusterChecks, At, Op, Finish, Goto
<1>2. Outer' /\ ToLoad' /\ UNCHANGED <<alive, loading, overlapped>>
  BY <1>1, InMemoryKeeps
<1>3. Step(t) /\ pc'[t] \in {"answer", "create"} /\ (pc'[t] = "create" => Cluster(t) = None)
  BY <1>1, <1>2 DEF IInv, Shared, Step
<1>4. ThreadOK(t)'
  BY <1>1, <1>3 DEF IInv, Shared, ThreadOK, Fits, Places, Outcomes
<1>5. Relies(t)'
  BY <1>1, <1>3 DEF Relies, Cluster, memory
<1> QED
  BY <1>1, <1>2, <1>3, <1>4, <1>5, AsideKeeps

\* The nodes that are to be added are in no list: a list that no cluster has is empty.
LEMMA AddNodeChecksKeeps ==
    ASSUME IInv, NEW t \in Threads, AddNodeChecks(t) PROVE IInv'
<1>1. /\ InMemory /\ UNCHANGED memory
      /\ \/ pc[t] = "begin" /\ request[t].op = "add_node"
         \/ pc[t] = "fill"
      /\ UNCHANGED <<request, position, todo, writing>>
      /\ \/ /\ pc' = [pc EXCEPT ![t] = "answer"] /\ UNCHANGED object
            /\ \E outcome \in {"failed", "raises"} : result' = [result EXCEPT ![t] = outcome]
         \/ /\ \A n \in request[t].nodes, c \in Clusters : n \notin NodesOf(cluster_dict[c])
            /\ Cluster(t) # None
            /\ pc' = [pc EXCEPT ![t] = "add nodes"] /\ UNCHANGED result
            /\ object' = [object EXCEPT ![t] = Cluster(t)]
  BY DEF AddNodeChecks, At, Op, Finish, Goto
<1>2. Outer' /\ ToLoad' /\ UNCHANGED <<alive, loading, overlapped>>
  BY <1>1, InMemoryKeeps
<1>3. Step(t) /\ pc'[t] \in {"answer", "add nodes"}
  BY <1>1, <1>2 DEF IInv, Shared, Step
<1>4. request[t].op \in {"add_node", "fill_cluster"} /\ request[t].cluster \in ClusterNames
  BY <1>1 DEF IInv, ThreadOK, Fits
<1>5. CASE pc'[t] = "answer"
  <2>1. result'[t] \in Outcomes /\ object'[t] = object[t]
    BY <1>1, <1>5 DEF IInv, Shared, Outcomes
  <2>2. ThreadOK(t)'
    BY <1>1, <1>5, <2>1 DEF IInv, ThreadOK, Fits, Places
  <2>3. Relies(t)'
    BY <1>5 DEF Relies
  <2> QED
    BY <1>1, <1>2, <1>3, <2>2, <2>3, AsideKeeps
<1>6. CASE pc'[t] = "add nodes"
  <2>1. /\ \A n \in request[t].nodes, c \in Clusters : n \notin NodesOf(cluster_dict[c])
        /\ Cluster(t) # None /\ object'[t] = Cluster(t) /\ result'[t] = result[t]
    BY <1>1, <1>6 DEF IInv, Shared
  <2>2. Cluster(t) \in 1..created /\ Cluster(t) \in Objects
    BY <1>4, <2>1, NamedCluster DEF IInv
  <2>3. ThreadOK(t)'
    <3>1. created' = created /\ ThreadOK(t)
      BY <1>1 DEF memory, IInv
    <3>2. Fits(t)' /\ pc'[t] \in Places
      BY <1>1, <1>4, <1>6 DEF Fits, Places
    <3> QED
      BY <1>1, <1>6, <2>1, <2>2, <3>1, <3>2 DEF ThreadOK
  <2>4. ASSUME ~overlapped PROVE Relies(t)'
    <3>1. \A o \in Objects : request[t].nodes \cap NodesOf(o) = {}
      BY <2>1, <2>4 DEF IInv, Owned
    <3>2. \A o : NodesOf(o)' = NodesOf(o)
      BY <1>1, MemoryKept
    <3>3. object'[t] = cluster_dict'[request'[t].cluster] /\ request' = request
      BY <1>1, <2>1 DEF Cluster, memory
    <3> QED
      BY <1>6, <3>1, <3>2, <3>3 DEF Relies
  <2> QED
    BY <1>1, <1>2, <1>3, <2>3, <2>4, AsideKeeps
<1> QED
  BY <1>3, <1>5, <1>6

\* The instance that is to be protected is in no cluster, as the thread has seen it.
LEMMA AddInstanceChecksKeeps ==
    ASSUME IInv, NEW t \in Threads, AddInstanceChecks(t) PROVE IInv'
<1>1. /\ InMemory /\ UNCHANGED memory /\ pc[t] = "begin" /\ request[t].op = "add_instance"
      /\ UNCHANGED <<request, position, todo, writing>>
      /\ \/ /\ pc' = [pc EXCEPT ![t] = "answer"] /\ UNCHANGED object
            /\ result' = [result EXCEPT ![t] = "failed"]
         \/ /\ Cluster(t) # None
            /\ \A c \in Clusters : request[t].instance \notin Ids(cluster_dict[c])
            /\ pc' = [pc EXCEPT ![t] = "protect"] /\ UNCHANGED result
            /\ object' = [object EXCEPT ![t] = Cluster(t)]
  BY DEF AddInstanceChecks, At, Op, Finish, Goto
<1>2. Outer' /\ ToLoad' /\ UNCHANGED <<alive, loading, overlapped>>
  BY <1>1, InMemoryKeeps
<1>3. Step(t) /\ pc'[t] \in {"answer", "protect"}
  BY <1>1, <1>2 DEF IInv, Shared, Step
<1>4. request[t].cluster \in ClusterNames
  BY <1>1 DEF IInv, ThreadOK, Fits
<1>5. CASE pc'[t] = "answer"
  <2>1. result'[t] = "failed" /\ object'[t] = object[t]
    BY <1>1, <1>5 DEF IInv, Shared
  <2>2. ThreadOK(t)'
    BY <1>1, <1>5, <2>1 DEF IInv, ThreadOK, Fits, Places, Outcomes
  <2>3. Relies(t)'
    BY <1>5 DEF Relies
  <2> QED
    BY <1>1, <1>2, <1>3, <2>2, <2>3, AsideKeeps
<1>6. CASE pc'[t] = "protect"
  <2>1. /\ Cluster(t) # None /\ object'[t] = Cluster(t) /\ result'[t] = result[t]
        /\ \A c \in Clusters : request[t].instance \notin Ids(cluster_dict[c])
    BY <1>1, <1>6 DEF IInv, Shared
  <2>2. Cluster(t) \in 1..created /\ Cluster(t) \in Objects
    BY <1>4, <2>1, NamedCluster DEF IInv
  <2>3. ThreadOK(t)'
    <3>1. created' = created /\ ThreadOK(t)
      BY <1>1 DEF memory, IInv
    <3>2. Fits(t)' /\ pc'[t] \in Places
      BY <1>1, <1>6 DEF IInv, ThreadOK, Fits, Places
    <3> QED
      BY <1>1, <1>6, <2>1, <2>2, <3>1, <3>2 DEF ThreadOK
  <2>4. Relies(t)'
    <3>1. Clusters' = Clusters /\ \A o : Ids(o)' = Ids(o)
      BY <1>1, MemoryKept
    <3>2. object'[t] = cluster_dict'[request'[t].cluster] /\ request' = request
          /\ cluster_dict' = cluster_dict
      BY <1>1, <2>1 DEF Cluster, memory
    <3> QED
      BY <1>6, <2>1, <3>1, <3>2 DEF Relies
  <2> QED
    BY <1>1, <1>2, <1>3, <2>3, <2>4, AsideKeeps
<1> QED
  BY <1>3, <1>5, <1>6

\* The thread holds the Cluster object whose list it goes through.
LEMMA DeleteInstanceBeginsKeeps ==
    ASSUME IInv, NEW t \in Threads, DeleteInstanceBegins(t) PROVE IInv'
<1>1. /\ InMemory /\ UNCHANGED memory /\ pc[t] = "begin" /\ request[t].op = "delete_instance"
      /\ UNCHANGED <<request, todo, writing>> /\ result' = [result EXCEPT ![t] = "failed"]
      /\ \/ pc' = [pc EXCEPT ![t] = "answer"] /\ UNCHANGED <<object, position>>
         \/ /\ Cluster(t) # None /\ pc' = [pc EXCEPT ![t] = "delete"]
            /\ object' = [object EXCEPT ![t] = Cluster(t)]
            /\ position' = [position EXCEPT ![t] = 1]
  BY DEF DeleteInstanceBegins, At, Op, Finish, Goto
<1>2. Outer' /\ ToLoad' /\ UNCHANGED <<alive, loading, overlapped>>
  BY <1>1, InMemoryKeeps
<1>3. /\ Step(t) /\ pc'[t] \in {"answer", "delete"} /\ result'[t] = "failed"
      /\ pc'[t] = "delete" => Cluster(t) # None /\ object'[t] = Cluster(t) /\ position'[t] = 1
      /\ pc'[t] = "answer" => object'[t] = object[t] /\ position'[t] = position[t]
  BY <1>1, <1>2 DEF IInv, Shared, Step
<1>4. pc'[t] = "delete" => Cluster(t) \in 1..created /\ Cluster(t) \in Objects
  <2>1. request[t].cluster \in ClusterNames
    BY <1>1 DEF IInv, ThreadOK, Fits
  <2> QED
    BY <1>3, <2>1, NamedCluster DEF IInv
<1>5. created' = created
  BY <1>1 DEF memory
<1>6. ThreadOK(t)'
  <2>1. ThreadOK(t)
    BY DEF IInv
  <2>2. Fits(t)'
    BY <1>1, <1>3, <2>1 DEF ThreadOK, Fits
  <2>3. object'[t] \in Objects \cup {None} /\ position'[t] \in Nat
        /\ (pc'[t] = "delete" => object'[t] \in 1..created' /\ position'[t] # 0)
    <3>1. CASE pc'[t] = "answer"
      BY <1>3, <2>1, <3>1 DEF ThreadOK
    <3>2. CASE pc'[t] = "delete"
      BY <1>3, <1>4, <1>5, <3>2
    <3> QED
      BY <1>3, <3>1, <3>2
  <2> QED
    BY <1>1, <1>3, <2>1, <2>2, <2>3 DEF ThreadOK, Places, Outcomes
<1>7. Relies(t)'
  BY <1>3 DEF Relies
<1> QED
  BY <1>1, <1>2, <1>3, <1>6, <1>7, AsideKeeps

\* What a loop over the clusters will visit.
LEMMA ClusterPairs ==
    ASSUME Memory
    PROVE  {<<c, cluster_dict[c]>> : c \in Clusters} \subseteq ClusterNames \X Objects
  BY DEF Memory, Clusters

\* The clusters that are to be updated are visited one after the other.
LEMMA UpdateAllBeginsKeeps ==
    ASSUME IInv, NEW t \in Threads, UpdateAllBegins(t) \/ UpdateDb(t) PROVE IInv'
<1>1. /\ InMemory /\ UNCHANGED memory /\ pc[t] = "begin"
      /\ UNCHANGED <<request, object, position, writing>>
      /\ \/ /\ pc' = [pc EXCEPT ![t] = "update all"] /\ UNCHANGED result
            /\ todo' = [todo EXCEPT ![t] = {<<c, cluster_dict[c]>> : c \in Clusters}]
         \/ /\ pc' = [pc EXCEPT ![t] = "save"] /\ UNCHANGED todo
            /\ result' = [result EXCEPT ![t] = "succeed"]
  BY DEF UpdateAllBegins, UpdateDb, At, Op, Finish, Goto
<1>2. Outer' /\ ToLoad' /\ UNCHANGED <<alive, loading, overlapped>>
  BY <1>1, InMemoryKeeps
<1>3. /\ Step(t) /\ pc'[t] \in {"update all", "save"} /\ result'[t] \in {"succeed", result[t]}
      /\ todo'[t] \in {todo[t], {<<c, cluster_dict[c]>> : c \in Clusters}}
  BY <1>1, <1>2 DEF IInv, Shared, Step
<1>4. ThreadOK(t)'
  <2>1. todo'[t] \subseteq ClusterNames \X Objects
    BY <1>3, ClusterPairs DEF IInv, ThreadOK
  <2> QED
    BY <1>1, <1>3, <2>1 DEF IInv, ThreadOK, Fits, Places, Outcomes
<1>5. Relies(t)'
  BY <1>3 DEF Relies
<1> QED
  BY <1>1, <1>2, <1>3, <1>4, <1>5, AsideKeeps

\* The steps of a request that only check.
LEMMA ChecksKeep == ASSUME IInv, NEW t \in Threads, ChecksOnly(t) PROVE IInv'
  BY CreateClusterChecksKeeps, AddNodeChecksKeeps, AddInstanceChecksKeeps,
     DeleteInstanceBeginsKeeps, UpdateAllBeginsKeeps DEF ChecksOnly
----------------------------------------------------------------------------
(***************************************************************************)
(* sync_to_db.                                                             *)
(***************************************************************************)
SavePlaces == {"save", "reset all", "tables", "reset", "write", "write nodes", "write instances"}

\* What a statement of a save does to its thread.
SaveMoves(t) ==
    /\ Step(t)
    /\ pc[t] \in SavePlaces /\ pc'[t] \in SavePlaces \cup {"fill", "answer"}
    /\ result'[t] \in {result[t], "raises", "failed"}
    /\ object'[t] = object[t] /\ position'[t] \in Nat
    /\ todo'[t] \subseteq ClusterNames \X Objects
    /\ pc'[t] \in {"write nodes", "write instances"} =>
           writing'[t] \in ClusterNames \X Objects /\ position'[t] # 0
    /\ \/ pc'[t] # "fill" /\ request'[t] = request[t]
       \/ /\ pc'[t] = "fill" /\ request[t].op = "create_cluster"
          /\ request'[t] = [request[t] EXCEPT !.op = "fill_cluster"]

\* A step of a save leaves the memory alone.
LEMMA SaveKeeps ==
    ASSUME IInv, NEW t \in Threads, SaveMoves(t), UNCHANGED memory, Outer', ToLoad'
    PROVE  IInv'
<1>1. ThreadOK(t)
  BY DEF IInv
<1>2. Fits(t)' /\ request'[t] \in AnyRequest
  <2>1. CASE pc'[t] # "fill" /\ request'[t] = request[t]
    BY <1>1, <2>1 DEF SaveMoves, SavePlaces, ThreadOK, Fits
  <2>2. CASE /\ pc'[t] = "fill" /\ request[t].op = "create_cluster"
             /\ request'[t] = [request[t] EXCEPT !.op = "fill_cluster"]
    <3>1. request[t] \in AnyRequest /\ request[t].cluster \in ClusterNames /\ "fill_cluster" \in Ops
      BY <1>1, <2>2 DEF ThreadOK, Fits, Ops
    <3>2. /\ request'[t] \in AnyRequest /\ request'[t].op = "fill_cluster"
          /\ request'[t].cluster \in ClusterNames
      BY <2>2, <3>1 DEF AnyRequest
    <3> QED
      BY <2>2, <3>2 DEF Fits
  <2> QED
    BY <2>1, <2>2 DEF SaveMoves
<1>3. ThreadOK(t)'
  BY <1>1, <1>2 DEF SaveMoves, SavePlaces, ThreadOK, Places, Outcomes
<1>4. Relies(t)'
  BY DEF SaveMoves, SavePlaces, Relies
<1>5. Step(t) /\ pc[t] # "idle"
  BY DEF SaveMoves, SavePlaces
<1> QED
  BY <1>3, <1>4, <1>5, AsideKeeps

\* What a thread keeps for its loops.
LEMMA LoopVariables ==
    ASSUME IInv, NEW t \in Threads
    PROVE  /\ position[t] \in Nat /\ todo[t] \subseteq ClusterNames \X Objects
           /\ pc[t] \in {"write nodes", "write instances"} =>
                  writing[t] \in ClusterNames \X Objects /\ position[t] # 0
           /\ Shared
  BY DEF IInv, ThreadOK

\* A save that goes on.
LEMMA SaveGoesOn ==
    ASSUME IInv, NEW t \in Threads, Step(t), pc[t] \in SavePlaces, pc'[t] \in SavePlaces,
           request'[t] = request[t], result'[t] = result[t], object'[t] = object[t],
           position'[t] \in Nat, todo'[t] \subseteq ClusterNames \X Objects,
           pc'[t] \in {"write nodes", "write instances"} =>
               writing'[t] \in ClusterNames \X Objects /\ position'[t] # 0
    PROVE  SaveMoves(t)
<1>1. pc'[t] # "fill"
  BY DEF SavePlaces
<1> QED
  BY <1>1 DEF SaveMoves

\* Where a thread is when its save has returned or raised.
LEMMA SaveEnds ==
    ASSUME IInv, NEW t \in Threads, Saved(t) \/ SaveRaises(t)
    PROVE  /\ DOMAIN pc' = Threads /\ DOMAIN request' = Threads /\ DOMAIN result' = Threads
           /\ \A u \in Threads : u # t => /\ pc'[u] = pc[u] /\ request'[u] = request[u]
                                          /\ result'[u] = result[u]
           /\ pc'[t] \in {"fill", "answer"} /\ result'[t] \in {result[t], "raises", "failed"}
           /\ \/ pc'[t] # "fill" /\ request'[t] = request[t]
              \/ /\ pc'[t] = "fill" /\ request[t].op = "create_cluster"
                 /\ request'[t] = [request[t] EXCEPT !.op = "fill_cluster"]
<1>1. Shared
  BY DEF IInv
<1>2. CASE /\ Op(t, "create_cluster") /\ Goto(t, "fill") /\ UNCHANGED result
           /\ request' = [request EXCEPT ![t].op = "fill_cluster"]
  BY <1>1, <1>2 DEF Shared, Op, Goto
<1>3. CASE Goto(t, "answer") /\ UNCHANGED <<request, result>>
  BY <1>1, <1>3 DEF Shared, Goto
<1>4. CASE SaveRaises(t)
  BY <1>1, <1>4 DEF Shared, SaveRaises, Finish, Goto
<1> QED
  BY <1>2, <1>3, <1>4 DEF Saved

\* The rows are well formed, whatever the save has just written.
Rows ==
    /\ ha_cluster \subseteq ClusterNames
    /\ ha_node \subseteq [node : Nodes, cluster : ClusterNames]
    /\ ha_instance \subseteq [id : Instances, cluster : ClusterNames]
    /\ cursor \in {"open", "closed"}

\* ... and the tables well formed.
LEMMA SavingKeeps ==
    ASSUME IInv, NEW t \in Threads, SaveMoves(t), Saving, Rows'
    PROVE  IInv'
<1>1. Outer' /\ ToLoad' /\ UNCHANGED memory
  BY DEF Saving, IInv, Outer, ToLoad, Rows, world, start, bounds
<1> QED
  BY <1>1, SaveKeeps

\* The steps that only lead to the first row.
LEMMA SaveOpensKeeps ==
    ASSUME IInv, NEW t \in Threads, SaveStarts(t) \/ ResetAll(t) \/ GetAllTable(t)
    PROVE  IInv'
<1>1. /\ Saving /\ UNCHANGED <<tables, cursor, object, writing>>
      /\ pc[t] \in SavePlaces
  BY DEF SaveStarts, ResetAll, GetAllTable, At, SavePlaces
<1>2. Rows' /\ UNCHANGED <<alive, loading, overlapped>>
  BY <1>1 DEF Rows, IInv, Outer, tables, Saving, start, history
<1>3. /\ Shared /\ ThreadOK(t)
      /\ position[t] \in Nat /\ todo[t] \subseteq ClusterNames \X Objects
  BY LoopVariables DEF IInv
<1>4. CASE /\ \E place \in {"reset all", "tables", "reset"} : Goto(t, place)
           /\ UNCHANGED <<request, result, todo>>
           /\ position' \in {position, [position EXCEPT ![t] = 1]}
  <2>1. PICK place \in {"reset all", "tables", "reset"} : pc' = [pc EXCEPT ![t] = place]
    BY <1>4 DEF Goto
  <2>2. /\ DOMAIN position' = Threads /\ position'[t] \in {position[t], 1}
        /\ \A u \in Threads : u # t => position'[u] = position[u]
    BY <1>3, <1>4 DEF Shared
  <2>3. Step(t) /\ pc'[t] = place
    <3>1. /\ DOMAIN pc' = Threads /\ pc'[t] = place
          /\ \A u \in Threads : u # t => pc'[u] = pc[u]
      BY <1>3, <2>1 DEF Shared
    <3>2. UNCHANGED <<request, result, todo, object, writing>>
      BY <1>1, <1>4
    <3> QED
      BY <1>2, <1>3, <2>2, <3>1, <3>2 DEF Step, Shared
  <2>4. /\ request'[t] = request[t] /\ result'[t] = result[t] /\ object'[t] = object[t]
        /\ todo'[t] \subseteq ClusterNames \X Objects
    <3>1. UNCHANGED <<request, result, todo, object>>
      BY <1>1, <1>4
    <3> QED
      BY <1>3, <3>1
  <2>5. pc'[t] \in SavePlaces /\ pc'[t] \notin {"write nodes", "write instances"}
    BY <2>3 DEF SavePlaces
  <2>6. position'[t] \in Nat
    <3>1. position[t] \in Nat
      BY <1>3
    <3>2. position'[t] = position[t] \/ position'[t] = 1
      BY <2>2
    <3>3. 1 \in Nat
      OBVIOUS
    <3> QED
      BY <3>1, <3>2, <3>3, Zenon
  <2>7. SaveMoves(t)
    BY <1>1, <2>3, <2>4, <2>5, <2>6, SaveGoesOn
  <2> QED
    BY <1>1, <1>2, <2>7, SavingKeeps
<1>5. CASE /\ Goto(t, "write") /\ todo' = [todo EXCEPT ![t] = {<<c, cluster_dict[c]>> : c \in Clusters}]
           /\ UNCHANGED <<request, result, position>>
  <2>1. {<<c, cluster_dict[c]>> : c \in Clusters} \subseteq ClusterNames \X Objects
    BY ClusterPairs DEF IInv
  <2>2. SaveMoves(t)
    BY <1>1, <1>2, <1>3, <1>5, <2>1 DEF SaveMoves, SavePlaces, Step, Shared, Goto, ThreadOK
  <2> QED
    BY <1>1, <1>2, <2>2, SavingKeeps
<1>6. CASE (Saved(t) \/ SaveRaises(t)) /\ UNCHANGED <<position, todo>>
  <2>1. SaveMoves(t)
    BY <1>1, <1>2, <1>3, <1>6, SaveEnds DEF SaveMoves, SavePlaces, Step, Shared, ThreadOK
  <2> QED
    BY <1>1, <1>2, <2>1, SavingKeeps
<1> QED
  BY <1>4, <1>5, <1>6 DEF SaveStarts, ResetAll, GetAllTable

\* A save that fails closes the cursor.
LEMMA WriteFailsMoves ==
    ASSUME IInv, NEW t \in Threads, WriteFails(t), pc[t] \in SavePlaces,
           UNCHANGED <<alive, loading, overlapped>>
    PROVE  SaveMoves(t) /\ Rows'
<1>1. Shared /\ ThreadOK(t) /\ Rows
  BY DEF IInv, Outer, Rows
<1>2. /\ cursor' = "closed" /\ UNCHANGED <<ha_cluster, ha_node, ha_instance>>
      /\ todo' = [todo EXCEPT ![t] = {}] /\ UNCHANGED <<object, position, writing>>
      /\ Saved(t)
  BY DEF WriteFails, tables
<1>3. Rows'
  BY <1>1, <1>2 DEF Rows
<1>4. Step(t)
  BY <1>1, <1>2, SaveEnds DEF Step, Shared
<1>5. SaveMoves(t)
  BY <1>1, <1>2, <1>4, SaveEnds DEF SaveMoves, SavePlaces, Shared, ThreadOK
<1> QED
  BY <1>3, <1>5

\* A table, or all of them, is emptied.
LEMMA ResetTableKeeps ==
    ASSUME IInv, NEW t \in Threads, ResetTable(t)
    PROVE  IInv'
<1>1. /\ Saving /\ UNCHANGED <<cursor, object, writing>> /\ pc[t] = "reset"
  BY DEF ResetTable, At
<1>2. Rows' /\ UNCHANGED <<alive, loading, overlapped>>
  <2>1. UNCHANGED <<alive, loading, overlapped>>
    BY <1>1 DEF Saving, start, history
  <2>2. ha_cluster' \subseteq ha_cluster /\ ha_node' \subseteq ha_node /\ ha_instance' \subseteq ha_instance
    BY DEF ResetTable, tables
  <2> QED
    BY <1>1, <2>1, <2>2 DEF IInv, Outer, Rows
<1>3. /\ Shared /\ ThreadOK(t) /\ {<<c, cluster_dict[c]>> : c \in Clusters} \subseteq ClusterNames \X Objects
      /\ position[t] \in Nat /\ todo[t] \subseteq ClusterNames \X Objects
  BY ClusterPairs, LoopVariables DEF IInv
<1>4. CASE SaveRaises(t) /\ UNCHANGED <<position, todo>>
  <2>1. SaveMoves(t)
    BY <1>1, <1>2, <1>3, <1>4, SaveEnds DEF SaveMoves, SavePlaces, Step, Shared, ThreadOK
  <2> QED
    BY <1>1, <1>2, <2>1, SavingKeeps
<1>5. CASE /\ position' = [position EXCEPT ![t] = @ + 1]
           /\ pc' = [pc EXCEPT ![t] = IF position[t] = 3 THEN "write" ELSE "reset"]
           /\ todo' \in {todo, [todo EXCEPT ![t] = {<<c, cluster_dict[c]>> : c \in Clusters}]}
           /\ UNCHANGED <<request, result>>
  <2>1. /\ DOMAIN pc' = Threads /\ DOMAIN position' = Threads /\ DOMAIN todo' = Threads
        /\ \A u \in Threads : u # t => /\ pc'[u] = pc[u] /\ position'[u] = position[u]
                                       /\ todo'[u] = todo[u]
    BY <1>3, <1>5 DEF Shared
  <2>2. Step(t)
    <3>1. UNCHANGED <<request, result, object, writing>>
      BY <1>1, <1>5
    <3> QED
      BY <1>2, <1>3, <2>1, <3>1 DEF Step, Shared
  <2>3. pc'[t] \in {"write", "reset"} /\ position'[t] = position[t] + 1
    BY <1>3, <1>5 DEF Shared
  <2>4. todo'[t] \subseteq ClusterNames \X Objects /\ position'[t] \in Nat
    BY <1>3, <1>5, <2>3 DEF Shared
  <2>5. request'[t] = request[t] /\ result'[t] = result[t] /\ object'[t] = object[t]
    BY <1>1, <1>5
  <2>6. SaveMoves(t)
    <3>1. pc[t] \in SavePlaces /\ pc'[t] \in SavePlaces
      BY <1>1, <2>3 DEF SavePlaces
    <3>2. pc'[t] \notin {"write nodes", "write instances"}
      BY <2>3
    <3> QED
      BY <2>2, <2>4, <2>5, <3>1, <3>2, SaveGoesOn
  <2> QED
    BY <1>1, <1>2, <2>6, SavingKeeps
<1> QED
  BY <1>4, <1>5 DEF ResetTable, Goto

\* A row is written, or skipped, or refused.
LEMMA WriteClusterKeeps ==
    ASSUME IInv, NEW t \in Threads, WriteCluster(t)
    PROVE  IInv'
<1>1. Saving /\ pc[t] = "write" /\ UNCHANGED <<alive, loading, overlapped>>
  BY DEF WriteCluster, At, Saving, start, history
<1>2. /\ Shared /\ ThreadOK(t) /\ Rows
      /\ position[t] \in Nat /\ todo[t] \subseteq ClusterNames \X Objects
  BY LoopVariables DEF IInv, Outer, Rows
<1>3. CASE Saved(t) /\ UNCHANGED <<tables, cursor, object, position, todo, writing>>
  <2>1. Rows'
    BY <1>2, <1>3 DEF Rows, tables
  <2>2. SaveMoves(t)
    BY <1>1, <1>2, <1>3, SaveEnds DEF SaveMoves, SavePlaces, Step, Shared, ThreadOK
  <2> QED
    BY <1>1, <2>1, <2>2, SavingKeeps
<1>4. CASE WriteFails(t)
  BY <1>1, <1>4, WriteFailsMoves, SavingKeeps DEF SavePlaces
<1>5. ASSUME NEW pair \in todo[t],
             ha_cluster' \in {ha_cluster, ha_cluster \cup {pair[1]}},
             todo' = [todo EXCEPT ![t] = @ \ {pair}],
             writing' = [writing EXCEPT ![t] = pair],
             position' = [position EXCEPT ![t] = 1],
             Goto(t, "write nodes"),
             UNCHANGED <<ha_node, ha_instance, cursor, object, request, result>>
      PROVE  IInv'
  <2>1. pair \in ClusterNames \X Objects
    BY <1>2 DEF ThreadOK
  <2>2. Rows'
    BY <1>2, <1>5, <2>1 DEF Rows
  <2>3. /\ DOMAIN pc' = Threads /\ DOMAIN position' = Threads /\ DOMAIN todo' = Threads
        /\ DOMAIN writing' = Threads
        /\ \A u \in Threads : u # t => /\ pc'[u] = pc[u] /\ position'[u] = position[u]
                                       /\ todo'[u] = todo[u] /\ writing'[u] = writing[u]
        /\ pc'[t] = "write nodes" /\ position'[t] = 1
        /\ todo'[t] = todo[t] \ {pair} /\ writing'[t] = pair
    BY <1>2, <1>5 DEF Shared, Goto
  <2>4. UNCHANGED <<request, result, object>>
    BY <1>5
  <2>5. Step(t)
    BY <1>1, <1>2, <2>3, <2>4 DEF Step, Shared
  <2>6. todo'[t] \subseteq ClusterNames \X Objects
    BY <1>2, <2>3 DEF ThreadOK
  <2>7. SaveMoves(t)
    <3>1. pc[t] \in SavePlaces /\ pc'[t] \in SavePlaces
      BY <1>1, <2>3 DEF SavePlaces
    <3>2. request'[t] = request[t] /\ result'[t] = result[t] /\ object'[t] = object[t]
      BY <2>4
    <3>3. position'[t] \in Nat /\ position'[t] # 0
      <4>1. position'[t] = 1
        BY <2>3
      <4> QED
        BY <4>1
    <3>4. writing'[t] \in ClusterNames \X Objects
      <4>1. writing'[t] = pair
        BY <2>3
      <4> QED
        BY <2>1, <4>1
    <3> QED
      BY <2>5, <2>6, <3>1, <3>2, <3>3, <3>4, SaveGoesOn
  <2> QED
    BY <1>1, <2>2, <2>7, SavingKeeps
<1>6. CASE /\ todo[t] # {}
           /\ \E pair \in todo[t] :
                 /\ ha_cluster' \in {ha_cluster, ha_cluster \cup {pair[1]}}
                 /\ todo' = [todo EXCEPT ![t] = @ \ {pair}]
                 /\ writing' = [writing EXCEPT ![t] = pair]
                 /\ position' = [position EXCEPT ![t] = 1]
                 /\ Goto(t, "write nodes")
                 /\ UNCHANGED <<ha_node, ha_instance, cursor, object, request, result>>
  BY <1>5, <1>6
<1> QED
  BY <1>3, <1>4, <1>6 DEF WriteCluster

\* The node at the thread's position, which is one of the list.
LEMMA WriteNodeKeeps ==
    ASSUME IInv, NEW t \in Threads, WriteNode(t)
    PROVE  IInv'
<1> DEFINE list == node_list[writing[t][2]]
           c == writing[t][1]
<1>1. Saving /\ pc[t] = "write nodes" /\ UNCHANGED <<alive, loading, overlapped>>
  BY DEF WriteNode, At, Saving, start, history
<1>2. /\ Shared /\ ThreadOK(t) /\ Rows
      /\ position[t] \in Nat /\ todo[t] \subseteq ClusterNames \X Objects
      /\ writing[t] \in ClusterNames \X Objects /\ position[t] # 0
  BY <1>1, LoopVariables DEF IInv, Outer, Rows
<1>3. CASE /\ Goto(t, "write instances") /\ position' = [position EXCEPT ![t] = 1]
           /\ UNCHANGED <<tables, cursor, object, todo, writing, request, result>>
  <2>1. Rows'
    BY <1>2, <1>3 DEF Rows, tables
  <2>2. /\ DOMAIN pc' = Threads /\ DOMAIN position' = Threads
        /\ \A u \in Threads : u # t => pc'[u] = pc[u] /\ position'[u] = position[u]
        /\ pc'[t] = "write instances" /\ position'[t] = 1
    BY <1>2, <1>3 DEF Shared, Goto
  <2>3. UNCHANGED <<request, result, object, todo, writing>>
    BY <1>3
  <2>4. Step(t)
    BY <1>1, <1>2, <2>2, <2>3 DEF Step, Shared
  <2>5. todo'[t] \subseteq ClusterNames \X Objects /\ writing'[t] \in ClusterNames \X Objects
    BY <1>2, <2>3 DEF ThreadOK
  <2>6. SaveMoves(t)
    <3>1. pc[t] \in SavePlaces /\ pc'[t] \in SavePlaces
      BY <1>1, <2>2 DEF SavePlaces
    <3>2. request'[t] = request[t] /\ result'[t] = result[t] /\ object'[t] = object[t]
      BY <2>3
    <3>3. position'[t] \in Nat /\ position'[t] # 0
      <4>1. position'[t] = 1
        BY <2>2
      <4> QED
        BY <4>1
    <3> QED
      BY <2>4, <2>5, <3>1, <3>2, <3>3, SaveGoesOn
  <2> QED
    BY <1>1, <2>1, <2>6, SavingKeeps
<1>4. CASE WriteFails(t)
  BY <1>1, <1>4, WriteFailsMoves, SavingKeeps DEF SavePlaces
<1>5. CASE /\ ~(position[t] > Len(list))
           /\ ha_node' \in {ha_node, ha_node \cup {NodeRow(list[position[t]], c)}}
           /\ position' = [position EXCEPT ![t] = position[t] + 1]
           /\ UNCHANGED <<pc, ha_cluster, ha_instance, cursor, object, todo, writing, request, result>>
  <2>1. writing[t][2] \in Objects /\ c \in ClusterNames
    BY <1>2
  <2>2. NodeRow(list[position[t]], c) \in [node : Nodes, cluster : ClusterNames]
    <3>1. list \in Seq(Nodes)
      BY <2>1 DEF IInv, Memory
    <3>2. position[t] \in 1..Len(list)
      <4>1. Len(list) \in Nat
        BY <3>1, LenProperties
      <4>2. position[t] \in Nat /\ position[t] # 0 /\ ~(position[t] > Len(list))
        BY <1>1, <1>2, <1>5 DEF ThreadOK
      <4> QED
        BY <4>1, <4>2
    <3>3. list[position[t]] \in Nodes
      BY <3>1, <3>2, ElementOfSeq
    <3> QED
      BY <2>1, <3>3 DEF NodeRow
  <2>3. Rows'
    BY <1>2, <1>5, <2>2 DEF Rows
  <2>4. Step(t)
    BY <1>1, <1>2, <1>5 DEF Step, Shared
  <2>5. UNCHANGED <<pc, request, result, object, todo, writing>>
    BY <1>5
  <2>6. position'[t] \in Nat /\ position'[t] # 0
    BY <1>2, <1>5 DEF Shared
  <2>7. todo'[t] \subseteq ClusterNames \X Objects /\ writing'[t] \in ClusterNames \X Objects
    BY <1>2, <2>5 DEF ThreadOK
  <2>8. SaveMoves(t)
    <3>1. pc[t] \in SavePlaces /\ pc'[t] \in SavePlaces
      BY <1>1, <2>5 DEF SavePlaces
    <3>2. request'[t] = request[t] /\ result'[t] = result[t] /\ object'[t] = object[t]
      BY <2>5
    <3> QED
      BY <2>4, <2>6, <2>7, <3>1, <3>2, SaveGoesOn
  <2> QED
    BY <1>1, <2>3, <2>8, SavingKeeps
<1> QED
  BY <1>3, <1>4, <1>5 DEF WriteNode

\* Likewise the instance.
LEMMA WriteInstanceKeeps ==
    ASSUME IInv, NEW t \in Threads, WriteInstance(t)
    PROVE  IInv'
<1> DEFINE list == instance_list[writing[t][2]]
           c == writing[t][1]
<1>1. Saving /\ pc[t] = "write instances" /\ UNCHANGED <<alive, loading, overlapped>>
  BY DEF WriteInstance, At, Saving, start, history
<1>2. /\ Shared /\ ThreadOK(t) /\ Rows
      /\ position[t] \in Nat /\ todo[t] \subseteq ClusterNames \X Objects
      /\ writing[t] \in ClusterNames \X Objects /\ position[t] # 0
  BY <1>1, LoopVariables DEF IInv, Outer, Rows
<1>3. CASE /\ Goto(t, "write")
           /\ UNCHANGED <<tables, cursor, object, position, todo, writing, request, result>>
  <2>1. Rows'
    BY <1>2, <1>3 DEF Rows, tables
  <2>2. /\ DOMAIN pc' = Threads /\ pc'[t] = "write"
        /\ \A u \in Threads : u # t => pc'[u] = pc[u]
    BY <1>2, <1>3 DEF Shared, Goto
  <2>3. UNCHANGED <<request, result, object, position, todo, writing>>
    BY <1>3
  <2>4. Step(t)
    BY <1>1, <1>2, <2>2, <2>3 DEF Step, Shared
  <2>5. todo'[t] \subseteq ClusterNames \X Objects /\ position'[t] \in Nat
    BY <1>2, <2>3 DEF ThreadOK
  <2>6. SaveMoves(t)
    <3>1. pc[t] \in SavePlaces /\ pc'[t] \in SavePlaces
      BY <1>1, <2>2 DEF SavePlaces
    <3>2. request'[t] = request[t] /\ result'[t] = result[t] /\ object'[t] = object[t]
      BY <2>3
    <3>3. pc'[t] \notin {"write nodes", "write instances"}
      BY <2>2
    <3> QED
      BY <2>4, <2>5, <3>1, <3>2, <3>3, SaveGoesOn
  <2> QED
    BY <1>1, <2>1, <2>6, SavingKeeps
<1>4. CASE WriteFails(t)
  BY <1>1, <1>4, WriteFailsMoves, SavingKeeps DEF SavePlaces
<1>5. CASE /\ ~(position[t] > Len(list))
           /\ ha_instance' \in {ha_instance, ha_instance \cup {InstanceRow(list[position[t]].id, c)}}
           /\ position' = [position EXCEPT ![t] = position[t] + 1]
           /\ UNCHANGED <<pc, ha_cluster, ha_node, cursor, object, todo, writing, request, result>>
  <2>1. writing[t][2] \in Objects /\ c \in ClusterNames
    BY <1>2
  <2>2. InstanceRow(list[position[t]].id, c) \in [id : Instances, cluster : ClusterNames]
    <3>1. list \in Seq(InstanceObjects)
      BY <2>1 DEF IInv, Memory
    <3>2. position[t] \in 1..Len(list)
      <4>1. Len(list) \in Nat
        BY <3>1, LenProperties
      <4>2. position[t] \in Nat /\ position[t] # 0 /\ ~(position[t] > Len(list))
        BY <1>1, <1>2, <1>5 DEF ThreadOK
      <4> QED
        BY <4>1, <4>2
    <3>3. list[position[t]] \in InstanceObjects
      BY <3>1, <3>2, ElementOfSeq
    <3> QED
      BY <2>1, <3>3 DEF InstanceRow, InstanceObjects
  <2>3. Rows'
    BY <1>2, <1>5, <2>2 DEF Rows
  <2>4. Step(t)
    BY <1>1, <1>2, <1>5 DEF Step, Shared
  <2>5. UNCHANGED <<pc, request, result, object, todo, writing>>
    BY <1>5
  <2>6. position'[t] \in Nat /\ position'[t] # 0
    BY <1>2, <1>5 DEF Shared
  <2>7. todo'[t] \subseteq ClusterNames \X Objects /\ writing'[t] \in ClusterNames \X Objects
    BY <1>2, <2>5 DEF ThreadOK
  <2>8. SaveMoves(t)
    <3>1. pc[t] \in SavePlaces /\ pc'[t] \in SavePlaces
      BY <1>1, <2>5 DEF SavePlaces
    <3>2. request'[t] = request[t] /\ result'[t] = result[t] /\ object'[t] = object[t]
      BY <2>5
    <3> QED
      BY <2>4, <2>6, <2>7, <3>1, <3>2, SaveGoesOn
  <2> QED
    BY <1>1, <2>3, <2>8, SavingKeeps
<1> QED
  BY <1>3, <1>4, <1>5 DEF WriteInstance

\* A statement fails.
LEMMA StatementFailsKeeps ==
    ASSUME IInv, NEW t \in Threads, StatementFails(t)
    PROVE  IInv'
<1>1. /\ UNCHANGED <<memory, server, pool, placed, alive, loading, exist_cluster, row, overlapped>>
      /\ events' \in 0..MaxEvents /\ requests' = requests /\ pc[t] \in SavePlaces
  BY EventTyped DEF StatementFails, Fault, Trouble, world, start, At, SavePlaces
<1>2. SaveMoves(t) /\ Rows'
  <2>1. CASE WriteFails(t)
    BY <1>1, <2>1, WriteFailsMoves
  <2>2. CASE SaveRaises(t) /\ UNCHANGED <<cursor, tables, object, position, todo, writing>>
            /\ pc[t] \in {"tables", "reset"}
    <3>1. Shared /\ ThreadOK(t) /\ Rows
      BY DEF IInv, Outer, Rows
    <3>2. Rows'
      BY <2>2, <3>1 DEF Rows, tables
    <3>3. Step(t)
      BY <1>1, <2>2, <3>1, SaveEnds DEF Step, Shared
    <3>4. SaveMoves(t)
      BY <1>1, <2>2, <3>1, <3>3, SaveEnds DEF SaveMoves, SavePlaces, ThreadOK
    <3> QED
      BY <3>2, <3>4
  <2> QED
    BY <2>1, <2>2 DEF StatementFails, At
<1>3. Outer' /\ ToLoad'
  BY <1>1, <1>2 DEF IInv, Outer, ToLoad, Rows
<1> QED
  BY <1>1, <1>2, <1>3, SaveKeeps

\* A row is too wide.
LEMMA RowTooWideKeeps ==
    ASSUME IInv, NEW t \in Threads, RowTooWide(t)
    PROVE  IInv'
<1>1. /\ UNCHANGED <<memory, server, pool, placed, alive, loading, exist_cluster, row, overlapped>>
      /\ UNCHANGED <<events, requests>> /\ pc[t] \in SavePlaces /\ WriteFails(t)
      /\ pc[t] \in {"write", "write nodes", "write instances"}
  BY DEF RowTooWide, Trouble, world, start, bounds, At, SavePlaces
<1>2. SaveMoves(t) /\ Rows'
  BY <1>1, WriteFailsMoves
<1>3. Outer' /\ ToLoad'
  BY <1>1, <1>2 DEF IInv, Outer, ToLoad, Rows
<1> QED
  BY <1>1, <1>2, <1>3, SaveKeeps

\* A save keeps the invariant.
LEMMA SyncKeeps ==
    ASSUME IInv, NEW t \in Threads, sync_to_db(t) \/ StatementFails(t) \/ RowTooWide(t)
    PROVE  IInv'
  BY SaveOpensKeeps, ResetTableKeeps, WriteClusterKeeps, WriteNodeKeeps, WriteInstanceKeeps,
     StatementFailsKeeps, RowTooWideKeeps DEF sync_to_db
----------------------------------------------------------------------------
(***************************************************************************)
(* The steps that change the memory.                                       *)
(***************************************************************************)
\* A cluster that is created is a new object, without nodes and instances.
LEMMA CreateClusterKeeps ==
    ASSUME IInv, NEW t \in Threads, CreateCluster(t) PROVE IInv'
<1> DEFINE cl == request[t].cluster
<1>1. /\ InMemory /\ pc[t] = "create" /\ created < MaxObjects /\ created' = created + 1
      /\ cluster_dict' = [cluster_dict EXCEPT ![cl] = created + 1]
      /\ pc' = [pc EXCEPT ![t] = "save"] /\ result' = [result EXCEPT ![t] = "succeed"]
      /\ UNCHANGED <<node_list, instance_list, request, object, position, todo, writing>>
  BY DEF CreateCluster, At, Goto
<1>2. Outer' /\ ToLoad' /\ UNCHANGED <<alive, loading, overlapped>>
  BY <1>1, InMemoryKeeps
<1>3. Step(t) /\ pc'[t] = "save" /\ result'[t] = "succeed"
  BY <1>1, <1>2 DEF IInv, Shared, Step
<1>4. cl \in ClusterNames /\ ThreadOK(t)
  BY <1>1 DEF IInv, ThreadOK, Fits
<1>5. /\ created \in Nat /\ created + 1 \in Objects /\ created + 1 # None
      /\ \A o \in Objects : o \in Nat
  BY <1>1 DEF IInv, Memory, Objects
<1>6. Memory'
  <2>1. created' \in 0..MaxObjects
    BY <1>1, <1>5 DEF IInv, Memory, Objects
  <2>2. cluster_dict' \in [ClusterNames -> Objects \cup {None}]
    BY <1>1, <1>4, <1>5 DEF IInv, Memory
  <2> QED
    BY <1>1, <2>1, <2>2 DEF IInv, Memory
<1>7. /\ Clusters' = Clusters \cup {cl} /\ cluster_dict'[cl] = created + 1
      /\ \A c \in Clusters : c # cl => cluster_dict'[c] = cluster_dict[c]
  BY <1>1, <1>4, <1>5 DEF Clusters, IInv, Memory
<1>8. \A c \in Clusters : cluster_dict[c] \in Objects /\ cluster_dict[c] <= created
  BY DEF IInv, Memory, Fresh, Clusters
<1>9. Fresh'
  <2>1. \A c \in Clusters' : cluster_dict'[c] <= created'
    BY <1>1, <1>5, <1>7, <1>8
  <2>2. \A c, d \in Clusters' : cluster_dict'[c] = cluster_dict'[d] => c = d
    <3>1. \A c \in Clusters : cluster_dict[c] # created + 1
      BY <1>5, <1>8
    <3> QED
      BY <1>7, <3>1 DEF IInv, Fresh
  <2>3. \A o \in Objects : o > created' => Len(node_list'[o]) = 0 /\ Len(instance_list'[o]) = 0
    BY <1>1, <1>5 DEF IInv, Fresh
  <2> QED
    BY <2>1, <2>2, <2>3 DEF Fresh
<1>10. ThreadOK(t)'
  BY <1>1, <1>3, <1>4 DEF ThreadOK, Fits, Places, Outcomes
<1>11. ASSUME ~overlapped PROVE Owned' /\ Relies(t)'
  <2>1. Owned /\ cluster_dict[cl] = None
    BY <1>1, <1>11 DEF IInv, Relies
  <2>2. \A o : NodesOf(o)' = NodesOf(o) /\ Ids(o)' = Ids(o)
    BY <1>1 DEF NodesOf, Ids
  <2>3. Ids(created + 1) = {}
    <3>1. Len(instance_list[created + 1]) = 0 /\ instance_list[created + 1] \in Seq(InstanceObjects)
      BY <1>5 DEF IInv, Fresh, Memory
    <3> QED
      BY <3>1, Elements DEF Ids
  <2>4. cl \notin Clusters
    BY <2>1 DEF Clusters
  <2>5. \A c, d \in Clusters' : c # d => Ids(cluster_dict[c])' \cap Ids(cluster_dict[d])' = {}
    <3>1. \A c \in Clusters' : Ids(cluster_dict[c])' = IF c = cl THEN {} ELSE Ids(cluster_dict[c])
      BY <1>7, <2>2, <2>3
    <3>2. \A c \in Clusters' : c # cl => c \in Clusters
      BY <1>7
    <3> QED
      BY <2>1, <3>1, <3>2 DEF Owned
  <2>6. \A o \in Objects : NodesOf(o)' # {} => \E c \in Clusters' : cluster_dict'[c] = o
    <3>1. \A o \in Objects : NodesOf(o) # {} => \E c \in Clusters : cluster_dict[c] = o
      BY <2>1 DEF Owned
    <3> QED
      BY <1>7, <2>2, <2>4, <3>1
  <2>7. Owned'
    BY <1>1, <2>1, <2>2, <2>5, <2>6 DEF Owned
  <2> QED
    BY <1>3, <2>7 DEF Relies
<1>12. created <= created' /\ pc[t] # "idle"
  BY <1>1, <1>5
<1> QED
  BY <1>2, <1>3, <1>6, <1>9, <1>10, <1>11, <1>12, StepKeeps

\* A cluster that is deleted has no nodes.
LEMMA DeleteClusterKeeps ==
    ASSUME IInv, NEW t \in Threads, DeleteCluster(t) PROVE IInv'
<1> DEFINE cl == request[t].cluster
<1>1. /\ InMemory /\ pc[t] = "begin" /\ request[t].op = "delete_cluster"
      /\ UNCHANGED <<node_list, instance_list, created, request, object, position, todo, writing>>
      /\ \/ /\ pc' = [pc EXCEPT ![t] = "answer"] /\ result' = [result EXCEPT ![t] = "failed"]
            /\ UNCHANGED cluster_dict
         \/ /\ Cluster(t) # None /\ node_list[Cluster(t)] = <<>>
            /\ cluster_dict' = [cluster_dict EXCEPT ![cl] = None]
            /\ \E place \in {"answer", "save"} : pc' = [pc EXCEPT ![t] = place]
            /\ \E outcome \in {"succeed", "failed"} : result' = [result EXCEPT ![t] = outcome]
  BY DEF DeleteCluster, At, Op, Finish, Goto
<1>2. Outer' /\ ToLoad' /\ UNCHANGED <<alive, loading, overlapped>>
  BY <1>1, InMemoryKeeps
<1>3. Step(t) /\ pc'[t] \in {"answer", "save"} /\ result'[t] \in {"failed", "succeed"}
  BY <1>1, <1>2 DEF IInv, Shared, Step
<1>4. cl \in ClusterNames /\ ThreadOK(t) /\ pc[t] # "idle"
  BY <1>1 DEF IInv, ThreadOK, Fits
<1>5. ThreadOK(t)' /\ Relies(t)'
  BY <1>1, <1>3, <1>4 DEF ThreadOK, Fits, Places, Outcomes, Relies
<1>6. CASE UNCHANGED cluster_dict
  <2>1. UNCHANGED memory
    BY <1>1, <1>6 DEF memory
  <2> QED
    BY <1>2, <1>3, <1>4, <1>5, <2>1, AsideKeeps
<1>7. CASE /\ Cluster(t) # None /\ node_list[Cluster(t)] = <<>>
           /\ cluster_dict' = [cluster_dict EXCEPT ![cl] = None]
  <2>1. Memory'
    BY <1>1, <1>4, <1>7 DEF IInv, Memory
  <2>2. Clusters' = Clusters \ {cl} /\ \A c \in Clusters' : cluster_dict'[c] = cluster_dict[c]
    BY <1>4, <1>7 DEF Clusters, IInv, Memory
  <2>3. Fresh'
    BY <1>1, <2>2 DEF IInv, Fresh
  <2>4. \A o : NodesOf(o)' = NodesOf(o) /\ Ids(o)' = Ids(o)
    BY <1>1 DEF NodesOf, Ids
  <2>5. NodesOf(cluster_dict[cl]) = {}
    <3>1. Cluster(t) \in Objects
      BY <1>4, <1>7, NamedCluster DEF IInv
    <3>2. node_list[Cluster(t)] \in Seq(Nodes)
      BY <3>1 DEF IInv, Memory
    <3> QED
      BY <1>7, <3>2, Elements DEF NodesOf, Cluster
  <2>6. ASSUME Owned PROVE Owned'
    <3>1. \A o \in Objects : NodesOf(o)' # {} => \E c \in Clusters' : cluster_dict'[c] = o
      <4>1. \A o \in Objects : NodesOf(o) # {} => \E c \in Clusters : cluster_dict[c] = o
        BY <2>6 DEF Owned
      <4> QED
        BY <2>2, <2>4, <2>5, <4>1
    <3>2. \A c, d \in Clusters' : c # d => Ids(cluster_dict[c])' \cap Ids(cluster_dict[d])' = {}
      BY <2>2, <2>4, <2>6 DEF Owned
    <3> QED
      BY <1>1, <2>4, <2>6, <3>1, <3>2 DEF Owned
  <2>7. created <= created'
    BY <1>1 DEF IInv, Memory
  <2> QED
    BY <1>2, <1>3, <1>4, <1>5, <2>1, <2>3, <2>6, <2>7, StepKeeps DEF IInv
<1> QED
  BY <1>1, <1>6, <1>7

\* The lists of a step that takes elements out, or gives instances other hosts.
LEMMA ListsShrink ==
    ASSUME Memory, Fresh, Memory', UNCHANGED <<cluster_dict, created>>,
           \A o \in Objects : NodesOf(o)' \subseteq NodesOf(o) /\ Ids(o)' \subseteq Ids(o),
           \A o \in Objects : Once(node_list[o]) => Once(node_list'[o]),
           \A o \in Objects : OnceId(instance_list[o]) => OnceId(instance_list'[o])
    PROVE  Fresh' /\ (Owned => Owned')
<1>1. Clusters' = Clusters /\ \A c \in Clusters : cluster_dict[c] \in Objects
  BY DEF Clusters, Memory
<1>2. ASSUME NEW o \in Objects, Len(node_list[o]) = 0, Len(instance_list[o]) = 0
      PROVE  Len(node_list'[o]) = 0 /\ Len(instance_list'[o]) = 0
  <2>1. /\ node_list[o] \in Seq(Nodes) /\ instance_list[o] \in Seq(InstanceObjects)
        /\ node_list'[o] \in Seq(Nodes) /\ instance_list'[o] \in Seq(InstanceObjects)
    BY DEF Memory
  <2>2. NodesOf(o) = {} /\ Ids(o) = {}
    BY <1>2, <2>1, Elements DEF NodesOf, Ids
  <2>3. NodesOf(o)' = {} /\ Ids(o)' = {}
    BY <2>2
  <2>4. ToSet(node_list'[o]) = {} /\ ToSet(instance_list'[o]) = {}
    BY <2>3 DEF NodesOf, Ids
  <2> QED
    BY <2>1, <2>4, Elements
<1>3. Fresh'
  BY <1>1, <1>2 DEF Fresh
<1>4. ASSUME Owned PROVE Owned'
  <2>1. \A o \in Objects : Once(node_list'[o]) /\ OnceId(instance_list'[o])
    BY <1>4 DEF Owned
  <2>2. \A o, p \in Objects : o # p => NodesOf(o)' \cap NodesOf(p)' = {}
    BY <1>4 DEF Owned
  <2>3. \A c, d \in Clusters : c # d => Ids(cluster_dict[c])' \cap Ids(cluster_dict[d])' = {}
    BY <1>1, <1>4 DEF Owned
  <2>4. \A o \in Objects : NodesOf(o)' # {} => \E c \in Clusters : cluster_dict[c] = o
    BY <1>4 DEF Owned
  <2> QED
    BY <1>1, <2>1, <2>2, <2>3, <2>4 DEF Owned
<1> QED
  BY <1>3, <1>4

\* A node that is added is in no list.
LEMMA AddNodeKeeps ==
    ASSUME IInv, NEW t \in Threads, AddNode(t) PROVE IInv'
<1>1. PICK n \in request[t].nodes :
          /\ InMemory /\ pc[t] = "add nodes"
          /\ request' = [request EXCEPT ![t].nodes = @ \ {n}]
          /\ node_list' = IF n \in pool
                          THEN [node_list EXCEPT ![object[t]] = Append(@, n)]
                          ELSE node_list
          /\ \E outcome \in {"succeed", "failed"} : result' = [result EXCEPT ![t] = outcome]
          /\ \E place \in {"save", "add nodes"} : pc' = [pc EXCEPT ![t] = place]
          /\ UNCHANGED <<cluster_dict, instance_list, created, object, position, todo, writing>>
  BY DEF AddNode, At, Goto
<1>2. Outer' /\ ToLoad' /\ UNCHANGED <<alive, loading, overlapped>>
  BY <1>1, InMemoryKeeps
<1>3. /\ ThreadOK(t) /\ request[t] \in AnyRequest /\ n \in Nodes /\ Shared
      /\ object[t] \in 1..created /\ request[t].cluster \in ClusterNames
      /\ request[t].op \in {"add_node", "fill_cluster"}
  BY <1>1 DEF IInv, ThreadOK, Fits, AnyRequest
<1>4. /\ request'[t] \in AnyRequest /\ request'[t].op = request[t].op
      /\ request'[t].cluster = request[t].cluster /\ request'[t].nodes = request[t].nodes \ {n}
  BY <1>1, <1>3 DEF Shared, AnyRequest
<1>5. Step(t) /\ pc'[t] \in {"save", "add nodes"} /\ result'[t] \in {"succeed", "failed"}
  BY <1>1, <1>2, <1>3 DEF Shared, Step
<1>6. Fits(t)'
  BY <1>3, <1>4, <1>5 DEF Fits
<1>7. ThreadOK(t)'
  BY <1>1, <1>3, <1>4, <1>5, <1>6 DEF ThreadOK, Places, Outcomes
<1>8. /\ object[t] \in Objects /\ created <= created' /\ pc[t] # "idle"
      /\ node_list[object[t]] \in Seq(Nodes)
  <2>1. Memory /\ UNCHANGED created /\ pc[t] # "idle"
    BY <1>1 DEF IInv
  <2>2. object[t] \in Objects
    BY <1>3, <2>1 DEF Memory, Objects
  <2>3. created <= created'
    BY <2>1 DEF Memory
  <2> QED
    BY <2>1, <2>2, <2>3 DEF Memory
<1>9. CASE n \notin pool
  <2>1. UNCHANGED memory
    BY <1>1, <1>9 DEF memory
  <2>2. ASSUME ~overlapped PROVE Relies(t)'
    <3>1. \A o : NodesOf(o)' = NodesOf(o)
      BY <2>1, MemoryKept
    <3> QED
      BY <1>1, <1>4, <1>5, <2>2, <3>1 DEF IInv, Relies
  <2> QED
    BY <1>2, <1>5, <1>7, <1>8, <2>1, <2>2, AsideKeeps
<1>10. CASE n \in pool
  <2> DEFINE new == Append(node_list[object[t]], n)
  <2>1. node_list' = [node_list EXCEPT ![object[t]] = new]
    BY <1>1, <1>10
  <2>2. /\ new \in Seq(Nodes) /\ ToSet(new) = NodesOf(object[t]) \cup {n}
        /\ n \notin NodesOf(object[t]) /\ Once(node_list[object[t]]) => Once(new)
    BY <1>3, <1>8, AppendNode DEF NodesOf
  <2> HIDE DEF new
  <2>3. /\ node_list'[object[t]] = new
        /\ \A o \in Objects : o # object[t] => node_list'[o] = node_list[o]
    BY <1>8, <2>1 DEF IInv, Memory
  <2>4. Memory'
    <3>1. UNCHANGED <<cluster_dict, instance_list, created>> /\ Memory
      BY <1>1 DEF IInv
    <3> QED
      BY <1>8, <2>1, <2>2, <3>1 DEF Memory
  <2>5. Clusters' = Clusters /\ \A o : Ids(o)' = Ids(o)
    BY <1>1 DEF Clusters, Ids
  <2>6. Fresh'
    <3>1. ~(object[t] > created)
      BY <1>3 DEF IInv, Memory
    <3> QED
      BY <1>1, <2>3, <2>5, <3>1 DEF IInv, Fresh
  <2>7. \A o \in Objects : NodesOf(o)' = IF o = object[t] THEN NodesOf(o) \cup {n} ELSE NodesOf(o)
    BY <2>2, <2>3 DEF NodesOf
  <2>8. ASSUME ~overlapped PROVE Owned' /\ Relies(t)'
    <3>1. /\ Owned /\ object[t] = cluster_dict[request[t].cluster]
          /\ \A o \in Objects : request[t].nodes \cap NodesOf(o) = {}
      BY <1>1, <2>8 DEF IInv, Relies
    <3>2. \A o \in Objects : n \notin NodesOf(o)
      BY <3>1
    <3>3. \A o \in Objects : Once(node_list'[o]) /\ OnceId(instance_list'[o])
      BY <1>1, <1>8, <2>2, <2>3, <3>1, <3>2 DEF Owned
    <3>4. \A o, p \in Objects : o # p => NodesOf(o)' \cap NodesOf(p)' = {}
      <4>1. \A o, p \in Objects : o # p => NodesOf(o) \cap NodesOf(p) = {}
        BY <3>1 DEF Owned
      <4> QED
        BY <2>7, <3>2, <4>1
    <3>5. \A c, d \in Clusters : c # d => Ids(cluster_dict[c])' \cap Ids(cluster_dict[d])' = {}
      BY <1>1, <2>5, <3>1 DEF Owned
    <3>6. \A o \in Objects : NodesOf(o)' # {} => \E c \in Clusters : cluster_dict[c] = o
      <4>1. request[t].cluster \in Clusters
        BY <1>3, <1>8, <3>1 DEF Clusters, Objects
      <4> QED
        BY <2>7, <3>1, <4>1 DEF Owned
    <3>7. Owned'
      BY <1>1, <2>5, <3>3, <3>4, <3>5, <3>6 DEF Owned
    <3>8. \A o \in Objects : request'[t].nodes \cap NodesOf(o)' = {}
      <4>1. request'[t].nodes = request[t].nodes \ {n}
        BY <1>4
      <4> QED
        BY <2>7, <3>1, <4>1
    <3> QED
      BY <1>1, <1>4, <1>5, <3>1, <3>7, <3>8 DEF Relies
  <2> QED
    BY <1>2, <1>5, <1>7, <1>8, <2>4, <2>6, <2>8, StepKeeps
<1> QED
  BY <1>9, <1>10

\* One node of the list is deleted.
LEMMA DeleteNodeKeeps ==
    ASSUME IInv, NEW t \in Threads, DeleteNode(t) PROVE IInv'
<1> DEFINE list == node_list[Cluster(t)]
           at == {k \in 1..Len(list) : list[k] \in request[t].nodes}
<1>1. /\ Raising /\ pc[t] = "begin" /\ request[t].op = "delete_node"
      /\ UNCHANGED <<cluster_dict, instance_list, created, request, object, position, todo, writing>>
      /\ \E place \in {"answer", "save"} : pc' = [pc EXCEPT ![t] = place]
      /\ \E outcome \in {"succeed", "failed"} : result' = [result EXCEPT ![t] = outcome]
      /\ \/ UNCHANGED node_list
         \/ /\ Cluster(t) # None /\ at # {}
            /\ node_list' = [node_list EXCEPT ![Cluster(t)] = RemoveAt(list, Min(at))]
  BY DEF DeleteNode, At, Op, Finish, Goto
<1>2. Outer' /\ ToLoad' /\ UNCHANGED <<alive, loading, overlapped>>
  BY <1>1, RaisingKeeps
<1>3. Step(t) /\ pc'[t] \in {"answer", "save"} /\ result'[t] \in {"failed", "succeed"}
  BY <1>1, <1>2 DEF IInv, Shared, Step
<1>4. request[t].cluster \in ClusterNames /\ ThreadOK(t) /\ pc[t] # "idle"
  BY <1>1 DEF IInv, ThreadOK, Fits
<1>5. ThreadOK(t)' /\ Relies(t)'
  BY <1>1, <1>3, <1>4 DEF ThreadOK, Fits, Places, Outcomes, Relies
<1>6. CASE UNCHANGED node_list
  <2>1. UNCHANGED memory
    BY <1>1, <1>6 DEF memory
  <2> QED
    BY <1>2, <1>3, <1>4, <1>5, <2>1, AsideKeeps
<1>7. CASE /\ Cluster(t) # None /\ at # {}
           /\ node_list' = [node_list EXCEPT ![Cluster(t)] = RemoveAt(list, Min(at))]
  <2>1. Cluster(t) \in Objects
    BY <1>4, <1>7, NamedCluster DEF IInv
  <2>2. list \in Seq(Nodes)
    BY <2>1 DEF IInv, Memory
  <2>3. Min(at) \in 1..Len(list)
    <3>1. Len(list) \in Nat
      BY <2>2, LenProperties
    <3>2. at \subseteq 1..Len(list) /\ at # {}
      BY <1>7
    <3> HIDE DEF at, list
    <3>3. Min(at) \in at
      BY <3>1, <3>2, MinOfPositions
    <3> QED
      BY <3>2, <3>3
  <2> DEFINE new == RemoveAt(list, Min(at))
  <2>4. /\ new \in Seq(Nodes) /\ ToSet(new) \subseteq NodesOf(Cluster(t))
        /\ Once(list) => Once(new)
    BY <2>2, <2>3, RemoveNode DEF NodesOf
  <2>5. node_list' = [node_list EXCEPT ![Cluster(t)] = new]
    BY <1>7
  <2> HIDE DEF new
  <2>6. Memory'
    BY <1>1, <2>1, <2>4, <2>5 DEF IInv, Memory
  <2>7. \A o \in Objects : node_list'[o] = IF o = Cluster(t) THEN new ELSE node_list[o]
    BY <2>1, <2>5 DEF IInv, Memory
  <2>8. \A o \in Objects : NodesOf(o)' \subseteq NodesOf(o) /\ Ids(o)' = Ids(o)
    BY <1>1, <2>4, <2>7 DEF NodesOf, Ids
  <2>9. \A o \in Objects : Once(node_list[o]) => Once(node_list'[o])
    BY <2>4, <2>7
  <2>10. Fresh' /\ (Owned => Owned')
    BY <1>1, <2>6, <2>8, <2>9, ListsShrink DEF IInv
  <2>11. created <= created'
    BY <1>1 DEF IInv, Memory
  <2> QED
    BY <1>2, <1>3, <1>4, <1>5, <2>6, <2>10, <2>11, StepKeeps DEF IInv
<1> QED
  BY <1>1, <1>6, <1>7

\* The host that is found is a node of the cluster, as the thread has seen it.
LEMMA AddInstanceKeeps ==
    ASSUME IInv, NEW t \in Threads, AddInstance(t) PROVE IInv'
<1> DEFINE host == placed[request[t].instance]
<1>1. /\ InMemory /\ UNCHANGED memory /\ pc[t] = "protect"
      /\ UNCHANGED <<object, position, todo, writing>>
      /\ \/ /\ host \in NodesOf(object[t])
            /\ request' = [request EXCEPT ![t].nodes = {host}]
            /\ pc' = [pc EXCEPT ![t] = "append"] /\ UNCHANGED result
         \/ /\ pc' = [pc EXCEPT ![t] = "answer"] /\ result' = [result EXCEPT ![t] = "failed"]
            /\ UNCHANGED request
  BY DEF AddInstance, At, Finish, Goto
<1>2. Outer' /\ ToLoad' /\ UNCHANGED <<alive, loading, overlapped>>
  BY <1>1, InMemoryKeeps
<1>3. Step(t) /\ pc'[t] \in {"answer", "append"}
  BY <1>1, <1>2 DEF IInv, Shared, Step
<1>4. /\ ThreadOK(t) /\ pc[t] # "idle" /\ object[t] \in 1..created /\ object[t] \in Objects
      /\ request[t] \in AnyRequest /\ request[t].op = "add_instance"
  <2>1. ThreadOK(t)
    BY DEF IInv
  <2>2. object[t] \in 1..created /\ request[t] \in AnyRequest /\ request[t].op = "add_instance"
    BY <1>1, <2>1 DEF ThreadOK, Fits
  <2>3. object[t] \in Objects
    BY <2>2 DEF IInv, Memory, Objects
  <2> QED
    BY <1>1, <2>1, <2>2, <2>3
<1>5. CASE pc'[t] = "answer"
  <2>1. result'[t] = "failed" /\ request'[t] = request[t]
    BY <1>1, <1>5 DEF IInv, Shared
  <2>2. ThreadOK(t)'
    BY <1>1, <1>4, <1>5, <2>1 DEF ThreadOK, Fits, Places, Outcomes, memory
  <2>3. Relies(t)'
    BY <1>5 DEF Relies
  <2> QED
    BY <1>1, <1>2, <1>3, <1>4, <2>2, <2>3, AsideKeeps
<1>6. CASE pc'[t] = "append"
  <2>1. /\ host \in NodesOf(object[t]) /\ result'[t] = result[t]
        /\ request'[t] = [request[t] EXCEPT !.nodes = {host}]
    BY <1>1, <1>6 DEF IInv, Shared
  <2>2. host \in Nodes
    <3>1. node_list[object[t]] \in Seq(Nodes)
      BY <1>4 DEF IInv, Memory
    <3> QED
      BY <2>1, <3>1, Elements DEF NodesOf
  <2>3. request'[t] \in AnyRequest
    BY <1>4, <2>1, <2>2 DEF AnyRequest
  <2>4. /\ request'[t].op = request[t].op /\ request'[t].cluster = request[t].cluster
        /\ request'[t].instance = request[t].instance /\ request'[t].nodes = {host}
    BY <1>4, <2>1 DEF AnyRequest
  <2>5. Fits(t)'
    BY <1>1, <1>4, <1>6, <2>4 DEF ThreadOK, Fits
  <2>6. ThreadOK(t)'
    <3>1. created' = created
      BY <1>1 DEF memory
    <3>2. /\ object'[t] = object[t] /\ position'[t] = position[t] /\ todo'[t] = todo[t]
          /\ writing'[t] = writing[t]
      BY <1>1
    <3> QED
      BY <1>4, <1>6, <2>1, <2>3, <2>5, <3>1, <3>2 DEF ThreadOK, Places
  <2>7. ASSUME ~overlapped PROVE Relies(t)'
    <3>1. Relies(t)
      BY <2>7 DEF IInv
    <3>2. /\ Clusters' = Clusters /\ \A o : Ids(o)' = Ids(o) /\ NodesOf(o)' = NodesOf(o)
          /\ cluster_dict' = cluster_dict
      BY <1>1, MemoryKept DEF memory
    <3>3. \A c \in Clusters : request[t].instance \notin Ids(cluster_dict[c])
      BY <1>1, <3>1 DEF Relies
    <3>4. object[t] = cluster_dict[request[t].cluster]
      BY <1>1, <3>1 DEF Relies
    <3>5. request'[t].nodes \subseteq NodesOf(object[t])
      BY <2>1, <2>4
    <3>6. \A c \in Clusters' : request'[t].instance \notin Ids(cluster_dict[c])'
      BY <2>4, <3>2, <3>3
    <3>7. request'[t].nodes \subseteq NodesOf(object[t])'
      BY <1>1, <3>2, <3>5
    <3> QED
      BY <1>1, <1>6, <2>4, <3>2, <3>4, <3>6, <3>7 DEF Relies
  <2> QED
    BY <1>1, <1>2, <1>3, <1>4, <2>6, <2>7, AsideKeeps
<1> QED
  BY <1>3, <1>5, <1>6

\* An instance that is added is in no list of a cluster.
LEMMA AppendInstanceKeeps ==
    ASSUME IInv, NEW t \in Threads, AppendInstance(t) PROVE IInv'
<1> DEFINE i == request[t].instance
           o == object[t]
<1>0. PICK host \in request[t].nodes :
          /\ instance_list' = [instance_list EXCEPT ![o] = Append(@, [id |-> i, host |-> host])]
          /\ \E place \in {"answer", "save"} : pc' = [pc EXCEPT ![t] = place]
          /\ \E outcome \in {"succeed", "failed"} : result' = [result EXCEPT ![t] = outcome]
  BY DEF AppendInstance, Finish, Goto
<1> DEFINE instance == [id |-> i, host |-> host]
           new == Append(instance_list[o], instance)
<1>1. /\ Raising /\ pc[t] = "append"
      /\ UNCHANGED <<cluster_dict, node_list, created, request, object, position, todo, writing>>
      /\ \E place \in {"answer", "save"} : pc' = [pc EXCEPT ![t] = place]
      /\ \E outcome \in {"succeed", "failed"} : result' = [result EXCEPT ![t] = outcome]
      /\ instance_list' = [instance_list EXCEPT ![o] = new]
  BY <1>0 DEF AppendInstance, At
<1>2. Outer' /\ ToLoad' /\ UNCHANGED <<alive, loading, overlapped>>
  BY <1>1, RaisingKeeps
<1>3. Step(t) /\ pc'[t] \in {"answer", "save"} /\ result'[t] \in {"failed", "succeed"}
  BY <1>1, <1>2 DEF IInv, Shared, Step
<1>4. /\ request[t].op = "add_instance" /\ request[t].cluster \in ClusterNames /\ i \in Instances
      /\ ThreadOK(t) /\ pc[t] # "idle" /\ o \in 1..created /\ host \in Nodes
  BY <1>1 DEF IInv, ThreadOK, Fits, AnyRequest
<1>5. ThreadOK(t)' /\ Relies(t)'
  BY <1>1, <1>3, <1>4 DEF ThreadOK, Fits, Places, Outcomes, Relies
<1>6. o \in Objects /\ ~(o > created) /\ created <= created'
  BY <1>1, <1>4 DEF IInv, Memory, Objects
<1>7. instance_list[o] \in Seq(InstanceObjects) /\ instance \in InstanceObjects
  BY <1>4, <1>6 DEF IInv, Memory, Outer, InstanceObjects
<1>8. /\ new \in Seq(InstanceObjects) /\ ToSet(new) = ToSet(instance_list[o]) \cup {instance}
      /\ (\A old \in ToSet(instance_list[o]) : old.id # i) /\ OnceId(instance_list[o]) => OnceId(new)
  BY <1>7, AppendRecord
<1>9. {x.id : x \in ToSet(new)} = Ids(o) \cup {i}
  BY <1>8 DEF Ids
<1> HIDE DEF new, instance
<1>10. \A p \in Objects : instance_list'[p] = IF p = o THEN new ELSE instance_list[p]
  BY <1>1, <1>6 DEF IInv, Memory
<1>11. Memory'
  BY <1>1, <1>6, <1>8 DEF IInv, Memory
<1>12. Clusters' = Clusters /\ \A p : NodesOf(p)' = NodesOf(p)
  BY <1>1 DEF Clusters, NodesOf
<1>13. Fresh'
  BY <1>1, <1>6, <1>10, <1>12 DEF IInv, Fresh
<1>14. \A p \in Objects : Ids(p)' = IF p = o THEN Ids(o) \cup {i} ELSE Ids(p)
  BY <1>1, <1>9, <1>10 DEF Ids
<1>15. ASSUME ~overlapped PROVE Owned'
  <2>1. /\ Owned /\ o = cluster_dict[request[t].cluster]
        /\ \A c \in Clusters : i \notin Ids(cluster_dict[c])
    BY <1>1, <1>15 DEF IInv, Relies
  <2>2. request[t].cluster \in Clusters
    BY <1>4, <1>6, <2>1 DEF Clusters, Objects
  <2>3. \A p \in Objects : Once(node_list'[p]) /\ OnceId(instance_list'[p])
    <3>1. i \notin Ids(o)
      BY <2>1, <2>2
    <3>2. \A old \in ToSet(instance_list[o]) : old.id # i
      BY <3>1 DEF Ids
    <3>3. OnceId(new)
      BY <1>6, <1>8, <2>1, <3>2 DEF Owned
    <3> QED
      BY <1>1, <1>10, <2>1, <3>3 DEF Owned
  <2>4. \A c, d \in Clusters : c # d => Ids(cluster_dict[c])' \cap Ids(cluster_dict[d])' = {}
    <3>1. \A c \in Clusters : /\ cluster_dict[c] \in Objects
                              /\ cluster_dict[c] = o => c = request[t].cluster
      BY <2>1, <2>2 DEF IInv, Fresh, Memory, Clusters
    <3> QED
      BY <1>1, <1>14, <2>1, <3>1 DEF Owned
  <2> QED
    BY <1>1, <1>12, <2>1, <2>3, <2>4 DEF Owned
<1> QED
  BY <1>2, <1>3, <1>4, <1>5, <1>6, <1>11, <1>13, <1>15, StepKeeps

\* The list of one cluster's instances gets shorter, or its instances other hosts.
LEMMA ListReplaced ==
    ASSUME IInv, NEW t \in Threads, NEW o \in Objects, NEW new \in Seq(InstanceObjects),
           Step(t), pc[t] # "idle", Outer', ToLoad', ThreadOK(t)', Relies(t)',
           UNCHANGED <<cluster_dict, node_list, created>>,
           instance_list' = [instance_list EXCEPT ![o] = new],
           OnceId(instance_list[o]) => OnceId(new),
           {x.id : x \in ToSet(new)} \subseteq Ids(o)
    PROVE  IInv'
<1>1. Memory /\ Fresh /\ created <= created'
  BY DEF IInv, Memory
<1>2. Memory'
  BY <1>1 DEF Memory
<1>3. \A p \in Objects : instance_list'[p] = IF p = o THEN new ELSE instance_list[p]
  BY <1>1 DEF Memory
<1>4. \A p \in Objects : NodesOf(p)' \subseteq NodesOf(p) /\ Ids(p)' \subseteq Ids(p)
  BY <1>3 DEF NodesOf, Ids
<1>5. \A p \in Objects : OnceId(instance_list[p]) => OnceId(instance_list'[p])
  BY <1>3
<1>6. Fresh' /\ (Owned => Owned')
  BY <1>1, <1>2, <1>4, <1>5, ListsShrink
<1> QED
  BY <1>1, <1>2, <1>6, StepKeeps DEF IInv

\* The instance at the thread's position is taken out, or nothing is.
LEMMA DeleteInstanceKeeps ==
    ASSUME IInv, NEW t \in Threads, DeleteInstance(t) PROVE IInv'
<1> DEFINE o == object[t]
           k == position[t]
           list == instance_list[o]
           new == RemoveAt(list, k)
<1>1. /\ Raising /\ pc[t] = "delete"
      /\ UNCHANGED <<cluster_dict, node_list, created, request, object, todo, writing>>
      /\ UNCHANGED pc \/ \E place \in {"answer", "save"} : pc' = [pc EXCEPT ![t] = place]
      /\ \/ UNCHANGED result
         \/ \E outcome \in {"succeed", "failed"} : result' = [result EXCEPT ![t] = outcome]
      /\ position' \in {position, [position EXCEPT ![t] = k + 1]}
      /\ \/ UNCHANGED instance_list
         \/ ~(k > Len(list)) /\ instance_list' = [instance_list EXCEPT ![o] = new]
  BY DEF DeleteInstance, At, Finish, Goto
<1>2. Outer' /\ ToLoad' /\ UNCHANGED <<alive, loading, overlapped>>
  BY <1>1, RaisingKeeps
<1>3. /\ Step(t) /\ pc'[t] \in {"delete", "answer", "save"}
      /\ result'[t] \in {result[t], "failed", "succeed"} /\ position'[t] \in {k, k + 1}
  BY <1>1, <1>2 DEF IInv, Shared, Step
<1>4. /\ ThreadOK(t) /\ pc[t] # "idle" /\ o \in 1..created /\ k \in Nat /\ k # 0
      /\ result[t] \in Outcomes /\ UNCHANGED <<created, object>>
  BY <1>1 DEF IInv, ThreadOK
<1>5. ThreadOK(t)' /\ Relies(t)'
  <2>1. position'[t] \in Nat /\ position'[t] # 0
    BY <1>3, <1>4
  <2>2. object'[t] = object[t] /\ object'[t] \in 1..created'
    BY <1>4
  <2>3. Fits(t)'
    BY <1>1, <1>3, <1>4 DEF ThreadOK, Fits
  <2> QED
    BY <1>1, <1>3, <1>4, <2>1, <2>2, <2>3 DEF ThreadOK, Places, Outcomes, Relies
<1>6. CASE UNCHANGED instance_list
  <2>1. UNCHANGED memory
    BY <1>1, <1>6 DEF memory
  <2> QED
    BY <1>2, <1>3, <1>4, <1>5, <2>1, AsideKeeps
<1>7. CASE ~(k > Len(list)) /\ instance_list' = [instance_list EXCEPT ![o] = new]
  <2>1. o \in Objects /\ created <= created'
    BY <1>4 DEF IInv, Memory, Objects
  <2>2. list \in Seq(InstanceObjects)
    BY <2>1 DEF IInv, Memory
  <2>3. k \in 1..Len(list)
    <3>1. Len(list) \in Nat
      BY <2>2, LenProperties
    <3> QED
      BY <1>4, <1>7, <3>1
  <2>4. /\ new \in Seq(InstanceObjects) /\ ToSet(new) \subseteq ToSet(list)
        /\ OnceId(list) => OnceId(new)
    BY <2>2, <2>3, RemoveInstance
  <2>5. {x.id : x \in ToSet(new)} \subseteq Ids(o)
    BY <2>4 DEF Ids
  <2> HIDE DEF new
  <2>6. IInv'
    BY <1>1, <1>2, <1>3, <1>4, <1>5, <1>7, <2>1, <2>4, <2>5, ListReplaced
  <2> QED
    BY <2>6
<1> QED
  BY <1>1, <1>6, <1>7

\* A host that is corrected changes no id.
LEMMA UpdateInstanceHostKeeps ==
    ASSUME IInv, NEW t \in Threads, UpdateInstanceHost(t) PROVE IInv'
<1> DEFINE o == Cluster(t)
           list == instance_list[o]
           stale == {k \in 1..Len(list) :
                        /\ list[k].id = request[t].instance
                        /\ list[k].host # placed[list[k].id]}
           m == Min(stale)
           new == [list EXCEPT ![m] = [list[m] EXCEPT !.host = placed[request[t].instance]]]
<1>1. /\ InMemory /\ pc[t] = "begin" /\ request[t].op = "update_instance_host"
      /\ UNCHANGED <<cluster_dict, node_list, created, request, object, position, todo, writing>>
      /\ pc' = [pc EXCEPT ![t] = "answer"] /\ result' = [result EXCEPT ![t] = "failed"]
      /\ \/ UNCHANGED instance_list
         \/ o # None /\ instance_list' = [instance_list EXCEPT ![o] = new]
  BY DEF UpdateInstanceHost, At, Op, Finish, Goto
<1>2. Outer' /\ ToLoad' /\ UNCHANGED <<alive, loading, overlapped>>
  BY <1>1, InMemoryKeeps
<1>3. Step(t) /\ pc'[t] = "answer" /\ result'[t] = "failed"
  BY <1>1, <1>2 DEF IInv, Shared, Step
<1>4. /\ ThreadOK(t) /\ pc[t] # "idle" /\ request[t].cluster \in ClusterNames
      /\ request[t].instance \in Instances
  BY <1>1 DEF IInv, ThreadOK, Fits
<1>5. ThreadOK(t)' /\ Relies(t)'
  BY <1>1, <1>3, <1>4 DEF ThreadOK, Fits, Places, Outcomes, Relies
<1>6. CASE UNCHANGED instance_list
  <2>1. UNCHANGED memory
    BY <1>1, <1>6 DEF memory
  <2> QED
    BY <1>2, <1>3, <1>4, <1>5, <2>1, AsideKeeps
<1>7. CASE o # None /\ instance_list' = [instance_list EXCEPT ![o] = new]
  <2>1. o \in Objects
    BY <1>4, <1>7, NamedCluster DEF IInv
  <2>2. list \in Seq(InstanceObjects) /\ placed[request[t].instance] \in Nodes \cup {Elsewhere}
    BY <1>4, <2>1 DEF IInv, Memory, Outer
  <2>3. DOMAIN list = 1..Len(list) /\ \A k \in 1..Len(list) : list[k] \in InstanceObjects
    BY <2>2, Elements, ElementOfSeq
  <2>4. DOMAIN new = 1..Len(list) /\ new = [k \in 1..Len(list) |-> new[k]]
    BY <2>3
  <2>5. \A k \in 1..Len(list) : new[k] \in InstanceObjects /\ new[k].id = list[k].id
    <3> HIDE DEF m
    <3> QED
      BY <2>2, <2>3 DEF InstanceObjects
  <2> HIDE DEF new
  <2>6. /\ new \in Seq(InstanceObjects)
        /\ OnceId(list) => OnceId(new)
        /\ {x.id : x \in ToSet(new)} = Ids(o)
    BY <2>2, <2>4, <2>5, SameIds DEF Ids
  <2> QED
    BY <1>1, <1>2, <1>3, <1>4, <1>5, <1>7, <2>1, <2>6, ListReplaced
<1> QED
  BY <1>1, <1>6, <1>7

\* Each cluster's instances are looked up in turn.
LEMMA UpdateAllKeeps ==
    ASSUME IInv, NEW t \in Threads, UpdateAll(t) PROVE IInv'
<1>1. /\ InMemory /\ pc[t] = "update all"
      /\ UNCHANGED <<cluster_dict, node_list, created, request, object, position, writing>>
      /\ UNCHANGED pc \/ \E place \in {"answer", "save"} : pc' = [pc EXCEPT ![t] = place]
      /\ \/ UNCHANGED result
         \/ \E outcome \in {"succeed", "raises"} : result' = [result EXCEPT ![t] = outcome]
      /\ UNCHANGED todo \/ \E left \in SUBSET todo[t] : todo' = [todo EXCEPT ![t] = left]
      /\ \/ UNCHANGED instance_list
         \/ \E pair \in todo[t] : \E last :
                instance_list' =
                    [instance_list EXCEPT ![pair[2]] = Updated(instance_list[pair[2]], last)]
  BY DEF UpdateAll, At, Finish, Goto
<1>2. Outer' /\ ToLoad' /\ UNCHANGED <<alive, loading, overlapped>>
  BY <1>1, InMemoryKeeps
<1>3. /\ Step(t) /\ pc'[t] \in {"update all", "answer", "save"}
      /\ result'[t] \in {result[t], "raises", "succeed"} /\ todo'[t] \subseteq todo[t]
  BY <1>1, <1>2 DEF IInv, Shared, Step
<1>4. ThreadOK(t) /\ pc[t] # "idle" /\ todo[t] \subseteq ClusterNames \X Objects
  BY <1>1 DEF IInv, ThreadOK
<1>5. ThreadOK(t)' /\ Relies(t)'
  <2>1. todo'[t] \subseteq ClusterNames \X Objects
    BY <1>3, <1>4
  <2> QED
    BY <1>1, <1>3, <1>4, <2>1 DEF ThreadOK, Fits, Places, Outcomes, Relies
<1>6. CASE UNCHANGED instance_list
  <2>1. UNCHANGED memory
    BY <1>1, <1>6 DEF memory
  <2> QED
    BY <1>2, <1>3, <1>4, <1>5, <2>1, AsideKeeps
<1>7. ASSUME NEW pair \in todo[t], NEW last,
             instance_list' = [instance_list EXCEPT ![pair[2]] = Updated(instance_list[pair[2]], last)]
      PROVE  IInv'
  <2> DEFINE o == pair[2]
             list == instance_list[o]
             new == Updated(list, last)
  <2>1. o \in Objects
    BY <1>4
  <2>2. list \in Seq(InstanceObjects) /\ placed \in [Instances -> Nodes \cup {Elsewhere}]
    BY <2>1 DEF IInv, Memory, Outer
  <2>3. \A k \in 1..Len(list) : list[k] \in InstanceObjects
    BY <2>2, ElementOfSeq
  <2>4. DOMAIN new = 1..Len(list) /\ new = [k \in 1..Len(list) |-> new[k]]
    BY DEF Updated
  <2>5. \A k \in 1..Len(list) : new[k] \in InstanceObjects /\ new[k].id = list[k].id
    BY <2>2, <2>3 DEF Updated, InstanceObjects
  <2> HIDE DEF new
  <2>6. /\ new \in Seq(InstanceObjects)
        /\ OnceId(list) => OnceId(new)
        /\ {x.id : x \in ToSet(new)} = Ids(o)
    BY <2>2, <2>4, <2>5, SameIds DEF Ids
  <2>7. instance_list' = [instance_list EXCEPT ![o] = new]
    BY <1>7 DEF new
  <2> HIDE DEF o
  <2> QED
    BY <1>1, <1>2, <1>3, <1>4, <1>5, <2>1, <2>6, <2>7, ListReplaced
<1> QED
  BY <1>1, <1>6, <1>7
----------------------------------------------------------------------------
(***************************************************************************)
(* The theorems.                                                           *)
(***************************************************************************)
\* A step of a request, its answer included.
LEMMA HandleKeeps == ASSUME IInv, NEW t \in Threads, Handle(t) PROVE IInv'
<1>1. CASE ChecksOnly(t)
  BY <1>1, ChecksKeep
<1>2. CASE ~ChecksOnly(t)
  BY <1>2, CreateClusterKeeps, DeleteClusterKeeps, AddNodeKeeps, DeleteNodeKeeps,
     AddInstanceKeeps, AppendInstanceKeeps, DeleteInstanceKeeps, UpdateInstanceHostKeeps,
     UpdateAllKeeps, AnswerKeeps DEF Handle, ChecksOnly
<1> QED
  BY <1>1, <1>2

\* Where the threads are is a function: a step moves one of them, or all of them back.
Function == pc = [t \in Threads |-> pc[t]]

\* Every step keeps that.
LEMMA FunctionKept ==
    ASSUME Function, [Next]_vars
    PROVE  Function'
<1> DEFINE Moves == \/ UNCHANGED pc \/ pc' = OfAll("idle")
                    \/ \E t \in Threads : \E place : Goto(t, place)
<1>1. Loader \in Threads /\ Handlers \subseteq Threads
  BY DEF Threads
<1>2. ASSUME UNCHANGED vars PROVE Moves
  BY <1>2 DEF vars
<1>3. ASSUME Process \/ CloudChanges \/ ServerChanges PROVE Moves
  BY <1>3 DEF Process, Crash, sync_from_db, sync_from_db_fails, Start, CloudChanges, ServerChanges
<1>4. ASSUME Load PROVE Moves
  <2>1. LoadCluster \/ LoadNodes \/ LoadInstance => Goto(Loader, "begin")
    BY DEF LoadCluster, LoadNodes, LoadInstance, LoaderBegins, Begins
  <2>2. LoadEnds => UNCHANGED pc
    BY DEF LoadEnds
  <2>3. LoaderGoesOn => Goto(Loader, "idle")
    BY DEF LoaderGoesOn, Forgets
  <2> QED
    BY <1>1, <1>4, <2>1, <2>2, <2>3 DEF Load
<1>5. ASSUME NEW h \in Handlers, NEW r \in Requests, Receive(h, r) PROVE Moves
  BY <1>1, <1>5 DEF Receive, Begins
<1>6. ASSUME NEW t \in Threads, Handle(t) PROVE Moves
  <2>1. CASE CreateClusterChecks(t) \/ CreateCluster(t) \/ DeleteCluster(t)
    BY <2>1 DEF CreateClusterChecks, CreateCluster, DeleteCluster, Finish
  <2>2. CASE AddNodeChecks(t) \/ AddNode(t) \/ DeleteNode(t)
    BY <2>2 DEF AddNodeChecks, AddNode, DeleteNode, Finish
  <2>3. CASE AddInstanceChecks(t) \/ AddInstance(t) \/ AppendInstance(t)
    BY <2>3 DEF AddInstanceChecks, AddInstance, AppendInstance, Finish
  <2>4. CASE DeleteInstanceBegins(t) \/ DeleteInstance(t)
    BY <2>4 DEF DeleteInstanceBegins, DeleteInstance, Finish
  <2>5. CASE UpdateInstanceHost(t) \/ UpdateAllBegins(t) \/ UpdateAll(t) \/ UpdateDb(t)
    BY <2>5 DEF UpdateInstanceHost, UpdateAllBegins, UpdateAll, UpdateDb, Finish
  <2>6. CASE Answer(t)
    BY <2>6 DEF Answer, Forgets
  <2> QED
    BY <1>6, <2>1, <2>2, <2>3, <2>4, <2>5, <2>6 DEF Handle
<1>7. ASSUME NEW t \in Threads, sync_to_db(t) \/ StatementFails(t) \/ RowTooWide(t) PROVE Moves
  <2>1. Saved(t) => Moves
    BY DEF Saved
  <2>2. SaveRaises(t) => Moves
    BY DEF SaveRaises, Finish
  <2>3. WriteFails(t) => Moves
    BY <2>1 DEF WriteFails
  <2>4. CASE SaveStarts(t) \/ ResetAll(t) \/ GetAllTable(t)
    BY <2>1, <2>2, <2>4 DEF SaveStarts, ResetAll, GetAllTable
  <2>5. CASE ResetTable(t)
    BY <2>2, <2>5 DEF ResetTable
  <2>6. CASE WriteCluster(t)
    BY <2>1, <2>3, <2>6 DEF WriteCluster
  <2>7. CASE WriteNode(t) \/ WriteInstance(t)
    BY <2>3, <2>7 DEF WriteNode, WriteInstance
  <2>8. CASE StatementFails(t) \/ RowTooWide(t)
    BY <2>2, <2>3, <2>8 DEF StatementFails, RowTooWide
  <2> QED
    BY <1>7, <2>4, <2>5, <2>6, <2>7, <2>8 DEF sync_to_db
<1>8. Moves
  <2> HIDE DEF Moves
  <2>1. Process \/ CloudChanges \/ ServerChanges \/ Load \/ UNCHANGED vars => Moves
    BY <1>2, <1>3, <1>4
  <2> QED
    BY <1>5, <1>6, <1>7, <2>1 DEF Next
<1> QED
  BY <1>8 DEF Function, OfAll, Goto

\* Every step of the specification.
LEMMA NextKeeps == ASSUME IInv, [Next]_vars PROVE IInv'
<1>1. CASE UNCHANGED vars
  <2>1. UNCHANGED <<memory, pc, thread, overlapped>>
    BY <1>1 DEF vars, history
  <2>2. Outer' /\ ToLoad' /\ Alone'
    <3>1. Outer'
      BY <1>1 DEF IInv, Outer, vars, world, tables, start, bounds
    <3>2. ToLoad'
      BY <1>1 DEF IInv, ToLoad, vars, start
    <3>3. Alone'
      BY <1>1 DEF IInv, Alone, vars, start, history
    <3> QED
      BY <3>1, <3>2, <3>3
  <2> QED
    BY <2>1, <2>2, ControllerKept
<1>2. CASE Process \/ CloudChanges \/ ServerChanges
  BY <1>2, CrashKeeps, StartKeeps, CloudKeeps, ServerKeeps DEF Process
<1>3. CASE Load
  BY <1>3, LoadKeeps, LoadEndsKeeps, AnswerKeeps DEF Load
<1>4. ASSUME NEW t \in Threads,
             Handle(t) \/ sync_to_db(t) \/ StatementFails(t) \/ RowTooWide(t)
      PROVE  IInv'
  BY <1>4, HandleKeeps, SyncKeeps
<1>5. ASSUME NEW h \in Handlers, NEW r \in Requests, Receive(h, r) PROVE IInv'
  BY <1>5, ReceiveKeeps
<1> QED
  BY <1>1, <1>2, <1>3, <1>4, <1>5 DEF Next

\* The strengthened invariant holds of every reachable state.
LEMMA Invariance == Spec => [](IInv /\ Function)
<1>1. Init => IInv /\ Function
  BY InitInvariant DEF Init, Function, OfAll
<1>2. IInv /\ Function /\ [Next]_vars => IInv' /\ Function'
  BY NextKeeps, FunctionKept
<1> QED
  BY <1>1, <1>2, PTL DEF Spec

\* Every variable of the controller, of its tables and of its threads has its type, and
\* a thread that works on a Cluster or writes its rows holds one that has been created,
\* whatever requests meet, statements fail, crashes and restarts there are.
THEOREM RegistryTyped == Spec => []TypeOK
<1>1. IInv /\ Function => TypeOK
  <2> SUFFICES ASSUME IInv, Function PROVE TypeOK
    OBVIOUS
  <2>1. \A t \in Threads : pc[t] \in Places
    BY DEF IInv, ThreadOK
  <2>2. pc \in [Threads -> Places]
    BY <2>1 DEF Function
  <2>3. ASSUME NEW t \in Threads
        PROVE  /\ request[t].op \in Ops /\ request[t].nodes \subseteq Nodes
               /\ result[t] \in {"none", "succeed", "failed", "raises"}
               /\ todo[t] \subseteq ClusterNames \X Objects
               /\ pc[t] \in {"add nodes", "protect", "append", "delete"} => object[t] \in Objects
               /\ pc[t] \in {"write nodes", "write instances"} =>
                      writing[t] \in ClusterNames \X Objects
    <3>1. ThreadOK(t)
      BY DEF IInv
    <3>2. request[t].op \in Ops /\ request[t].nodes \subseteq Nodes
      BY <3>1 DEF ThreadOK, AnyRequest
    <3>3. pc[t] \in {"add nodes", "protect", "append", "delete"} => object[t] \in Objects
      <4>1. created \in 0..MaxObjects
        BY DEF IInv, Memory
      <4>2. 1..created \subseteq Objects
        BY <4>1 DEF Objects
      <4> QED
        BY <3>1, <4>2 DEF ThreadOK
    <3> QED
      BY <3>1, <3>2, <3>3 DEF ThreadOK, Outcomes
  <2> QED
    BY <2>2, <2>3 DEF IInv, Outer, Memory, TypeOK
<1> QED
  BY <1>1, Invariance, PTL

\* As long as no two requests meet, no node and no instance is in two clusters or twice
\* in one, and no node is in a cluster that has been deleted: what ResourceManager has
\* checked before it changes a list still holds when it does, across crashes and starts.
THEOREM RegistryOneOwner == Spec => []OneOwner
<1>1. IInv => OneOwner
  <2> SUFFICES ASSUME IInv, ~overlapped PROVE OneOwner
    BY DEF OneOwner
  <2>1. Owned /\ Memory
    BY DEF IInv
  <2>2. \A o \in Objects : Once([k \in 1..Len(instance_list[o]) |-> instance_list[o][k].id])
    BY <2>1, OnceIds DEF Owned, Memory
  <2>3. \A o \in Objects : node_list[o] # <<>> => NodesOf(o) # {}
    BY <2>1, Elements DEF Memory, NodesOf
  <2> QED
    BY <2>1, <2>2, <2>3 DEF Owned, OneOwner
<1> QED
  BY <1>1, Invariance, PTL
----------------------------------------------------------------------------
(***************************************************************************)
(* The clusters, as those who ask for them see them.                       *)
(***************************************************************************)
Ownings == <<Clusters, NodeRows, InstanceRows>>
Allowed == overlapped \/ Own!Next \/ UNCHANGED Ownings

\* The rows of the nodes: one for every node of every cluster.
LEMMA NodeRowsAre ==
    /\ \A r \in NodeRows : /\ r = NodeRow(r.node, r.cluster) /\ r.cluster \in Clusters
                           /\ r.node \in NodesOf(cluster_dict[r.cluster])
    /\ \A c \in Clusters : \A n \in NodesOf(cluster_dict[c]) : NodeRow(n, c) \in NodeRows
    /\ \A r \in NodeRows' : /\ r = NodeRow(r.node, r.cluster) /\ r.cluster \in Clusters'
                            /\ r.node \in NodesOf(cluster_dict[r.cluster])'
    /\ \A c \in Clusters' : \A n \in NodesOf(cluster_dict[c])' : NodeRow(n, c) \in NodeRows'
  BY DEF NodeRows, NodeRow

\* The rows of the instances: likewise.
LEMMA InstanceRowsAre ==
    /\ \A r \in InstanceRows : /\ r = InstanceRow(r.id, r.cluster) /\ r.cluster \in Clusters
                               /\ r.id \in Ids(cluster_dict[r.cluster])
    /\ \A c \in Clusters : \A i \in Ids(cluster_dict[c]) : InstanceRow(i, c) \in InstanceRows
    /\ \A r \in InstanceRows' : /\ r = InstanceRow(r.id, r.cluster) /\ r.cluster \in Clusters'
                                /\ r.id \in Ids(cluster_dict[r.cluster])'
    /\ \A c \in Clusters' : \A i \in Ids(cluster_dict[c])' : InstanceRow(i, c) \in InstanceRows'
<1>1. \A r \in InstanceRows : \E c \in Clusters : \E i \in Ids(cluster_dict[c]) : r = InstanceRow(i, c)
  BY DEF InstanceRows
<1>2. \A r \in InstanceRows' :
          \E c \in Clusters' : \E i \in Ids(cluster_dict[c])' : r = InstanceRow(i, c)
  BY DEF InstanceRows
<1>3. \A c \in Clusters : \A i \in Ids(cluster_dict[c]) : InstanceRow(i, c) \in InstanceRows
  BY DEF InstanceRows
<1>4. \A c \in Clusters' : \A i \in Ids(cluster_dict[c])' : InstanceRow(i, c) \in InstanceRows'
  BY DEF InstanceRows
<1>5. \A i, c : InstanceRow(i, c).id = i /\ InstanceRow(i, c).cluster = c
  BY DEF InstanceRow
<1> QED
  BY <1>1, <1>2, <1>3, <1>4, <1>5

\* A row is its two parts.
LEMMA RowParts ==
    /\ \A n, c : NodeRow(n, c).node = n /\ NodeRow(n, c).cluster = c
    /\ \A i, c : InstanceRow(i, c).id = i /\ InstanceRow(i, c).cluster = c
  BY DEF NodeRow, InstanceRow

\* A step that leaves the lists of the clusters alone leaves their rows alone.
LEMMA NodeRowsKept ==
    ASSUME Clusters' = Clusters,
           \A c \in Clusters : NodesOf(cluster_dict[c])' = NodesOf(cluster_dict[c])
    PROVE  NodeRows' = NodeRows
<1>1. \A r \in NodeRows : r \in NodeRows'
  BY NodeRowsAre
<1>2. \A r \in NodeRows' : r \in NodeRows
  BY NodeRowsAre
<1> QED
  BY <1>1, <1>2

\* The same of the instances.
LEMMA InstanceRowsKept ==
    ASSUME Clusters' = Clusters,
           \A c \in Clusters : Ids(cluster_dict[c])' = Ids(cluster_dict[c])
    PROVE  InstanceRows' = InstanceRows
<1>1. \A r \in InstanceRows : r \in InstanceRows'
  BY InstanceRowsAre
<1>2. \A r \in InstanceRows' : r \in InstanceRows
  BY InstanceRowsAre
<1> QED
  BY <1>1, <1>2

\* A step that leaves the memory alone leaves all rows alone.
LEMMA RowsKept == ASSUME UNCHANGED memory PROVE UNCHANGED Ownings
<1>1. UNCHANGED <<cluster_dict, node_list, instance_list>>
  BY DEF memory
<1>2. Clusters' = Clusters /\ NodeRows' = NodeRows /\ InstanceRows' = InstanceRows
  BY <1>1 DEF Clusters, NodeRows, InstanceRows, NodesOf, Ids
<1> QED
  BY <1>2 DEF Ownings

\* Where a node was once, it is not when it has been taken out.
LEMMA NodeRemoved ==
    ASSUME NEW list \in Seq(Nodes), NEW k \in 1..Len(list), Once(list)
    PROVE  ToSet(RemoveAt(list, k)) = ToSet(list) \ {list[k]}
<1> DEFINE new == RemoveAt(list, k)
<1>1. /\ new \in Seq(Nodes) /\ Len(new) = Len(list) - 1 /\ Len(list) \in Nat
      /\ \A j \in 1..(Len(list) - 1) : new[j] = list[IF j < k THEN j ELSE j + 1]
  BY RemoveAtProperties, LenProperties
<1>2. /\ ToSet(list) = {list[j] : j \in 1..Len(list)}
      /\ ToSet(new) = {new[j] : j \in 1..Len(new)}
  BY <1>1, Elements
<1> HIDE DEF new
<1>3. ASSUME NEW j \in 1..Len(new) PROVE new[j] \in ToSet(list) \ {list[k]}
  <2>1. /\ j \in 1..(Len(list) - 1) /\ j \in 1..Len(list) /\ j + 1 \in 1..Len(list)
        /\ j < k => j # k
        /\ ~(j < k) => j + 1 # k
    BY <1>1
  <2>2. j < k => new[j] = list[j]
    BY <1>1, <2>1
  <2>3. ~(j < k) => new[j] = list[j + 1]
    BY <1>1, <2>1
  <2> QED
    BY <1>2, <2>1, <2>2, <2>3 DEF Once
<1>4. ASSUME NEW j \in 1..Len(list), list[j] # list[k] PROVE list[j] \in ToSet(new)
  <2>1. CASE j < k
    <3>1. j \in 1..(Len(list) - 1) /\ j \in 1..Len(new)
      BY <1>1, <2>1
    <3> QED
      BY <1>1, <1>2, <2>1, <3>1
  <2>2. CASE k < j
    <3>1. /\ j - 1 \in 1..(Len(list) - 1) /\ j - 1 \in 1..Len(new)
          /\ ~(j - 1 < k) /\ (j - 1) + 1 = j
      BY <1>1, <2>2
    <3>2. new[j - 1] = list[j]
      BY <1>1, <3>1
    <3> QED
      BY <1>2, <3>1, <3>2
  <2> QED
    BY <1>1, <1>4, <2>1, <2>2
<1>5. ToSet(new) = ToSet(list) \ {list[k]}
  BY <1>2, <1>3, <1>4
<1> QED
  BY <1>5 DEF new

\* The id of an instance likewise.
LEMMA IdRemoved ==
    ASSUME NEW list \in Seq(InstanceObjects), NEW k \in 1..Len(list), OnceId(list)
    PROVE  {x.id : x \in ToSet(RemoveAt(list, k))} = {x.id : x \in ToSet(list)} \ {list[k].id}
<1> DEFINE new == RemoveAt(list, k)
<1>1. /\ new \in Seq(InstanceObjects) /\ Len(new) = Len(list) - 1 /\ Len(list) \in Nat
      /\ \A j \in 1..(Len(list) - 1) : new[j] = list[IF j < k THEN j ELSE j + 1]
  BY RemoveAtProperties, LenProperties
<1>2. /\ ToSet(list) = {list[j] : j \in 1..Len(list)}
      /\ ToSet(new) = {new[j] : j \in 1..Len(new)}
  BY <1>1, Elements
<1> HIDE DEF new
<1>3. ASSUME NEW j \in 1..Len(new)
      PROVE  new[j] \in ToSet(list) /\ new[j].id # list[k].id
  <2>1. /\ j \in 1..(Len(list) - 1) /\ j \in 1..Len(list) /\ j + 1 \in 1..Len(list)
        /\ j < k => j # k
        /\ ~(j < k) => j + 1 # k
    BY <1>1
  <2>2. j < k => new[j] = list[j]
    BY <1>1, <2>1
  <2>3. ~(j < k) => new[j] = list[j + 1]
    BY <1>1, <2>1
  <2> QED
    BY <1>2, <2>1, <2>2, <2>3 DEF OnceId
<1>4. ASSUME NEW j \in 1..Len(list), list[j].id # list[k].id PROVE list[j] \in ToSet(new)
  <2>1. CASE j < k
    <3>1. j \in 1..(Len(list) - 1) /\ j \in 1..Len(new)
      BY <1>1, <2>1
    <3> QED
      BY <1>1, <1>2, <2>1, <3>1
  <2>2. CASE k < j
    <3>1. /\ j - 1 \in 1..(Len(list) - 1) /\ j - 1 \in 1..Len(new)
          /\ ~(j - 1 < k) /\ (j - 1) + 1 = j
      BY <1>1, <2>2
    <3>2. new[j - 1] = list[j]
      BY <1>1, <3>1
    <3> QED
      BY <1>2, <3>1, <3>2
  <2> QED
    BY <1>1, <1>4, <2>1, <2>2
<1>5. \A x \in ToSet(new) : x \in ToSet(list) /\ x.id # list[k].id
  BY <1>2, <1>3
<1>6. \A x \in ToSet(list) : x.id # list[k].id => x \in ToSet(new)
  BY <1>2, <1>4
<1> HIDE DEF new
<1>7. {x.id : x \in ToSet(new)} = {x.id : x \in ToSet(list)} \ {list[k].id}
  BY <1>5, <1>6
<1> QED
  BY <1>7 DEF new

\* Every cluster has an object of its own.
LEMMA OwnObject ==
    ASSUME IInv
    PROVE  /\ \A c \in Clusters : c \in ClusterNames /\ cluster_dict[c] \in Objects
           /\ \A c, d \in Clusters : cluster_dict[c] = cluster_dict[d] => c = d
  BY DEF IInv, Memory, Fresh, Clusters

\* A cluster is created under a name that is free, and it is empty.
LEMMA CreateClusterAllowed ==
    ASSUME IInv, NEW t \in Threads, CreateCluster(t) PROVE Allowed
<1> DEFINE cl == request[t].cluster
<1>1. /\ InMemory /\ pc[t] = "create" /\ created < MaxObjects
      /\ cluster_dict' = [cluster_dict EXCEPT ![cl] = created + 1]
      /\ UNCHANGED <<node_list, instance_list>>
  BY DEF CreateCluster, At
<1> SUFFICES ASSUME ~overlapped PROVE Own!CreateCluster(cl) /\ cl \in ClusterNames
  BY DEF Allowed, Own!Next
<1>2. cl \in ClusterNames /\ cluster_dict[cl] = None
  BY <1>1 DEF IInv, ThreadOK, Fits, Relies
<1>3. created \in Nat /\ created + 1 \in Objects /\ created + 1 # None /\ created + 1 > created
  BY <1>1 DEF IInv, Memory, Objects
<1>4. /\ cl \notin Clusters /\ Clusters' = Clusters \cup {cl}
      /\ cluster_dict'[cl] = created + 1
      /\ \A c \in Clusters : cluster_dict'[c] = cluster_dict[c]
  BY <1>1, <1>2, <1>3 DEF Clusters, IInv, Memory
<1>5. \A o : NodesOf(o)' = NodesOf(o) /\ Ids(o)' = Ids(o)
  BY <1>1 DEF NodesOf, Ids
<1>6. NodesOf(created + 1) = {} /\ Ids(created + 1) = {}
  <2>1. /\ Len(instance_list[created + 1]) = 0 /\ Len(node_list[created + 1]) = 0
        /\ instance_list[created + 1] \in Seq(InstanceObjects)
        /\ node_list[created + 1] \in Seq(Nodes)
    BY <1>3 DEF IInv, Fresh, Memory
  <2> QED
    BY <2>1, Elements DEF NodesOf, Ids
<1>7. NodeRows' = NodeRows
  <2>1. \A r \in NodeRows : r \in NodeRows'
    BY <1>4, <1>5, NodeRowsAre
  <2>2. \A r \in NodeRows' : r \in NodeRows
    BY <1>4, <1>5, <1>6, NodeRowsAre
  <2> QED
    BY <2>1, <2>2
<1>8. InstanceRows' = InstanceRows
  <2>1. \A r \in InstanceRows : r \in InstanceRows'
    BY <1>4, <1>5, InstanceRowsAre
  <2>2. \A r \in InstanceRows' : r \in InstanceRows
    BY <1>4, <1>5, <1>6, InstanceRowsAre
  <2> QED
    BY <2>1, <2>2
<1> QED
  BY <1>2, <1>4, <1>7, <1>8 DEF Own!CreateCluster

\* A cluster is deleted without nodes, and its instances go with it.
LEMMA DeleteClusterAllowed ==
    ASSUME IInv, NEW t \in Threads, DeleteCluster(t) PROVE Allowed
<1> DEFINE cl == request[t].cluster
<1>1. /\ pc[t] = "begin" /\ request[t].op = "delete_cluster"
      /\ UNCHANGED <<node_list, instance_list, created>>
      /\ \/ UNCHANGED cluster_dict
         \/ /\ Cluster(t) # None /\ node_list[Cluster(t)] = <<>>
            /\ cluster_dict' = [cluster_dict EXCEPT ![cl] = None]
  BY DEF DeleteCluster, At, Op
<1>2. cl \in ClusterNames
  BY <1>1 DEF IInv, ThreadOK, Fits
<1>3. CASE UNCHANGED cluster_dict
  BY <1>1, <1>3, RowsKept DEF Allowed, memory
<1>4. CASE /\ Cluster(t) # None /\ node_list[Cluster(t)] = <<>>
           /\ cluster_dict' = [cluster_dict EXCEPT ![cl] = None]
  <2>1. /\ cl \in Clusters /\ Clusters' = Clusters \ {cl}
        /\ \A c \in Clusters' : cluster_dict'[c] = cluster_dict[c]
    BY <1>2, <1>4 DEF Clusters, Cluster, IInv, Memory
  <2>2. \A o : NodesOf(o)' = NodesOf(o) /\ Ids(o)' = Ids(o)
    BY <1>1 DEF NodesOf, Ids
  <2>3. NodesOf(cluster_dict[cl]) = {}
    <3>1. Cluster(t) \in Objects
      BY <1>2, <1>4, NamedCluster DEF IInv
    <3>2. node_list[Cluster(t)] \in Seq(Nodes)
      BY <3>1 DEF IInv, Memory
    <3> QED
      BY <1>4, <3>2, Elements DEF NodesOf, Cluster
  <2>4. \A r \in NodeRows : r.cluster # cl
    BY <2>3, NodeRowsAre
  <2>5. NodeRows' = NodeRows
    <3>1. \A r \in NodeRows : r \in NodeRows'
      BY <2>1, <2>2, <2>4, NodeRowsAre
    <3>2. \A r \in NodeRows' : r \in NodeRows
      BY <2>1, <2>2, NodeRowsAre
    <3> QED
      BY <3>1, <3>2
  <2>6. InstanceRows' = {r \in InstanceRows : r.cluster # cl}
    <3>1. \A r \in InstanceRows : r.cluster # cl => r \in InstanceRows'
      BY <2>1, <2>2, InstanceRowsAre
    <3>2. \A r \in InstanceRows' : r \in InstanceRows /\ r.cluster # cl
      BY <2>1, <2>2, InstanceRowsAre
    <3> QED
      BY <3>1, <3>2
  <2>7. Own!DeleteCluster(cl)
    BY <2>1, <2>4, <2>5, <2>6 DEF Own!DeleteCluster
  <2> QED
    BY <1>2, <2>7 DEF Allowed, Own!Next
<1> QED
  BY <1>1, <1>3, <1>4

\* A node is added to a cluster when no cluster has it, or not at all.
LEMMA AddNodeAllowed ==
    ASSUME IInv, NEW t \in Threads, AddNode(t) PROVE Allowed
<1> DEFINE o == object[t]
           cl == request[t].cluster
<1>1. PICK n \in request[t].nodes :
          /\ pc[t] = "add nodes"
          /\ node_list' = IF n \in pool THEN [node_list EXCEPT ![o] = Append(@, n)]
                          ELSE node_list
          /\ UNCHANGED <<cluster_dict, instance_list, created>>
  BY DEF AddNode, At
<1> SUFFICES ASSUME ~overlapped, n \in pool PROVE Allowed
  BY <1>1, RowsKept DEF Allowed, memory
<1>2. /\ n \in Nodes /\ cl \in ClusterNames /\ o \in 1..created
      /\ o = cluster_dict[cl] /\ \A p \in Objects : n \notin NodesOf(p)
  <2>1. ThreadOK(t) /\ Relies(t)
    BY DEF IInv
  <2>2. request[t] \in AnyRequest
    BY <2>1 DEF ThreadOK
  <2>3. n \in Nodes
    BY <1>1, <2>2 DEF AnyRequest
  <2>4. cl \in ClusterNames
    BY <1>1, <2>1 DEF ThreadOK, Fits
  <2> QED
    BY <1>1, <2>1, <2>3, <2>4 DEF ThreadOK, Relies
<1>3. o \in Objects /\ cl \in Clusters /\ node_list[o] \in Seq(Nodes)
  <2>1. o \in Objects
    BY <1>2 DEF IInv, Memory, Objects
  <2> QED
    BY <1>2, <2>1 DEF IInv, Memory, Clusters, Objects
<1>4. \A p \in Objects : NodesOf(p)' = IF p = o THEN NodesOf(p) \cup {n} ELSE NodesOf(p)
  <2>1. ToSet(Append(node_list[o], n)) = NodesOf(o) \cup {n}
    BY <1>2, <1>3, AppendNode DEF NodesOf
  <2>2. \A p \in Objects :
            node_list'[p] = IF p = o THEN Append(node_list[o], n) ELSE node_list[p]
    BY <1>1, <1>3 DEF IInv, Memory
  <2> QED
    BY <2>1, <2>2 DEF NodesOf
<1>5. Clusters' = Clusters /\ \A p : Ids(p)' = Ids(p)
  BY <1>1 DEF Clusters, Ids
<1>6. \A c \in Clusters : /\ cluster_dict[c] \in Objects /\ cluster_dict'[c] = cluster_dict[c]
                          /\ cluster_dict[c] = o => c = cl
  BY <1>1, <1>2, <1>3, OwnObject
<1>7. \A c \in Clusters :
          NodesOf(cluster_dict[c])' =
              IF c = cl THEN NodesOf(cluster_dict[c]) \cup {n} ELSE NodesOf(cluster_dict[c])
  <2>1. /\ \A c : NodesOf(cluster_dict[c])' = ToSet(node_list'[cluster_dict'[c]])
        /\ \A p : NodesOf(p)' = ToSet(node_list'[p])
    BY DEF NodesOf
  <2> QED
    BY <1>2, <1>4, <1>6, <2>1
<1>8. NodeRows' = NodeRows \cup {NodeRow(n, cl)}
  <2>1. ASSUME NEW r \in NodeRows PROVE r \in NodeRows'
    <3>1. /\ r = NodeRow(r.node, r.cluster) /\ r.cluster \in Clusters
          /\ r.node \in NodesOf(cluster_dict[r.cluster])
      BY NodeRowsAre
    <3>2. r.node \in NodesOf(cluster_dict[r.cluster])'
      BY <1>7, <3>1
    <3> QED
      BY <1>5, <3>1, <3>2, NodeRowsAre
  <2>2. NodeRow(n, cl) \in NodeRows'
    BY <1>3, <1>5, <1>7, NodeRowsAre
  <2>3. ASSUME NEW r \in NodeRows', r \notin NodeRows PROVE r = NodeRow(n, cl)
    <3>1. /\ r = NodeRow(r.node, r.cluster) /\ r.cluster \in Clusters
          /\ r.node \in NodesOf(cluster_dict[r.cluster])'
      BY <1>5, NodeRowsAre
    <3>2. r.node \notin NodesOf(cluster_dict[r.cluster])
      BY <2>3, <3>1, NodeRowsAre
    <3> QED
      BY <1>7, <3>1, <3>2
  <2> QED
    BY <2>1, <2>2, <2>3
<1>9. InstanceRows' = InstanceRows
  BY <1>1, <1>5, InstanceRowsKept
<1>10. \A r \in NodeRows : r.node # n
  BY <1>2, <1>6, NodeRowsAre
<1>11. Own!AddNode(n, cl)
  BY <1>3, <1>5, <1>8, <1>9, <1>10 DEF Own!AddNode, Own!NodeRow, NodeRow
<1> QED
  BY <1>2, <1>11 DEF Allowed, Own!Next

\* A node leaves the cluster that has it, or stays.
LEMMA DeleteNodeAllowed ==
    ASSUME IInv, NEW t \in Threads, DeleteNode(t) PROVE Allowed
<1> DEFINE o == Cluster(t)
           cl == request[t].cluster
           list == node_list[o]
           at == {k \in 1..Len(list) : list[k] \in request[t].nodes}
           k == Min(at)
           n == list[k]
<1>1. /\ pc[t] = "begin" /\ request[t].op = "delete_node"
      /\ UNCHANGED <<cluster_dict, instance_list, created>>
      /\ \/ UNCHANGED node_list
         \/ /\ o # None /\ at # {}
            /\ node_list' = [node_list EXCEPT ![o] = RemoveAt(list, k)]
  BY DEF DeleteNode, At, Op
<1>2. CASE UNCHANGED node_list
  BY <1>1, <1>2, RowsKept DEF Allowed, memory
<1>3. CASE /\ o # None /\ at # {}
           /\ node_list' = [node_list EXCEPT ![o] = RemoveAt(list, k)]
  <2> SUFFICES ASSUME ~overlapped PROVE Own!DeleteNode(n, cl) /\ n \in Nodes /\ cl \in ClusterNames
    BY DEF Allowed, Own!Next
  <2>1. cl \in ClusterNames
    BY <1>1 DEF IInv, ThreadOK, Fits
  <2>2. o \in Objects /\ cl \in Clusters /\ o = cluster_dict[cl]
    BY <1>3, <2>1, NamedCluster DEF IInv, Clusters, Cluster
  <2>3. list \in Seq(Nodes) /\ Once(list)
    BY <2>2 DEF IInv, Memory, Owned
  <2>4. k \in 1..Len(list)
    <3>1. Len(list) \in Nat
      BY <2>3, LenProperties
    <3>2. at \subseteq 1..Len(list) /\ at # {}
      BY <1>3
    <3> HIDE DEF at, list
    <3>3. Min(at) \in at
      BY <3>1, <3>2, MinOfPositions
    <3> QED
      BY <3>2, <3>3
  <2> HIDE DEF at, k
  <2>5. n \in Nodes /\ n \in NodesOf(o)
    BY <2>3, <2>4, Elements DEF NodesOf
  <2>6. \A p \in Objects : NodesOf(p)' = IF p = o THEN NodesOf(p) \ {n} ELSE NodesOf(p)
    <3>1. ToSet(RemoveAt(list, k)) = NodesOf(o) \ {n}
      BY <2>3, <2>4, NodeRemoved DEF NodesOf
    <3>2. \A p \in Objects :
              node_list'[p] = IF p = o THEN RemoveAt(list, k) ELSE node_list[p]
      BY <1>3, <2>2 DEF IInv, Memory
    <3> QED
      BY <3>1, <3>2 DEF NodesOf
  <2> HIDE DEF n, list
  <2>7. Clusters' = Clusters /\ \A p : Ids(p)' = Ids(p)
    BY <1>1 DEF Clusters, Ids
  <2>8. \A c \in Clusters : /\ cluster_dict[c] \in Objects /\ cluster_dict'[c] = cluster_dict[c]
                            /\ cluster_dict[c] = o => c = cl
    BY <1>1, <2>2, OwnObject
  <2>9. \A c \in Clusters :
            NodesOf(cluster_dict[c])' =
                IF c = cl THEN NodesOf(cluster_dict[c]) \ {n} ELSE NodesOf(cluster_dict[c])
    <3>1. /\ \A c : NodesOf(cluster_dict[c])' = ToSet(node_list'[cluster_dict'[c]])
          /\ \A p : NodesOf(p)' = ToSet(node_list'[p])
      BY DEF NodesOf
    <3> HIDE DEF o
    <3> QED
      BY <2>2, <2>6, <2>8, <3>1
  <2>10. NodeRows' = NodeRows \ {NodeRow(n, cl)}
    <3>1. ASSUME NEW r \in NodeRows, r # NodeRow(n, cl) PROVE r \in NodeRows'
      <4>1. /\ r = NodeRow(r.node, r.cluster) /\ r.cluster \in Clusters
            /\ r.node \in NodesOf(cluster_dict[r.cluster])
        BY NodeRowsAre
      <4>2. r.node \in NodesOf(cluster_dict[r.cluster])'
        BY <2>9, <3>1, <4>1
      <4> QED
        BY <2>7, <4>1, <4>2, NodeRowsAre
    <3>2. ASSUME NEW r \in NodeRows' PROVE r \in NodeRows /\ r # NodeRow(n, cl)
      <4>1. /\ r = NodeRow(r.node, r.cluster) /\ r.cluster \in Clusters
            /\ r.node \in NodesOf(cluster_dict[r.cluster])'
        BY <2>7, NodeRowsAre
      <4>2. /\ r.node \in NodesOf(cluster_dict[r.cluster])
            /\ ~(r.cluster = cl /\ r.node = n)
        BY <2>9, <4>1
      <4> QED
        BY <4>1, <4>2, NodeRowsAre, RowParts
    <3> QED
      BY <3>1, <3>2
  <2>11. InstanceRows' = InstanceRows
    BY <1>1, <2>7, InstanceRowsKept
  <2>12. NodeRow(n, cl) \in NodeRows
    BY <2>2, <2>5, NodeRowsAre
  <2>13. Own!DeleteNode(n, cl)
    BY <2>7, <2>10, <2>11, <2>12 DEF Own!DeleteNode, Own!NodeRow, NodeRow
  <2> QED
    BY <2>1, <2>5, <2>13
<1> QED
  BY <1>1, <1>2, <1>3

\* An instance is added where there are nodes, when no cluster has it, or not at all.
LEMMA AppendInstanceAllowed ==
    ASSUME IInv, NEW t \in Threads, AppendInstance(t) PROVE Allowed
<1> DEFINE i == request[t].instance
           o == object[t]
           cl == request[t].cluster
<1>1. PICK host \in request[t].nodes :
          instance_list' = [instance_list EXCEPT ![o] = Append(@, [id |-> i, host |-> host])]
  BY DEF AppendInstance
<1>2. pc[t] = "append" /\ UNCHANGED <<cluster_dict, node_list, created>>
  BY DEF AppendInstance, At
<1> DEFINE instance == [id |-> i, host |-> host]
<1> SUFFICES ASSUME ~overlapped
             PROVE  Own!AddInstance(i, cl) /\ i \in Instances /\ cl \in ClusterNames
  BY DEF Allowed, Own!Next
<1>3. /\ cl \in ClusterNames /\ i \in Instances /\ o \in 1..created
      /\ o = cluster_dict[cl] /\ \A c \in Clusters : i \notin Ids(cluster_dict[c])
      /\ host \in Nodes /\ host \in NodesOf(o)
  <2>1. ThreadOK(t) /\ Relies(t)
    BY DEF IInv
  <2>2. request[t].op = "add_instance" /\ request[t] \in AnyRequest
    BY <1>2, <2>1 DEF ThreadOK, Fits
  <2>3. host \in Nodes
    BY <2>2 DEF AnyRequest
  <2> QED
    BY <1>2, <2>1, <2>2, <2>3 DEF ThreadOK, Fits, Relies
<1>4. o \in Objects
  BY <1>3 DEF IInv, Memory, Objects
<1>5. cl \in Clusters /\ instance_list[o] \in Seq(InstanceObjects) /\ instance \in InstanceObjects
  <2>1. instance \in InstanceObjects
    BY <1>3 DEF IInv, Outer, InstanceObjects
  <2>2. o # None
    BY <1>4 DEF Objects
  <2>3. cl \in Clusters
    BY <1>3, <2>2 DEF Clusters
  <2> QED
    BY <1>4, <2>1, <2>3 DEF IInv, Memory
<1>6. \A p \in Objects : Ids(p)' = IF p = o THEN Ids(p) \cup {i} ELSE Ids(p)
  <2>1. ToSet(Append(instance_list[o], instance)) = ToSet(instance_list[o]) \cup {instance}
    BY <1>5, AppendRecord
  <2>2. {x.id : x \in ToSet(Append(instance_list[o], instance))} = Ids(o) \cup {i}
    BY <2>1 DEF Ids
  <2>3. \A p \in Objects :
            instance_list'[p] = IF p = o THEN Append(instance_list[o], instance)
                                ELSE instance_list[p]
    BY <1>1, <1>4 DEF IInv, Memory
  <2> QED
    BY <2>2, <2>3 DEF Ids
<1>7. Clusters' = Clusters /\ \A p : NodesOf(p)' = NodesOf(p)
  BY <1>2 DEF Clusters, NodesOf
<1>8. \A c \in Clusters : /\ cluster_dict[c] \in Objects /\ cluster_dict'[c] = cluster_dict[c]
                          /\ cluster_dict[c] = o => c = cl
  BY <1>2, <1>3, <1>5, OwnObject
<1>9. \A c \in Clusters :
          Ids(cluster_dict[c])' =
              IF c = cl THEN Ids(cluster_dict[c]) \cup {i} ELSE Ids(cluster_dict[c])
  <2>1. /\ \A c : Ids(cluster_dict[c])' = {x.id : x \in ToSet(instance_list'[cluster_dict'[c]])}
        /\ \A p : Ids(p)' = {x.id : x \in ToSet(instance_list'[p])}
    BY DEF Ids
  <2>2. \A c \in Clusters : Ids(cluster_dict[c])' = {x.id : x \in ToSet(instance_list'[cluster_dict[c]])}
    BY <1>8, <2>1
  <2> QED
    BY <1>3, <1>6, <1>8, <2>1, <2>2
<1>10. InstanceRows' = InstanceRows \cup {InstanceRow(i, cl)}
  <2>1. ASSUME NEW r \in InstanceRows PROVE r \in InstanceRows'
    <3>1. /\ r = InstanceRow(r.id, r.cluster) /\ r.cluster \in Clusters
          /\ r.id \in Ids(cluster_dict[r.cluster])
      BY InstanceRowsAre
    <3>2. r.id \in Ids(cluster_dict[r.cluster])'
      BY <1>9, <3>1
    <3> QED
      BY <1>7, <3>1, <3>2, InstanceRowsAre
  <2>2. InstanceRow(i, cl) \in InstanceRows'
    BY <1>5, <1>7, <1>9, InstanceRowsAre
  <2>3. ASSUME NEW r \in InstanceRows', r \notin InstanceRows PROVE r = InstanceRow(i, cl)
    <3>1. /\ r = InstanceRow(r.id, r.cluster) /\ r.cluster \in Clusters
          /\ r.id \in Ids(cluster_dict[r.cluster])'
      BY <1>7, InstanceRowsAre
    <3>2. r.id \notin Ids(cluster_dict[r.cluster])
      BY <2>3, <3>1, InstanceRowsAre
    <3> QED
      BY <1>9, <3>1, <3>2
  <2> QED
    BY <2>1, <2>2, <2>3
<1>11. NodeRows' = NodeRows
  BY <1>2, <1>7, NodeRowsKept
<1>12. \A r \in InstanceRows : r.id # i
  BY <1>3, InstanceRowsAre
<1>13. \E r \in NodeRows : r.cluster = cl
  <2>1. NodeRow(host, cl) \in NodeRows
    BY <1>1, <1>3, <1>5, NodeRowsAre
  <2> QED
    BY <2>1, RowParts
<1>14. Own!AddInstance(i, cl)
  BY <1>7, <1>10, <1>11, <1>12, <1>13 DEF Own!AddInstance, Own!InstanceRow, InstanceRow
<1> QED
  BY <1>3, <1>14

\* A step that leaves the ids of every list alone changes no row.
LEMMA SameIdsAllowed ==
    ASSUME IInv, UNCHANGED <<cluster_dict, node_list>>, \A o \in Objects : Ids(o)' = Ids(o)
    PROVE  Allowed
<1>1. Clusters' = Clusters /\ \A o : NodesOf(o)' = NodesOf(o)
  BY DEF Clusters, NodesOf
<1>2. \A c \in Clusters : Ids(cluster_dict[c])' = Ids(cluster_dict[c])
  <2>1. /\ \A c : Ids(cluster_dict[c])' = {x.id : x \in ToSet(instance_list'[cluster_dict[c]])}
        /\ \A o : Ids(o)' = {x.id : x \in ToSet(instance_list'[o])}
    BY DEF Ids
  <2> QED
    BY <2>1, OwnObject
<1>3. InstanceRows' = InstanceRows
  BY <1>1, <1>2, InstanceRowsKept
<1>4. NodeRows' = NodeRows
  BY <1>1, NodeRowsKept
<1> QED
  BY <1>1, <1>3, <1>4 DEF Allowed, Ownings

\* An instance leaves the cluster that has it, or a cluster that is no more.
LEMMA DeleteInstanceAllowed ==
    ASSUME IInv, NEW t \in Threads, DeleteInstance(t) PROVE Allowed
<1> DEFINE o == object[t]
           k == position[t]
           list == instance_list[o]
           i == list[k].id
<1>1. /\ pc[t] = "delete" /\ UNCHANGED <<cluster_dict, node_list, created>>
      /\ \/ UNCHANGED instance_list
         \/ ~(k > Len(list)) /\ instance_list' = [instance_list EXCEPT ![o] = RemoveAt(list, k)]
  BY DEF DeleteInstance, At
<1>2. CASE UNCHANGED instance_list
  BY <1>1, <1>2, RowsKept DEF Allowed, memory
<1>3. CASE ~(k > Len(list)) /\ instance_list' = [instance_list EXCEPT ![o] = RemoveAt(list, k)]
  <2> SUFFICES ASSUME ~overlapped PROVE Allowed
    BY DEF Allowed
  <2>1. o \in Objects /\ k \in Nat /\ k # 0
    <3>1. ThreadOK(t)
      BY DEF IInv
    <3>2. o \in 1..created /\ k \in Nat /\ k # 0
      BY <1>1, <3>1 DEF ThreadOK
    <3> QED
      BY <3>2 DEF IInv, Memory, Objects
  <2>2. list \in Seq(InstanceObjects) /\ OnceId(list)
    BY <2>1 DEF IInv, Memory, Owned
  <2>3. k \in 1..Len(list)
    <3>1. Len(list) \in Nat
      BY <2>2, LenProperties
    <3> QED
      BY <1>3, <2>1, <3>1
  <2>4. list[k] \in ToSet(list) /\ list[k] \in InstanceObjects
    BY <2>2, <2>3, Elements
  <2>5. i \in Instances /\ i \in Ids(o)
    BY <2>4 DEF InstanceObjects, Ids
  <2>6. \A p \in Objects : Ids(p)' = IF p = o THEN Ids(p) \ {i} ELSE Ids(p)
    <3>1. {x.id : x \in ToSet(RemoveAt(list, k))} = Ids(o) \ {i}
      BY <2>2, <2>3, IdRemoved DEF Ids
    <3>2. \A p \in Objects :
              instance_list'[p] = IF p = o THEN RemoveAt(list, k) ELSE instance_list[p]
      BY <1>3, <2>1 DEF IInv, Memory
    <3> QED
      BY <3>1, <3>2 DEF Ids
  <2> HIDE DEF i, list
  <2>7. Clusters' = Clusters /\ \A p : NodesOf(p)' = NodesOf(p)
    BY <1>1 DEF Clusters, NodesOf
  <2>8. \A c \in Clusters :
            Ids(cluster_dict[c])' =
                IF cluster_dict[c] = o THEN Ids(cluster_dict[c]) \ {i} ELSE Ids(cluster_dict[c])
    <3>1. /\ \A c : Ids(cluster_dict[c])' = {x.id : x \in ToSet(instance_list'[cluster_dict[c]])}
          /\ \A p : Ids(p)' = {x.id : x \in ToSet(instance_list'[p])}
      BY <1>1 DEF Ids
    <3> HIDE DEF o
    <3> QED
      BY <2>6, <3>1, OwnObject
  <2>9. NodeRows' = NodeRows
    BY <1>1, <2>7, NodeRowsKept
  <2>10. CASE \A c \in Clusters : cluster_dict[c] # o
    <3>1. InstanceRows' = InstanceRows
      BY <2>7, <2>8, <2>10, InstanceRowsKept
    <3> QED
      BY <2>7, <2>9, <3>1 DEF Allowed, Ownings
  <2>11. ASSUME NEW cl \in Clusters, cluster_dict[cl] = o PROVE Allowed
    <3>1. \A c \in Clusters : cluster_dict[c] = o => c = cl
      BY <2>11, OwnObject
    <3> HIDE DEF o
    <3>2. InstanceRows' = InstanceRows \ {InstanceRow(i, cl)}
      <4>1. ASSUME NEW r \in InstanceRows, r # InstanceRow(i, cl) PROVE r \in InstanceRows'
        <5>1. /\ r = InstanceRow(r.id, r.cluster) /\ r.cluster \in Clusters
              /\ r.id \in Ids(cluster_dict[r.cluster])
          BY InstanceRowsAre
        <5>2. r.id \in Ids(cluster_dict[r.cluster])'
          BY <2>8, <3>1, <4>1, <5>1
        <5> QED
          BY <2>7, <5>1, <5>2, InstanceRowsAre
      <4>2. ASSUME NEW r \in InstanceRows' PROVE r \in InstanceRows /\ r # InstanceRow(i, cl)
        <5>1. /\ r = InstanceRow(r.id, r.cluster) /\ r.cluster \in Clusters
              /\ r.id \in Ids(cluster_dict[r.cluster])'
          BY <2>7, InstanceRowsAre
        <5>2. /\ r.id \in Ids(cluster_dict[r.cluster])
              /\ ~(r.cluster = cl /\ r.id = i)
          BY <2>8, <2>11, <5>1
        <5> QED
          BY <5>1, <5>2, InstanceRowsAre, RowParts
      <4> QED
        BY <4>1, <4>2
    <3>3. InstanceRow(i, cl) \in InstanceRows
      BY <2>5, <2>11, InstanceRowsAre
    <3>4. Own!DeleteInstance(i, cl)
      BY <2>7, <2>9, <3>2, <3>3 DEF Own!DeleteInstance, Own!InstanceRow, InstanceRow
    <3> QED
      BY <2>5, <3>4, OwnObject DEF Allowed, Own!Next
  <2> QED
    BY <2>10, <2>11
<1> QED
  BY <1>1, <1>2, <1>3

\* A host that is corrected moves nothing between clusters.
LEMMA UpdateInstanceHostAllowed ==
    ASSUME IInv, NEW t \in Threads, UpdateInstanceHost(t) PROVE Allowed
<1> DEFINE o == Cluster(t)
           list == instance_list[o]
           stale == {k \in 1..Len(list) :
                        /\ list[k].id = request[t].instance
                        /\ list[k].host # placed[list[k].id]}
           m == Min(stale)
           new == [list EXCEPT ![m] = [list[m] EXCEPT !.host = placed[request[t].instance]]]
<1>1. /\ pc[t] = "begin" /\ request[t].op = "update_instance_host"
      /\ UNCHANGED <<cluster_dict, node_list, created>>
      /\ \/ UNCHANGED instance_list
         \/ o # None /\ instance_list' = [instance_list EXCEPT ![o] = new]
  BY DEF UpdateInstanceHost, At, Op
<1>2. CASE UNCHANGED instance_list
  BY <1>1, <1>2, RowsKept DEF Allowed, memory
<1>3. CASE o # None /\ instance_list' = [instance_list EXCEPT ![o] = new]
  <2>1. request[t].cluster \in ClusterNames /\ request[t].instance \in Instances
    BY <1>1 DEF IInv, ThreadOK, Fits
  <2>2. o \in Objects
    BY <1>3, <2>1, NamedCluster DEF IInv
  <2>3. list \in Seq(InstanceObjects) /\ placed[request[t].instance] \in Nodes \cup {Elsewhere}
    BY <2>1, <2>2 DEF IInv, Memory, Outer
  <2>4. DOMAIN list = 1..Len(list) /\ \A k \in 1..Len(list) : list[k] \in InstanceObjects
    BY <2>3, Elements, ElementOfSeq
  <2>5. DOMAIN new = 1..Len(list) /\ new = [k \in 1..Len(list) |-> new[k]]
    BY <2>4
  <2>6. \A k \in 1..Len(list) : new[k] \in InstanceObjects /\ new[k].id = list[k].id
    <3> HIDE DEF m
    <3> QED
      BY <2>3, <2>4 DEF InstanceObjects
  <2> HIDE DEF new
  <2>7. {x.id : x \in ToSet(new)} = Ids(o)
    BY <2>3, <2>5, <2>6, SameIds DEF Ids
  <2>8. \A p \in Objects : instance_list'[p] = IF p = o THEN new ELSE instance_list[p]
    BY <1>3, <2>2 DEF IInv, Memory
  <2>9. \A p \in Objects : Ids(p)' = Ids(p)
    BY <2>7, <2>8 DEF Ids
  <2> QED
    BY <1>1, <2>9, SameIdsAllowed
<1> QED
  BY <1>1, <1>2, <1>3

\* Nor do all hosts of a cluster.
LEMMA UpdateAllAllowed ==
    ASSUME IInv, NEW t \in Threads, UpdateAll(t) PROVE Allowed
<1>1. /\ pc[t] = "update all" /\ UNCHANGED <<cluster_dict, node_list, created>>
      /\ \/ UNCHANGED instance_list
         \/ \E pair \in todo[t] : \E last :
                instance_list' =
                    [instance_list EXCEPT ![pair[2]] = Updated(instance_list[pair[2]], last)]
  BY DEF UpdateAll, At
<1>2. CASE UNCHANGED instance_list
  BY <1>1, <1>2, RowsKept DEF Allowed, memory
<1>3. ASSUME NEW pair \in todo[t], NEW last,
             instance_list' = [instance_list EXCEPT ![pair[2]] = Updated(instance_list[pair[2]], last)]
      PROVE  Allowed
  <2> DEFINE o == pair[2]
             list == instance_list[o]
             new == Updated(list, last)
  <2>1. o \in Objects
    BY DEF IInv, ThreadOK
  <2>2. list \in Seq(InstanceObjects) /\ placed \in [Instances -> Nodes \cup {Elsewhere}]
    BY <2>1 DEF IInv, Memory, Outer
  <2>3. \A k \in 1..Len(list) : list[k] \in InstanceObjects
    BY <2>2, ElementOfSeq
  <2>4. DOMAIN new = 1..Len(list) /\ new = [k \in 1..Len(list) |-> new[k]]
    BY DEF Updated
  <2>5. \A k \in 1..Len(list) : new[k] \in InstanceObjects /\ new[k].id = list[k].id
    BY <2>2, <2>3 DEF Updated, InstanceObjects
  <2> HIDE DEF new
  <2>6. {x.id : x \in ToSet(new)} = Ids(o)
    BY <2>2, <2>4, <2>5, SameIds DEF Ids
  <2>7. instance_list' = [instance_list EXCEPT ![o] = new]
    BY <1>3 DEF new
  <2> HIDE DEF o
  <2>8. \A p \in Objects : instance_list'[p] = IF p = o THEN new ELSE instance_list[p]
    BY <2>1, <2>7 DEF IInv, Memory
  <2>9. \A p \in Objects : Ids(p)' = Ids(p)
    BY <2>6, <2>8 DEF Ids
  <2> QED
    BY <1>1, <2>9, SameIdsAllowed
<1> QED
  BY <1>1, <1>2, <1>3

\* The rest of what a request does leaves the memory alone: its checks, its save and
\* its answer.
LEMMA AsideAllowed ==
    ASSUME NEW t \in Threads,
           \/ ChecksOnly(t) \/ AddInstance(t) \/ Answer(t)
           \/ sync_to_db(t) \/ StatementFails(t) \/ RowTooWide(t)
    PROVE  Allowed
<1>1. ChecksOnly(t) => UNCHANGED memory
  BY DEF ChecksOnly, CreateClusterChecks, AddNodeChecks, AddInstanceChecks,
         DeleteInstanceBegins, UpdateAllBegins, UpdateDb
<1>2. Answer(t) \/ AddInstance(t) => UNCHANGED memory
  BY DEF Answer, AddInstance
<1>3. sync_to_db(t) => Saving
  BY DEF sync_to_db, SaveStarts, ResetAll, GetAllTable, ResetTable, WriteCluster, WriteNode,
         WriteInstance
<1>4. StatementFails(t) \/ RowTooWide(t) => UNCHANGED memory
  BY DEF StatementFails, RowTooWide
<1> QED
  BY <1>1, <1>2, <1>3, <1>4, RowsKept DEF Saving, Allowed

\* A crash takes everything; what else happens to the controller, its clouds and its
\* loader, nothing.
LEMMA AroundAllowed ==
    ASSUME IInv, Process \/ Load \/ CloudChanges \/ ServerChanges PROVE Allowed
<1>1. CASE Crash
  <2>1. Clusters' = {}
    BY <1>1 DEF Crash, Clusters, NoClusters
  <2>2. NodeRows' = {} /\ InstanceRows' = {}
    BY <2>1, NodeRowsAre, InstanceRowsAre
  <2> QED
    BY <2>1, <2>2 DEF Allowed, Own!Next, Own!Crash
<1>2. Load => UNCHANGED memory
  BY DEF Load, LoadCluster, LoadNodes, LoadInstance, LoadEnds, LoaderGoesOn, LoaderBegins
<1>3. sync_from_db \/ sync_from_db_fails => UNCHANGED memory
  BY DEF sync_from_db, sync_from_db_fails, Start
<1>4. CloudChanges \/ ServerChanges => UNCHANGED memory
  BY DEF CloudChanges, ServerChanges
<1> QED
  BY <1>1, <1>2, <1>3, <1>4, RowsKept DEF Process, Allowed

\* Every step of Registry is a step of Ownership or none, unless two requests have met.
LEMMA NextAllowed == ASSUME IInv, [Next]_vars PROVE Allowed
<1>1. CASE UNCHANGED vars
  BY <1>1, RowsKept DEF vars, Allowed
<1>2. CASE Process \/ Load \/ CloudChanges \/ ServerChanges
  BY <1>2, AroundAllowed
<1>3. ASSUME NEW t \in Threads, Handle(t) PROVE Allowed
  BY <1>3, AsideAllowed, CreateClusterAllowed, DeleteClusterAllowed, AddNodeAllowed,
     DeleteNodeAllowed, AppendInstanceAllowed, DeleteInstanceAllowed, UpdateInstanceHostAllowed,
     UpdateAllAllowed DEF Handle, ChecksOnly
<1>4. ASSUME NEW t \in Threads, sync_to_db(t) \/ StatementFails(t) \/ RowTooWide(t) PROVE Allowed
  BY <1>4, AsideAllowed
<1>5. ASSUME NEW h \in Handlers, NEW r \in Requests, Receive(h, r) PROVE Allowed
  BY <1>5, RowsKept DEF Receive, Allowed
<1> QED
  BY <1>1, <1>2, <1>3, <1>4, <1>5 DEF Next

\* As long as no two requests have met, the requests, which check in one step and change
\* a list in a later one while the cloud moves, the database fails and the controller
\* crashes, change who has what only as Ownership says, each as if at once.
THEOREM RegistryImplementsOwnership == Spec => OwnershipImplemented
<1>1. Init => Own!Init
  <2> SUFFICES ASSUME Init PROVE Own!Init
    OBVIOUS
  <2>1. Clusters = {}
    BY DEF Init, Clusters, NoClusters
  <2>2. NodeRows = {} /\ InstanceRows = {}
    BY <2>1, NodeRowsAre, InstanceRowsAre
  <2> QED
    BY <2>1, <2>2 DEF Own!Init
<1>2. IInv /\ [Next]_vars => [overlapped \/ Own!Next]_<<Clusters, NodeRows, InstanceRows>>
  BY NextAllowed DEF Allowed, Ownings
<1> QED
  BY <1>1, <1>2, Invariance, PTL DEF Spec, OwnershipImplemented
=============================================================================
