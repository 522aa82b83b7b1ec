------------------------- MODULE RegistryLoadProofs -------------------------
(***************************************************************************)
(* Proofs about the loading of Registry, for all sets and bounds: until    *)
(* something disturbs it, the memory holds at every step what was read of  *)
(* the clusters but for what is still to be loaded (Loaded), so in the end *)
(* a start has restored what the tables held.                              *)
(***************************************************************************)
EXTENDS RegistrySaveProofs

\* The main thread loads, and neither the database nor the cloud has disturbed it.
Loads == loading /\ ~hit[Loader] /\ ~moved

\* What was read of the cluster c.
Stored(c) ==
    [cluster   |-> c,
     nodes     |-> {r.node : r \in {r \in read.nodes : r.cluster = c}},
     instances |-> {r.id : r \in {r \in read.instances : r.cluster = c}}]

KeysRead ==
    /\ read.nodes \subseteq [node : Nodes, cluster : ClusterNames]
    /\ read.instances \subseteq [id : Instances, cluster : ClusterNames]
    /\ \A r, s \in read.nodes : r.node = s.node => r = s
    /\ \A r, s \in read.instances : r.id = s.id => r = s
    /\ \A r \in read.nodes \cup read.instances : r.cluster \in read.clusters

\* What the request of the main thread has still to do.
Asks(op, places) == request[Loader].op = op /\ pc[Loader] \in places
Creates  == Asks("create_cluster", {"begin", "create"})
Adds     == Asks("add_node", {"begin", "add nodes"})
Protects == Asks("add_instance", {"begin", "protect", "append"})

ToCreate == IF Creates THEN {request[Loader].cluster} ELSE {}
ToAdd(c) ==
    (IF row.cluster = c THEN row.nodes ELSE {})
    \cup (IF Adds /\ request[Loader].cluster = c THEN request[Loader].nodes ELSE {})
ToProtect(c) ==
    (IF row.cluster = c THEN row.instances ELSE {})
    \cup (IF Protects /\ request[Loader].cluster = c THEN {request[Loader].instance} ELSE {})

\* What the main thread may be doing.
LoaderAsks ==
    /\ pc[Loader] \in {"idle", "begin", "create", "add nodes", "protect", "append", "answer"}
                        \cup SavePlaces
    /\ pc[Loader] # "idle" =>
           /\ request[Loader].op \in {"create_cluster", "add_node", "add_instance"}
           /\ request[Loader].op = "create_cluster" => request[Loader].nodes = {}
           /\ row.cluster = request[Loader].cluster
    /\ pc[Loader] = "create" => Creates
    /\ pc[Loader] = "append" => request[Loader].nodes = {placed[request[Loader].instance]}
    /\ pc[Loader] \in SavePlaces \cup {"answer"} => result[Loader] # "raises" /\ Clusters # {}

\* What is still to be loaded.
LeftToLoad ==
    /\ Clusters \cap ToCreate = {} /\ Clusters \cup ToCreate \subseteq read.clusters
    /\ exist_cluster = {Stored(c) : c \in read.clusters \ (Clusters \cup ToCreate)}
    /\ row.nodes # {} \/ row.instances # {} => row.cluster \in Clusters \cup ToCreate
    /\ row.nodes \in {{}, Stored(row.cluster).nodes}
    /\ row.instances \subseteq Stored(row.cluster).instances
    /\ row.nodes # {} =>
           /\ row.instances = Stored(row.cluster).instances
           /\ pc[Loader] # "idle" => request[Loader].op = "create_cluster"
    /\ Creates => row = Stored(row.cluster)
    /\ Adds => /\ request[Loader].cluster \in Clusters
               /\ request[Loader].nodes \subseteq Stored(request[Loader].cluster).nodes
               /\ row.instances = Stored(row.cluster).instances
    /\ Protects => /\ request[Loader].cluster \in Clusters
                   /\ request[Loader].instance \in Stored(row.cluster).instances \ row.instances

\* What has been loaded.
RestoredNodes(c) == {n \in pool : NodeRow(n, c) \in read.nodes} \ ToAdd(c)
RestoredIds(c) ==
    {i \in Instances : InstanceRow(i, c) \in read.instances /\ placed[i] \in NodesOf(cluster_dict[c])}
    \ ToProtect(c)
Loaded ==
    \A c \in Clusters : /\ NodesOf(cluster_dict[c]) = RestoredNodes(c)
                        /\ Ids(cluster_dict[c]) = RestoredIds(c)

\* Where the request of the main thread has not saved yet, or has saved or failed.
NotSaved == {"idle", "begin", "create", "protect", "append", "answer"}

\* What the tables hold between two saves: what was read, until there is a cluster.
TablesFit ==
    pc[Loader] \in NotSaved =>
        IF Clusters = {}
        THEN ha_cluster = read.clusters /\ ha_node = read.nodes /\ ha_instance = read.instances
        ELSE TablesMirror

Restoring == KeysRead /\ cursor = "open" /\ LoaderAsks /\ LeftToLoad /\ Loaded /\ TablesFit

LInv ==
    /\ SInv
    /\ ~alive => Clusters = {}
    /\ Loads => Restoring

----------------------------------------------------------------------------
(***************************************************************************)
(* What a step leaves alone.                                               *)
(***************************************************************************)
\* While the main thread loads, it has the controller for itself.
LEMMA LoadsAlone ==
    ASSUME SInv, Loads
    PROVE  /\ alive /\ server /\ ~overlapped /\ Loader \in Threads /\ Undisturbed(Loader)
           /\ \A t \in Threads : pc[t] # "idle" => t = Loader
<1>1. Loader \in Threads /\ \A t \in Threads : t # Loader => t \in Handlers
  BY DEF Threads
<1>2. Alone /\ Faults
  BY DEF SInv, IInv
<1> QED
  BY <1>1, <1>2 DEF Alone, Faults, Loads, Undisturbed

\* A thread that is under way changes neither the world nor what is to be loaded.
LEMMA LoadStays ==
    ASSUME Raising \/ InMemory \/ Saving
    PROVE  UNCHANGED <<alive, server, pool, placed, loading, exist_cluster, row, read, hit, moved>>
  BY DEF Raising, InMemory, Saving, world, start, history

\* The main thread goes on with its request; on the way to "append" it stores the host.
GoesOn ==
    /\ pc[Loader] # "idle"
    /\ request'[Loader].op = request[Loader].op
    /\ request'[Loader].cluster = request[Loader].cluster
    /\ request'[Loader].instance = request[Loader].instance
    /\ pc'[Loader] = "append" \/ request'[Loader].nodes = request[Loader].nodes

\* What is still to be loaded, as long as no cluster is created and no list read.
LEMMA LeftKept ==
    ASSUME LeftToLoad, UNCHANGED <<cluster_dict, exist_cluster, row, read>>, ToCreate' = ToCreate,
           pc'[Loader] # "idle" => GoesOn, Creates' => Creates, Adds' => Adds, Protects' => Protects
    PROVE  LeftToLoad'
<1>1. Clusters' = Clusters /\ \A c : Stored(c)' = Stored(c)
  BY DEF Clusters, Stored
<1>2. Creates' \/ Adds' \/ Protects' => GoesOn
  BY DEF Creates, Adds, Protects, Asks
<1>3. Adds' => request'[Loader].nodes = request[Loader].nodes
  BY <1>2 DEF GoesOn, Adds, Asks
<1> QED
  BY <1>1, <1>2, <1>3 DEF LeftToLoad, GoesOn

\* What has been loaded, as long as the memory does not change.
LEMMA LoadedKept ==
    ASSUME Loaded, UNCHANGED <<memory, pool, placed, read>>,
           \A c \in Clusters : ToAdd(c)' = ToAdd(c) /\ ToProtect(c)' = ToProtect(c)
    PROVE  Loaded'
<1>1. /\ Clusters' = Clusters /\ UNCHANGED cluster_dict
      /\ \A o : NodesOf(o)' = NodesOf(o) /\ Ids(o)' = Ids(o)
  BY MemoryKept DEF memory
<1>2. \A c \in Clusters : RestoredNodes(c)' = RestoredNodes(c) /\ RestoredIds(c)' = RestoredIds(c)
  BY <1>1 DEF RestoredNodes, RestoredIds
<1> QED
  BY <1>1, <1>2 DEF Loaded

\* The tables, as long as nothing is saved.
LEMMA TablesKept ==
    ASSUME TablesFit, UNCHANGED <<memory, tables, read>>, pc[Loader] \in NotSaved
    PROVE  TablesFit'
<1>1. UNCHANGED <<ha_cluster, ha_node, ha_instance>>
  BY DEF tables
<1>2. Clusters' = Clusters
  BY MemoryKept
<1>3. TablesMirror => TablesMirror'
  BY MirrorKept
<1> QED
  BY <1>1, <1>2, <1>3 DEF TablesFit

\* What was read does not change while it is loaded.
LEMMA KeysReadKept ==
    ASSUME KeysRead, UNCHANGED read
    PROVE  KeysRead'
  BY DEF KeysRead

\* A step of the main thread that changes neither the memory nor the tables, and whose
\* request stays what it was or is over.
LEMMA AsideRestores ==
    ASSUME SInv, Restoring,
           UNCHANGED <<memory, tables, cursor, pool, placed, exist_cluster, row, read>>,
           pc[Loader] \in NotSaved \ {"idle"}, LoaderAsks',
           pc'[Loader] # "idle" => GoesOn, (Creates' <=> Creates),
           \/ (Adds' <=> Adds)
           \/ ~Adds' /\ request[Loader].nodes = {},
           (Protects' <=> Protects)
    PROVE  Restoring'
<1>1. UNCHANGED cluster_dict
  BY DEF memory
<1>2. /\ Creates' \/ Adds' \/ Protects' => GoesOn
      /\ Adds' => request'[Loader].nodes = request[Loader].nodes
  BY DEF Creates, Adds, Protects, Asks, GoesOn
<1>3. ToCreate' = ToCreate
  BY <1>2 DEF ToCreate, GoesOn
<1>4. Adds' => Adds
  OBVIOUS
<1>5. LeftToLoad'
  BY <1>1, <1>2, <1>3, <1>4, LeftKept DEF Restoring
<1>6. \A c : ToAdd(c)' = ToAdd(c)
  BY <1>2 DEF ToAdd, GoesOn
<1>7. \A c : ToProtect(c)' = ToProtect(c)
  BY <1>2 DEF ToProtect, GoesOn
<1>8. Loaded'
  BY <1>6, <1>7, LoadedKept DEF Restoring
<1>9. TablesFit'
  BY TablesKept DEF Restoring
<1>10. KeysRead' /\ cursor' = "open"
  BY KeysReadKept DEF Restoring
<1> QED
  BY <1>5, <1>8, <1>9, <1>10 DEF Restoring
----------------------------------------------------------------------------
(***************************************************************************)
(* What is to be loaded.                                                   *)
(***************************************************************************)
\* What a start reads has the keys of the tables.
LEMMA StartRestores ==
    ASSUME LInv, sync_from_db
    PROVE  Restoring'
<1>1. /\ ~alive /\ cursor' = "open" /\ exist_cluster' = {Read(c) : c \in ha_cluster} /\ row' = NoRow
      /\ read' = [clusters |-> ha_cluster, nodes |-> ha_node, instances |-> ha_instance]
      /\ UNCHANGED <<memory, ha_cluster, ha_node, ha_instance, pc>>
  BY DEF sync_from_db, Start, tables
<1>2. Clusters' = {}
  BY <1>1, MemoryKept DEF LInv
<1>3. pc'[Loader] = "idle"
  BY <1>1 DEF LInv, SInv, IInv, Alone
<1>4. KeysRead'
  BY <1>1 DEF LInv, SInv, IInv, Outer, Keys, KeysRead
<1>5. ~Creates' /\ ~Adds' /\ ~Protects'
  BY <1>3 DEF Creates, Adds, Protects, Asks
<1>6. LoaderAsks'
  BY <1>3 DEF LoaderAsks, SavePlaces
<1>7. LeftToLoad'
  <2>1. ToCreate' = {}
    BY <1>5 DEF ToCreate
  <2>2. row'.nodes = {} /\ row'.instances = {}
    BY <1>1 DEF NoRow
  <2>3. \A c : Stored(c)' = Read(c)
    BY <1>1 DEF Stored, Read
  <2>4. exist_cluster' = {Stored(c)' : c \in read'.clusters}
    BY <1>1, <2>3
  <2> QED
    BY <1>2, <1>5, <2>1, <2>2, <2>4 DEF LeftToLoad
<1>8. Loaded'
  BY <1>2 DEF Loaded
<1>9. TablesFit'
  BY <1>1, <1>2 DEF TablesFit
<1> QED
  BY <1>1, <1>4, <1>6, <1>7, <1>8, <1>9 DEF Restoring

\* What the main thread has just taken from what is to be loaded.
LEMMA BeginsRestores ==
    ASSUME LInv, Loads, NEW r, NEW left, LoaderBegins(r, left), pc[Loader] = "idle",
           r.op \in {"create_cluster", "add_node", "add_instance"},
           r.op = "create_cluster" => r.nodes = {}, left.cluster = r.cluster, LeftToLoad',
           \A c \in Clusters : ToAdd(c)' = ToAdd(c) /\ ToProtect(c)' = ToProtect(c)
    PROVE  Restoring'
<1>1. /\ pc'[Loader] = "begin" /\ request'[Loader] = r /\ row' = left
      /\ UNCHANGED <<memory, tables, cursor, pool, placed, read>>
  BY Domains, LoadsAlone DEF LoaderBegins, Begins, Goto, LInv, world
<1>2. Restoring
  BY DEF LInv
<1>3. LoaderAsks'
  BY <1>1 DEF LoaderAsks, SavePlaces
<1>4. Loaded'
  BY <1>1, <1>2, LoadedKept DEF Restoring
<1>5. TablesFit'
  BY <1>1, <1>2, TablesKept DEF Restoring, NotSaved
<1>6. KeysRead' /\ cursor' = "open"
  BY <1>1, <1>2, KeysReadKept DEF Restoring
<1> QED
  BY <1>3, <1>4, <1>5, <1>6 DEF Restoring

\* A cluster that has not been created yet.
LEMMA LoadClusterRestores ==
    ASSUME LInv, Loads, LoadCluster
    PROVE  Restoring'
<1>1. PICK r \in exist_cluster :
         /\ LoaderBegins(Request("create_cluster", r.cluster, {}, None), r)
         /\ exist_cluster' = exist_cluster \ {r}
  BY DEF LoadCluster
<1> DEFINE q == Request("create_cluster", r.cluster, {}, None)
<1>2. pc[Loader] = "idle" /\ row.nodes = {} /\ row.instances = {} /\ read' = read /\ UNCHANGED memory
  BY <1>1 DEF LoadCluster, LoaderBegins, Begins, At
<1>3. q.op = "create_cluster" /\ q.nodes = {} /\ q.cluster = r.cluster
  BY DEF Request
<1>4. pc'[Loader] = "begin" /\ request'[Loader] = q /\ row' = r
  BY <1>1, Domains, LoadsAlone DEF LoaderBegins, Begins, Goto, LInv
<1>5. LeftToLoad
  BY DEF LInv, Restoring
<1>6. ~Creates /\ ~Adds /\ ~Protects
  BY <1>2 DEF Creates, Adds, Protects, Asks
<1>7. ToCreate = {}
  BY <1>6 DEF ToCreate
<1>8. PICK c \in read.clusters \ Clusters : r = Stored(c)
  BY <1>5, <1>7 DEF LeftToLoad
<1>9. \A d : Stored(d).cluster = d /\ Stored(d)' = Stored(d)
  BY <1>2 DEF Stored
<1> HIDE DEF q
<1>10. Creates' /\ ~Adds' /\ ~Protects'
  BY <1>3, <1>4 DEF Creates, Adds, Protects, Asks
<1>11. ToCreate' = {c}
  BY <1>3, <1>4, <1>8, <1>9, <1>10 DEF ToCreate
<1>12. Clusters' = Clusters
  BY <1>2, MemoryKept
<1>13. exist_cluster' = {Stored(d) : d \in read.clusters \ (Clusters \cup {c})}
  <2>1. exist_cluster = {Stored(d) : d \in read.clusters \ Clusters}
    BY <1>5, <1>7 DEF LeftToLoad
  <2>2. \A d : d # c <=> Stored(d) # r
    BY <1>8, <1>9
  <2> QED
    BY <1>1, <2>1, <2>2
<1>14. LeftToLoad'
  <2>1. /\ row' = Stored(row.cluster)' /\ row'.cluster = c
        /\ pc'[Loader] # "idle" => request'[Loader].op = "create_cluster"
    BY <1>3, <1>4, <1>8, <1>9
  <2>2. /\ (Clusters \cap ToCreate)' = {} /\ (Clusters \cup ToCreate)' = Clusters \cup {c}
        /\ Clusters \subseteq read.clusters
    BY <1>5, <1>8, <1>11, <1>12 DEF LeftToLoad
  <2>3. exist_cluster' = {Stored(d)' : d \in read'.clusters \ (Clusters \cup ToCreate)'}
    BY <1>2, <1>9, <1>13, <2>2
  <2>4. /\ row'.nodes \in {{}, Stored(row.cluster)'.nodes}
        /\ row'.instances = Stored(row.cluster)'.instances
    BY <2>1
  <2> QED
    BY <1>2, <1>8, <1>10, <2>1, <2>2, <2>3, <2>4 DEF LeftToLoad
<1>15. \A d \in Clusters : ToAdd(d)' = ToAdd(d) /\ ToProtect(d)' = ToProtect(d)
  BY <1>2, <1>4, <1>6, <1>8, <1>9, <1>10 DEF ToAdd, ToProtect
<1> QED
  BY <1>1, <1>2, <1>3, <1>14, <1>15, BeginsRestores DEF q

\* All of its nodes.
LEMMA LoadNodesRestores ==
    ASSUME LInv, Loads, LoadNodes
    PROVE  Restoring'
<1> DEFINE q == Request("add_node", row.cluster, row.nodes, None)
           left == [row EXCEPT !.nodes = {}]
<1>1. LoaderBegins(q, left) /\ UNCHANGED exist_cluster /\ row.nodes # {}
  BY DEF LoadNodes
<1>2. pc[Loader] = "idle" /\ read' = read /\ UNCHANGED memory
  BY <1>1 DEF LoaderBegins, Begins, At
<1>3. q.op = "add_node" /\ q.nodes = row.nodes /\ q.cluster = row.cluster
  BY DEF Request
<1>4. left.nodes = {} /\ left.instances = row.instances /\ left.cluster = row.cluster
  BY DEF LInv, SInv, IInv, ToLoad, StoredRow
<1> HIDE DEF q, left
<1>5. pc'[Loader] = "begin" /\ request'[Loader] = q /\ row' = left
  BY <1>1, Domains, LoadsAlone DEF LoaderBegins, Begins, Goto, LInv
<1>6. LeftToLoad
  BY DEF LInv, Restoring
<1>7. ~Creates /\ ~Adds /\ ~Protects
  BY <1>2 DEF Creates, Adds, Protects, Asks
<1>8. ~Creates' /\ Adds' /\ ~Protects'
  BY <1>3, <1>5 DEF Creates, Adds, Protects, Asks
<1>9. ToCreate = {} /\ ToCreate' = {}
  BY <1>7, <1>8 DEF ToCreate
<1>10. Clusters' = Clusters /\ \A d : Stored(d)' = Stored(d)
  BY <1>2, MemoryKept DEF Stored
<1>11. LeftToLoad'
  BY <1>1, <1>2, <1>3, <1>4, <1>5, <1>6, <1>8, <1>9, <1>10 DEF LeftToLoad
<1>12. \A d \in Clusters : ToAdd(d)' = ToAdd(d) /\ ToProtect(d)' = ToProtect(d)
  BY <1>3, <1>4, <1>5, <1>7, <1>8 DEF ToAdd, ToProtect
<1> QED
  BY <1>1, <1>2, <1>3, <1>4, <1>11, <1>12, BeginsRestores

\* Each of its instances.
LEMMA LoadInstanceRestores ==
    ASSUME LInv, Loads, LoadInstance
    PROVE  Restoring'
<1>1. PICK i \in row.instances :
         /\ LoaderBegins(Request("add_instance", row.cluster, {}, i),
                         [row EXCEPT !.instances = @ \ {i}])
         /\ UNCHANGED exist_cluster
  BY DEF LoadInstance
<1> DEFINE q == Request("add_instance", row.cluster, {}, i)
           left == [row EXCEPT !.instances = @ \ {i}]
<1>2. pc[Loader] = "idle" /\ row.nodes = {} /\ read' = read /\ UNCHANGED memory
  BY <1>1 DEF LoadInstance, LoaderBegins, Begins, At
<1>3. q.op = "add_instance" /\ q.instance = i /\ q.cluster = row.cluster
  BY DEF Request
<1>4. left.nodes = {} /\ left.instances = row.instances \ {i} /\ left.cluster = row.cluster
  BY <1>2 DEF LInv, SInv, IInv, ToLoad, StoredRow
<1>5. LoaderBegins(q, left)
  BY <1>1
<1> HIDE DEF q, left
<1>6. pc'[Loader] = "begin" /\ request'[Loader] = q /\ row' = left
  BY <1>5, Domains, LoadsAlone DEF LoaderBegins, Begins, Goto, LInv
<1>7. LeftToLoad
  BY DEF LInv, Restoring
<1>8. ~Creates /\ ~Adds /\ ~Protects
  BY <1>2 DEF Creates, Adds, Protects, Asks
<1>9. ~Creates' /\ ~Adds' /\ Protects'
  BY <1>3, <1>6 DEF Creates, Adds, Protects, Asks
<1>10. ToCreate = {} /\ ToCreate' = {}
  BY <1>8, <1>9 DEF ToCreate
<1>11. Clusters' = Clusters /\ \A d : Stored(d)' = Stored(d)
  BY <1>2, MemoryKept DEF Stored
<1>12. LeftToLoad'
  BY <1>1, <1>2, <1>3, <1>4, <1>6, <1>7, <1>9, <1>10, <1>11 DEF LeftToLoad
<1>13. \A d \in Clusters : ToAdd(d)' = ToAdd(d) /\ ToProtect(d)' = ToProtect(d)
  BY <1>1, <1>2, <1>3, <1>4, <1>6, <1>8, <1>9 DEF ToAdd, ToProtect
<1> QED
  BY <1>2, <1>3, <1>4, <1>5, <1>12, <1>13, BeginsRestores

\* A request of the main thread is over.
LEMMA GoesOnRestores ==
    ASSUME LInv, Loads, LoaderGoesOn
    PROVE  Restoring'
<1>1. Restoring /\ SInv /\ pc[Loader] = "answer" /\ UNCHANGED <<memory, tables, cursor, pool, placed, read>>
  BY DEF LInv, LoaderGoesOn, At, world
<1>2. result[Loader] # "raises"
  BY <1>1 DEF Restoring, LoaderAsks
<1>3. UNCHANGED <<exist_cluster, row>> /\ pc'[Loader] = "idle"
  BY <1>1, <1>2, Domains, LoadsAlone DEF LoaderGoesOn, Forgets, Goto
<1>4. LoaderAsks'
  BY <1>3 DEF LoaderAsks, SavePlaces
<1>5. ~Creates /\ ~Adds /\ ~Protects /\ ~Creates' /\ ~Adds' /\ ~Protects'
  BY <1>1, <1>3 DEF Creates, Adds, Protects, Asks
<1> QED
  BY <1>1, <1>3, <1>4, <1>5, AsideRestores DEF NotSaved, GoesOn
----------------------------------------------------------------------------
(***************************************************************************)
(* The checks, none of which refuses what is loaded.                       *)
(***************************************************************************)
\* The rows of two clusters name different nodes and instances, as in the tables.
LEMMA StoredOnce ==
    ASSUME KeysRead, NEW c, NEW d
    PROVE  /\ \A n : NodeRow(n, c) \in read.nodes /\ n \in Stored(d).nodes => c = d
           /\ \A i : InstanceRow(i, c) \in read.instances /\ i \in Stored(d).instances => c = d
<1>1. ASSUME NEW n, NodeRow(n, c) \in read.nodes, n \in Stored(d).nodes PROVE c = d
  <2>1. PICK r \in read.nodes : r.cluster = d /\ r.node = n
    BY <1>1 DEF Stored
  <2> QED
    BY <1>1, <2>1 DEF KeysRead, NodeRow
<1>2. ASSUME NEW i, InstanceRow(i, c) \in read.instances, i \in Stored(d).instances PROVE c = d
  <2>1. PICK r \in read.instances : r.cluster = d /\ r.id = i
    BY <1>2 DEF Stored
  <2> QED
    BY <1>2, <2>1 DEF KeysRead, InstanceRow
<1> QED
  BY <1>1, <1>2

\* What was read of a cluster, row by row.
LEMMA StoredRows ==
    ASSUME KeysRead, NEW c
    PROVE  /\ \A n : n \in Stored(c).nodes <=> NodeRow(n, c) \in read.nodes
           /\ \A i : i \in Stored(c).instances <=> InstanceRow(i, c) \in read.instances
<1>1. ASSUME NEW r \in read.nodes PROVE r = NodeRow(r.node, r.cluster)
  BY DEF KeysRead, NodeRow
<1>2. ASSUME NEW r \in read.instances PROVE r = InstanceRow(r.id, r.cluster)
  BY DEF KeysRead, InstanceRow
<1>3. \A n : NodeRow(n, c).node = n /\ NodeRow(n, c).cluster = c
  BY DEF NodeRow
<1>4. \A i : InstanceRow(i, c).id = i /\ InstanceRow(i, c).cluster = c
  BY DEF InstanceRow
<1>5. \A n : n \in Stored(c).nodes <=> NodeRow(n, c) \in read.nodes
  BY <1>1, <1>3 DEF Stored
<1>6. \A i : i \in Stored(c).instances <=> InstanceRow(i, c) \in read.instances
  BY <1>2, <1>4 DEF Stored
<1> QED
  BY <1>5, <1>6

\* The name of a cluster that is loaded is free.
LEMMA CreateClusterChecksRestores ==
    ASSUME LInv, Loads, CreateClusterChecks(Loader)
    PROVE  Restoring'
<1>1. /\ Restoring /\ SInv /\ Loader \in Threads /\ pc[Loader] = "begin" /\ InMemory
      /\ request[Loader].op = "create_cluster" /\ UNCHANGED <<memory, request>>
  BY LoadsAlone DEF LInv, CreateClusterChecks, At, Op
<1>2. Creates
  BY <1>1 DEF Creates, Asks
<1>3. Cluster(Loader) = None
  <2>1. request[Loader].cluster \in ClusterNames
    BY <1>1, RequestFits DEF Fits
  <2>2. request[Loader].cluster \notin Clusters
    BY <1>1, <1>2 DEF Restoring, LeftToLoad, ToCreate
  <2> QED
    BY <2>1, <2>2 DEF Clusters, Cluster
<1>4. pc'[Loader] = "create" /\ result' = result
  BY <1>1, <1>3, Domains DEF CreateClusterChecks, Goto
<1>5. UNCHANGED <<tables, cursor, pool, placed, exist_cluster, row, read>>
  BY <1>1, LoadStays DEF InMemory
<1>6. /\ Creates /\ Creates' /\ ~Adds /\ ~Adds' /\ ~Protects /\ ~Protects'
  BY <1>1, <1>4 DEF Creates, Adds, Protects, Asks
<1>7. LoaderAsks'
  BY <1>1, <1>4, <1>5, <1>6 DEF Restoring, LoaderAsks, SavePlaces
<1> QED
  BY <1>1, <1>4, <1>5, <1>6, <1>7, AsideRestores DEF NotSaved, GoesOn

\* None of the nodes of a cluster that is loaded is in a cluster.
LEMMA AddNodeChecksRestores ==
    ASSUME LInv, Loads, AddNodeChecks(Loader)
    PROVE  Restoring'
<1>1. /\ Restoring /\ SInv /\ Loader \in Threads /\ pc[Loader] \in {"begin", "fill"} /\ InMemory
      /\ pc[Loader] = "begin" => request[Loader].op = "add_node"
      /\ UNCHANGED <<memory, request>>
  BY LoadsAlone DEF LInv, AddNodeChecks, At, Op
<1>2. pc[Loader] = "begin" /\ request[Loader].op = "add_node"
  BY <1>1 DEF Restoring, LoaderAsks, SavePlaces
<1>3. Adds /\ ~Creates /\ ~Protects
  BY <1>2 DEF Adds, Creates, Protects, Asks
<1>4. ASSUME NEW n \in request[Loader].nodes, NEW c \in Clusters, n \in NodesOf(cluster_dict[c])
      PROVE  FALSE
  <2>1. KeysRead /\ LeftToLoad /\ Loaded
    BY <1>1 DEF Restoring
  <2>2. n \in RestoredNodes(c)
    BY <1>4, <2>1 DEF Loaded
  <2>3. NodeRow(n, c) \in read.nodes /\ n \notin ToAdd(c)
    BY <2>2 DEF RestoredNodes
  <2>4. n \in Stored(request[Loader].cluster).nodes
    BY <1>3, <2>1 DEF LeftToLoad
  <2>5. c = request[Loader].cluster
    BY <2>1, <2>3, <2>4, StoredOnce
  <2> QED
    BY <1>3, <2>3, <2>5 DEF ToAdd
<1>5. \/ pc'[Loader] = "answer" /\ result'[Loader] = "failed" /\ request[Loader].nodes = {}
      \/ pc'[Loader] = "add nodes"
  <2>1. Cluster(Loader) # None
    BY <1>1, <1>3 DEF Restoring, LeftToLoad, Clusters, Cluster
  <2>2. \/ Finish(Loader, "failed") /\ request[Loader].nodes = {}
        \/ Goto(Loader, "add nodes")
    BY <1>4, <2>1 DEF AddNodeChecks
  <2> QED
    BY <1>1, <2>2, Domains DEF Finish, Goto
<1>6. UNCHANGED <<tables, cursor, pool, placed, exist_cluster, row, read>>
  BY <1>1, LoadStays DEF InMemory
<1>7. ~Creates' /\ ~Protects' /\ (Adds' \/ request[Loader].nodes = {})
  BY <1>1, <1>2, <1>5 DEF Creates, Adds, Protects, Asks
<1>8. LoaderAsks'
  <2>1. Clusters' # {}
    BY <1>1, <1>3, MemoryKept DEF Restoring, LeftToLoad
  <2> QED
    BY <1>1, <1>2, <1>5, <1>6, <2>1 DEF Restoring, LoaderAsks, SavePlaces
<1> QED
  BY <1>1, <1>2, <1>3, <1>6, <1>7, <1>8, AsideRestores DEF NotSaved, GoesOn

\* No instance of a cluster that is loaded is in a cluster.
LEMMA AddInstanceChecksRestores ==
    ASSUME LInv, Loads, AddInstanceChecks(Loader)
    PROVE  Restoring'
<1>1. /\ Restoring /\ SInv /\ Loader \in Threads /\ pc[Loader] = "begin" /\ InMemory
      /\ request[Loader].op = "add_instance" /\ UNCHANGED <<memory, request>>
  BY LoadsAlone DEF LInv, AddInstanceChecks, At, Op
<1>2. Protects /\ ~Creates /\ ~Adds
  BY <1>1 DEF Adds, Creates, Protects, Asks
<1>3. ASSUME NEW c \in Clusters, request[Loader].instance \in Ids(cluster_dict[c])
      PROVE  FALSE
  <2> DEFINE i == request[Loader].instance
  <2>1. KeysRead /\ LeftToLoad /\ Loaded /\ LoaderAsks
    BY <1>1 DEF Restoring
  <2>2. i \in RestoredIds(c)
    BY <1>3, <2>1 DEF Loaded
  <2>3. InstanceRow(i, c) \in read.instances /\ i \notin ToProtect(c)
    BY <2>2 DEF RestoredIds
  <2>4. i \in Stored(row.cluster).instances /\ row.cluster = request[Loader].cluster
    BY <1>1, <1>2, <2>1 DEF LeftToLoad, LoaderAsks
  <2>5. c = request[Loader].cluster
    BY <2>1, <2>3, <2>4, StoredOnce
  <2> QED
    BY <1>2, <2>3, <2>5 DEF ToProtect
<1>4. pc'[Loader] = "protect"
  <2>1. Cluster(Loader) # None
    BY <1>1, <1>2 DEF Restoring, LeftToLoad, Clusters, Cluster
  <2>2. Goto(Loader, "protect")
    BY <1>3, <2>1 DEF AddInstanceChecks
  <2> QED
    BY <1>1, <2>2, Domains DEF Goto
<1>5. UNCHANGED <<tables, cursor, pool, placed, exist_cluster, row, read>>
  BY <1>1, LoadStays DEF InMemory
<1>6. ~Creates' /\ ~Adds' /\ Protects'
  BY <1>1, <1>4 DEF Creates, Adds, Protects, Asks
<1>7. LoaderAsks'
  BY <1>1, <1>4, <1>5 DEF Restoring, LoaderAsks, SavePlaces
<1> QED
  BY <1>1, <1>2, <1>4, <1>5, <1>6, <1>7, AsideRestores DEF NotSaved, GoesOn
----------------------------------------------------------------------------
(***************************************************************************)
(* What is loaded.                                                         *)
(***************************************************************************)
\* A cluster is created empty, and everything of it is still to be loaded.
LEMMA CreateClusterRestores ==
    ASSUME LInv, Loads, CreateCluster(Loader)
    PROVE  Restoring'
<1>0. PICK c : c = request[Loader].cluster
  OBVIOUS
<1>1. /\ Restoring /\ SInv /\ Memory /\ Fresh /\ Loader \in Threads
      /\ pc[Loader] = "create" /\ InMemory /\ created + 1 \in Objects /\ created + 1 \in Nat
      /\ cluster_dict' = [cluster_dict EXCEPT ![c] = created + 1]
      /\ UNCHANGED <<node_list, instance_list, request>>
  <2>1. Memory /\ Fresh /\ created < MaxObjects
    BY DEF LInv, SInv, IInv, CreateCluster
  <2>2. MaxObjects \in Nat /\ created \in 0..MaxObjects
    BY <2>1, BoundsTyped DEF Memory
  <2>3. created + 1 \in 1..MaxObjects /\ created + 1 \in Nat
    BY <2>1, <2>2
  <2> QED
    BY <1>0, <2>1, <2>3, LoadsAlone DEF LInv, CreateCluster, At, Objects
<1>2. Creates /\ request[Loader].op = "create_cluster" /\ ~Adds /\ ~Protects
  BY <1>1 DEF Restoring, LoaderAsks, Creates, Adds, Protects, Asks
<1>3. c \in ClusterNames /\ c \notin Clusters /\ c \in read.clusters /\ row = Stored(c) /\ ToCreate = {c}
  <2>1. c \in ClusterNames
    BY <1>0, <1>1, <1>2, RequestFits DEF Fits
  <2>2. LeftToLoad /\ LoaderAsks /\ ToCreate = {c}
    BY <1>0, <1>1, <1>2 DEF Restoring, ToCreate
  <2>3. row = Stored(row.cluster) /\ row.cluster = c
    BY <1>0, <1>1, <1>2, <2>2 DEF LeftToLoad, LoaderAsks
  <2> QED
    BY <2>1, <2>2, <2>3 DEF LeftToLoad
<1>4. /\ pc'[Loader] = "save" /\ result'[Loader] = "succeed"
      /\ UNCHANGED <<tables, cursor, pool, placed, exist_cluster, row, read>>
  BY <1>1, LoadStays, Domains DEF CreateCluster, Goto, InMemory
<1>5. ~Creates' /\ ~Adds' /\ ~Protects' /\ ToCreate' = {}
  BY <1>4 DEF Creates, Adds, Protects, Asks, ToCreate
<1>6. Clusters' = Clusters \cup {c} /\ \A d \in Clusters : cluster_dict'[d] = cluster_dict[d]
  <2>1. DOMAIN cluster_dict = ClusterNames /\ created + 1 # None
    BY <1>1, NoneIsNothing DEF Memory
  <2>2. \A d \in ClusterNames : cluster_dict'[d] = IF d = c THEN created + 1 ELSE cluster_dict[d]
    BY <1>1, <2>1
  <2> QED
    BY <1>3, <2>1, <2>2 DEF Clusters
<1>7. cluster_dict'[c] = created + 1
  BY <1>1, <1>3 DEF Memory
<1>8. \A o : NodesOf(o)' = NodesOf(o) /\ Ids(o)' = Ids(o)
  BY <1>1 DEF NodesOf, Ids
<1>9. NodesOf(created + 1) = {} /\ Ids(created + 1) = {}
  <2>1. /\ Len(node_list[created + 1]) = 0 /\ Len(instance_list[created + 1]) = 0
        /\ node_list[created + 1] \in Seq(Nodes) /\ instance_list[created + 1] \in Seq(InstanceObjects)
    BY <1>1 DEF Fresh, Memory
  <2> QED
    BY <2>1, Elements DEF NodesOf, Ids
<1>10. \A d : Stored(d)' = Stored(d) /\ Stored(d).cluster = d
  BY <1>4 DEF Stored
<1>11. LoaderAsks'
  BY <1>0, <1>1, <1>2, <1>4, <1>6 DEF Restoring, LoaderAsks, SavePlaces
<1>12. LeftToLoad'
  <2>1. (Clusters \cup ToCreate)' = Clusters \cup ToCreate /\ (Clusters \cap ToCreate)' = {}
    BY <1>3, <1>5, <1>6
  <2>2. row.cluster = c /\ LeftToLoad
    BY <1>1, <1>3, <1>10 DEF Restoring
  <2> QED
    BY <1>1, <1>2, <1>3, <1>4, <1>5, <1>10, <2>1, <2>2 DEF LeftToLoad
<1>13. Loaded'
  <2>1. \A d \in Clusters : ToAdd(d)' = ToAdd(d) /\ ToProtect(d)' = ToProtect(d)
    BY <1>2, <1>4, <1>5 DEF ToAdd, ToProtect
  <2>2. ASSUME NEW d \in Clusters
        PROVE  NodesOf(cluster_dict[d])' = RestoredNodes(d)' /\ Ids(cluster_dict[d])' = RestoredIds(d)'
    <3>1. NodesOf(cluster_dict[d])' = NodesOf(cluster_dict[d]) /\ Ids(cluster_dict[d])' = Ids(cluster_dict[d])
      BY <1>6, <1>8
    <3>2. RestoredNodes(d)' = RestoredNodes(d)
      BY <1>4, <2>1 DEF RestoredNodes
    <3>3. RestoredIds(d)' = RestoredIds(d)
      BY <1>4, <2>1, <3>1 DEF RestoredIds
    <3> QED
      BY <1>1, <3>1, <3>2, <3>3 DEF Restoring, Loaded
  <2>3. row.cluster = c /\ KeysRead
    BY <1>1, <1>3, <1>10 DEF Restoring
  <2>4. NodesOf(cluster_dict[c])' = RestoredNodes(c)'
    <3>1. ToAdd(c)' = Stored(c).nodes
      BY <1>3, <1>4, <1>5, <2>3 DEF ToAdd
    <3>2. RestoredNodes(c)' = {}
      BY <1>4, <2>3, <3>1, StoredRows DEF RestoredNodes
    <3> QED
      BY <1>7, <1>8, <1>9, <3>2
  <2>5. Ids(cluster_dict[c])' = RestoredIds(c)'
    <3>1. ToProtect(c)' = Stored(c).instances
      BY <1>3, <1>4, <1>5, <2>3 DEF ToProtect
    <3>2. RestoredIds(c)' = {}
      BY <1>4, <2>3, <3>1, StoredRows DEF RestoredIds
    <3> QED
      BY <1>7, <1>8, <1>9, <3>2
  <2> QED
    BY <1>6, <2>2, <2>4, <2>5 DEF Loaded
<1>14. TablesFit' /\ KeysRead' /\ cursor' = "open"
  BY <1>1, <1>4, KeysReadKept DEF Restoring, TablesFit, NotSaved
<1> QED
  BY <1>11, <1>12, <1>13, <1>14 DEF Restoring

\* The Cluster object that the main thread works on.
LEMMA HeldByLoader ==
    ASSUME SInv, Loads, Restoring, pc[Loader] \in {"add nodes", "protect", "append"}
    PROVE  LET c == request[Loader].cluster
           IN  /\ c \in Clusters /\ object[Loader] = cluster_dict[c] /\ object[Loader] \in Objects
               /\ \A d \in Clusters : d # c => cluster_dict[d] # object[Loader]
               /\ IF pc[Loader] = "add nodes" THEN Adds ELSE Protects
<1>1. Loader \in Threads /\ ~overlapped
  BY LoadsAlone
<1>2. Relies(Loader) /\ ThreadOK(Loader) /\ Fits(Loader) /\ Memory /\ Fresh
  BY <1>1 DEF SInv, IInv, ThreadOK
<1>3. IF pc[Loader] = "add nodes" THEN Adds ELSE Protects
  <2>1. request[Loader].op \in {"create_cluster", "add_node", "add_instance"}
    BY DEF Restoring, LoaderAsks
  <2> QED
    BY <1>2, <2>1 DEF Fits, Adds, Protects, Asks
<1>4. request[Loader].cluster \in Clusters
  BY <1>3 DEF Restoring, LeftToLoad
<1>5. object[Loader] = cluster_dict[request[Loader].cluster]
  BY <1>2 DEF Relies
<1>6. object[Loader] \in Objects
  BY <1>2, <1>4, <1>5 DEF Memory, Clusters
<1> QED
  BY <1>2, <1>3, <1>4, <1>5, <1>6 DEF Fresh

\* A node that is up joins the cluster, one that is down does not.
LEMMA AddNodeRestores ==
    ASSUME LInv, Loads, AddNode(Loader)
    PROVE  Restoring'
<1>0. PICK c, o : c = request[Loader].cluster /\ o = object[Loader]
  OBVIOUS
<1>1. /\ Restoring /\ SInv /\ Memory /\ Loader \in Threads /\ pc[Loader] = "add nodes" /\ InMemory
      /\ UNCHANGED <<cluster_dict, instance_list>>
  BY LoadsAlone DEF LInv, SInv, IInv, AddNode, At
<1>2. PICK n \in request[Loader].nodes :
         /\ request' = [request EXCEPT ![Loader].nodes = @ \ {n}]
         /\ node_list' = IF n \in pool
                         THEN [node_list EXCEPT ![o] = Append(@, n)]
                         ELSE node_list
         /\ result' = [result EXCEPT ![Loader] = IF n \in pool THEN "succeed" ELSE "failed"]
         /\ Goto(Loader, IF request[Loader].nodes = {n} THEN "save" ELSE "add nodes")
  BY <1>0 DEF AddNode
<1>3. /\ c \in Clusters /\ o = cluster_dict[c] /\ o \in Objects /\ Adds
      /\ \A d \in Clusters : d # c => cluster_dict[d] # o
  BY <1>0, <1>1, HeldByLoader
<1>4. /\ request'[Loader].op = request[Loader].op /\ request'[Loader].cluster = c
      /\ request'[Loader].nodes = request[Loader].nodes \ {n}
      /\ request[Loader].nodes \subseteq Nodes
  <2>1. request[Loader] \in AnyRequest
    BY <1>1 DEF SInv, IInv, ThreadOK
  <2>2. request'[Loader] = [request[Loader] EXCEPT !.nodes = @ \ {n}]
    BY <1>1, <1>2, Domains
  <2> QED
    BY <1>0, <2>1, <2>2 DEF AnyRequest
<1>5. /\ pc'[Loader] = IF request[Loader].nodes = {n} THEN "save" ELSE "add nodes"
      /\ result'[Loader] # "raises"
  BY <1>1, <1>2, Domains DEF Goto
<1>6. UNCHANGED <<tables, cursor, pool, placed, exist_cluster, row, read>>
  BY <1>1, LoadStays DEF InMemory
<1>7. request[Loader].op = "add_node"
  BY <1>3 DEF Adds, Asks
<1>8. /\ ~Creates /\ ~Protects /\ ~Creates' /\ ~Protects'
      /\ Adds' \/ request'[Loader].nodes = {}
  BY <1>1, <1>4, <1>5, <1>7 DEF Creates, Adds, Protects, Asks
<1>9. Clusters' = Clusters /\ \A d : Stored(d)' = Stored(d)
  BY <1>1, <1>6 DEF Clusters, Stored
<1>10. /\ NodesOf(o)' = NodesOf(o) \cup ({n} \cap pool)
       /\ \A p \in Objects : p # o => NodesOf(p)' = NodesOf(p)
       /\ \A p : Ids(p)' = Ids(p)
  <2>1. node_list[o] \in Seq(Nodes) /\ n \in Nodes /\ DOMAIN node_list = Objects
    BY <1>1, <1>3, <1>4 DEF Memory
  <2>2. ToSet(Append(node_list[o], n)) = ToSet(node_list[o]) \cup {n}
    BY <2>1, AppendNode
  <2>3. \A p \in Objects :
           node_list'[p] = IF p = o /\ n \in pool THEN Append(node_list[o], n) ELSE node_list[p]
    BY <1>2, <1>3, <2>1
  <2>4. \A p : Ids(p)' = Ids(p)
    BY <1>1 DEF Ids
  <2> QED
    BY <1>3, <2>2, <2>3, <2>4 DEF NodesOf
<1>11. LoaderAsks'
  BY <1>0, <1>1, <1>3, <1>4, <1>5, <1>6, <1>7, <1>9 DEF Restoring, LoaderAsks, SavePlaces
<1>12. row.nodes = {} /\ row.cluster = c /\ row.instances = Stored(c).instances
  BY <1>0, <1>1, <1>3, <1>7 DEF Restoring, LeftToLoad, LoaderAsks
<1>13. LeftToLoad'
  <2>1. ToCreate = {} /\ ToCreate' = {}
    BY <1>8 DEF ToCreate
  <2>2. request'[Loader].nodes \subseteq Stored(c).nodes
    BY <1>0, <1>1, <1>3, <1>4 DEF Restoring, LeftToLoad
  <2>3. LeftToLoad
    BY <1>1 DEF Restoring
  <2> QED
    BY <1>3, <1>4, <1>6, <1>8, <1>9, <1>12, <2>1, <2>2, <2>3 DEF LeftToLoad
<1>14. Loaded'
  <2>1. ASSUME NEW d \in Clusters, d # c
        PROVE  NodesOf(cluster_dict[d])' = RestoredNodes(d)' /\ Ids(cluster_dict[d])' = RestoredIds(d)'
    <3>1. cluster_dict[d] \in Objects /\ cluster_dict[d] # o
      BY <1>1, <1>3, <2>1 DEF Memory, Clusters
    <3>2. NodesOf(cluster_dict[d])' = NodesOf(cluster_dict[d]) /\ Ids(cluster_dict[d])' = Ids(cluster_dict[d])
      BY <1>1, <1>10, <3>1
    <3>3. ToAdd(d)' = ToAdd(d) /\ ToProtect(d)' = ToProtect(d)
      BY <1>0, <1>4, <1>6, <1>8, <2>1 DEF ToAdd, ToProtect
    <3>4. RestoredNodes(d)' = RestoredNodes(d)
      BY <1>6, <3>3 DEF RestoredNodes
    <3>5. RestoredIds(d)' = RestoredIds(d)
      BY <1>6, <3>2, <3>3 DEF RestoredIds
    <3> QED
      BY <1>1, <3>2, <3>4, <3>5 DEF Restoring, Loaded
  <2>2. KeysRead /\ Loaded
    BY <1>1 DEF Restoring
  <2>3. NodesOf(cluster_dict[c])' = RestoredNodes(c)'
    <3>1. ToAdd(c) = request[Loader].nodes
      BY <1>0, <1>3, <1>12 DEF ToAdd
    <3>2. ToAdd(c)' = request[Loader].nodes \ {n}
      BY <1>4, <1>6, <1>8, <1>12 DEF ToAdd
    <3>3. NodeRow(n, c) \in read.nodes
      <4>1. n \in Stored(c).nodes
        BY <1>0, <1>1, <1>3 DEF Restoring, LeftToLoad
      <4> QED
        BY <2>2, <4>1, StoredRows
    <3>4. NodesOf(o) = {m \in pool : NodeRow(m, c) \in read.nodes} \ request[Loader].nodes
      BY <1>3, <2>2, <3>1 DEF Loaded, RestoredNodes
    <3>5. RestoredNodes(c)' = {m \in pool : NodeRow(m, c) \in read.nodes} \ (request[Loader].nodes \ {n})
      BY <1>6, <3>2 DEF RestoredNodes
    <3>6. NodesOf(o)' = {m \in pool : NodeRow(m, c) \in read.nodes} \ (request[Loader].nodes \ {n})
      BY <1>2, <1>10, <3>3, <3>4
    <3>7. NodesOf(cluster_dict[c])' = NodesOf(o) \cup ({n} \cap pool)
      BY <1>1, <1>3, <1>10 DEF NodesOf
    <3> QED
      BY <1>2, <3>3, <3>4, <3>5, <3>7
  <2>4. Ids(cluster_dict[c])' = RestoredIds(c)'
    <3>1. ToProtect(c) = Stored(c).instances /\ ToProtect(c)' = Stored(c).instances
      BY <1>6, <1>8, <1>12 DEF ToProtect
    <3>2. RestoredIds(c) = {}
      BY <2>2, <3>1, StoredRows DEF RestoredIds
    <3>3. RestoredIds(c)' = {}
      BY <1>6, <2>2, <3>1, StoredRows DEF RestoredIds
    <3> QED
      BY <1>1, <1>3, <1>10, <2>2, <3>2, <3>3 DEF Loaded
  <2> QED
    BY <1>9, <2>1, <2>3, <2>4 DEF Loaded
<1>15. TablesFit' /\ KeysRead' /\ cursor' = "open"
  BY <1>1, <1>5, <1>6, KeysReadKept DEF Restoring, TablesFit, NotSaved
<1> QED
  BY <1>11, <1>13, <1>14, <1>15 DEF Restoring

\* The request for an instance is over: it is protected if it is on a node of its cluster,
\* and is not if it is elsewhere.
LEMMA ProtectedRestores ==
    ASSUME LInv, Loads, pc[Loader] \in {"protect", "append"}, Raising,
           UNCHANGED <<cluster_dict, node_list, created, request>>,
           LET o == object[Loader]
               i == request[Loader].instance
           IN  \/ /\ placed[i] \in NodesOf(o)
                  /\ instance_list' =
                         [instance_list EXCEPT ![o] = Append(@, [id |-> i, host |-> placed[i]])]
                  /\ pc'[Loader] = "save" /\ result'[Loader] = "succeed"
               \/ /\ placed[i] \notin NodesOf(o) /\ UNCHANGED instance_list
                  /\ pc'[Loader] = "answer" /\ result'[Loader] = "failed"
    PROVE  Restoring'
<1>0. PICK c, o, i : c = request[Loader].cluster /\ o = object[Loader] /\ i = request[Loader].instance
  OBVIOUS
<1>1. Restoring /\ SInv /\ Memory /\ Outer /\ Loader \in Threads
  BY LoadsAlone DEF LInv, SInv, IInv
<1>2. /\ c \in Clusters /\ o = cluster_dict[c] /\ o \in Objects /\ Protects
      /\ \A d \in Clusters : d # c => cluster_dict[d] # o
  BY <1>0, <1>1, HeldByLoader
<1>3. UNCHANGED <<tables, cursor, pool, placed, exist_cluster, row, read>>
  BY LoadStays DEF Raising
<1>4. \/ /\ placed[i] \in NodesOf(o)
         /\ instance_list' = [instance_list EXCEPT ![o] = Append(@, [id |-> i, host |-> placed[i]])]
         /\ pc'[Loader] = "save" /\ result'[Loader] = "succeed"
      \/ /\ placed[i] \notin NodesOf(o) /\ UNCHANGED instance_list
         /\ pc'[Loader] = "answer" /\ result'[Loader] = "failed"
  BY <1>0
<1>5. ~Creates /\ ~Adds /\ ~Creates' /\ ~Adds' /\ ~Protects' /\ request[Loader].op = "add_instance"
  BY <1>2, <1>4 DEF Creates, Adds, Protects, Asks
<1>6. /\ row.cluster = c /\ i \in Stored(c).instances \ row.instances
      /\ KeysRead /\ LeftToLoad /\ Loaded /\ LoaderAsks
  BY <1>0, <1>1, <1>2 DEF Restoring, LeftToLoad, LoaderAsks
<1>7. Clusters' = Clusters /\ \A p : NodesOf(p)' = NodesOf(p)
  BY <1>1 DEF Clusters, NodesOf
<1>8. i \in Instances /\ InstanceRow(i, c) \in read.instances
  <2>1. InstanceRow(i, c) \in read.instances
    BY <1>6, StoredRows
  <2> QED
    BY <1>6, <2>1 DEF KeysRead, InstanceRow
<1>9. /\ Ids(o)' = Ids(o) \cup (IF placed[i] \in NodesOf(o) THEN {i} ELSE {})
      /\ \A p \in Objects : p # o => Ids(p)' = Ids(p)
  <2>1. CASE placed[i] \in NodesOf(o)
    <3>1. /\ DOMAIN instance_list = Objects /\ instance_list[o] \in Seq(InstanceObjects)
          /\ [id |-> i, host |-> placed[i]] \in InstanceObjects
      BY <1>1, <1>2, <1>8 DEF Memory, Outer, InstanceObjects
    <3>2. ToSet(Append(instance_list[o], [id |-> i, host |-> placed[i]])) =
              ToSet(instance_list[o]) \cup {[id |-> i, host |-> placed[i]]}
      BY <3>1, AppendRecord
    <3>3. \A p \in Objects :
             instance_list'[p] = IF p = o THEN Append(instance_list[o], [id |-> i, host |-> placed[i]])
                                 ELSE instance_list[p]
      BY <1>2, <1>4, <2>1, <3>1
    <3>4. Ids(o)' = Ids(o) \cup {i}
      BY <1>2, <3>2, <3>3 DEF Ids
    <3>5. \A p \in Objects : p # o => Ids(p)' = Ids(p)
      BY <3>3 DEF Ids
    <3> QED
      BY <2>1, <3>4, <3>5
  <2>2. CASE placed[i] \notin NodesOf(o)
    BY <1>4, <2>2 DEF Ids
  <2> QED
    BY <2>1, <2>2
<1>10. LoaderAsks'
  BY <1>1, <1>2, <1>3, <1>4, <1>5, <1>6, <1>7 DEF LoaderAsks, SavePlaces
<1>11. LeftToLoad'
  <2>1. ToCreate' = ToCreate /\ GoesOn
    BY <1>5 DEF ToCreate, GoesOn
  <2> QED
    BY <1>2, <1>3, <1>5, <1>6, <2>1, LeftKept
<1>12. Loaded'
  <2>1. \A d \in Clusters : RestoredNodes(d)' = RestoredNodes(d)
    BY <1>3, <1>5 DEF RestoredNodes, ToAdd
  <2>2. ASSUME NEW d \in Clusters, d # c PROVE Ids(cluster_dict[d])' = RestoredIds(d)'
    <3>1. cluster_dict[d] \in Objects /\ cluster_dict[d] # o
      BY <1>1, <1>2, <2>2 DEF Memory, Clusters
    <3>2. Ids(cluster_dict[d])' = Ids(cluster_dict[d])
      BY <1>1, <1>9, <3>1
    <3>3. ToProtect(d)' = ToProtect(d)
      BY <1>0, <1>3, <1>5, <2>2 DEF ToProtect
    <3>4. RestoredIds(d)' = RestoredIds(d)
      BY <1>1, <1>3, <1>7, <3>3 DEF RestoredIds
    <3> QED
      BY <1>6, <3>2, <3>4 DEF Loaded
  <2>3. Ids(cluster_dict[c])' = RestoredIds(c)'
    <3> DEFINE Kept == {j \in Instances : InstanceRow(j, c) \in read.instances /\ placed[j] \in NodesOf(o)}
    <3>1. Ids(o) = Kept \ (row.instances \cup {i})
      <4>1. ToProtect(c) = row.instances \cup {i}
        BY <1>0, <1>2, <1>6 DEF ToProtect
      <4> QED
        BY <1>2, <1>6, <4>1 DEF Loaded, RestoredIds
    <3>2. RestoredIds(c)' = Kept \ row.instances
      <4>1. ToProtect(c)' = row.instances
        BY <1>3, <1>5, <1>6 DEF ToProtect
      <4> QED
        BY <1>1, <1>2, <1>3, <1>7, <4>1 DEF RestoredIds
    <3>3. i \in Kept <=> placed[i] \in NodesOf(o)
      BY <1>8
    <3>4. Ids(cluster_dict[c])' = Ids(o) \cup (IF placed[i] \in NodesOf(o) THEN {i} ELSE {})
      BY <1>1, <1>2, <1>9
    <3> HIDE DEF Kept
    <3> QED
      BY <1>6, <3>1, <3>2, <3>3, <3>4
  <2> QED
    BY <1>1, <1>6, <1>7, <2>1, <2>2, <2>3 DEF Loaded
<1>13. TablesFit'
  <2>1. CASE pc'[Loader] = "save"
    BY <2>1 DEF TablesFit, NotSaved
  <2>2. CASE UNCHANGED instance_list
    <3>1. UNCHANGED memory
      BY <1>1, <2>2 DEF memory
    <3> QED
      BY <1>1, <1>3, <3>1, TablesKept DEF Restoring, NotSaved
  <2> QED
    BY <1>4, <2>1, <2>2
<1>14. KeysRead' /\ cursor' = "open"
  BY <1>1, <1>3, KeysReadKept DEF Restoring
<1> QED
  BY <1>10, <1>11, <1>12, <1>13, <1>14 DEF Restoring

\* What is restored of the clusters in the end does not depend on an instance that is on
\* none of the nodes of its cluster.
LEMMA AddInstanceRestores ==
    ASSUME LInv, Loads, AddInstance(Loader)
    PROVE  Restoring'
<1>0. PICK c, o, i : c = request[Loader].cluster /\ o = object[Loader] /\ i = request[Loader].instance
  OBVIOUS
<1>1. /\ Restoring /\ SInv /\ Loader \in Threads /\ pc[Loader] = "protect" /\ InMemory
      /\ UNCHANGED <<memory, object>>
  BY LoadsAlone DEF LInv, AddInstance, At
<1>2. c \in Clusters /\ o = cluster_dict[c] /\ Protects
  BY <1>0, <1>1, HeldByLoader
<1>3. UNCHANGED <<tables, cursor, pool, placed, exist_cluster, row, read>>
  BY <1>1, LoadStays DEF InMemory
<1>4. CASE placed[i] \in NodesOf(o)
  <2>1. Goto(Loader, "append") /\ request' = [request EXCEPT ![Loader].nodes = {placed[i]}]
        /\ UNCHANGED result
    BY <1>0, <1>4 DEF AddInstance
  <2>2. pc'[Loader] = "append" /\ request'[Loader] = [request[Loader] EXCEPT !.nodes = {placed[i]}]
    BY <1>1, <2>1, Domains DEF Goto
  <2>3. request[Loader] \in AnyRequest
    BY <1>1 DEF SInv, IInv, ThreadOK
  <2>4. GoesOn /\ request'[Loader].nodes = {placed[i]}
    BY <1>1, <2>2, <2>3 DEF GoesOn, AnyRequest
  <2>5. /\ request[Loader].op = "add_instance"
        /\ Protects' /\ ~Creates /\ ~Adds /\ ~Creates' /\ ~Adds'
    BY <1>2, <2>2, <2>4 DEF GoesOn, Creates, Adds, Protects, Asks
  <2>6. LoaderAsks'
    BY <1>0, <1>1, <1>3, <2>2, <2>4, <2>5 DEF GoesOn, Restoring, LoaderAsks, SavePlaces
  <2> QED
    BY <1>1, <1>2, <1>3, <2>4, <2>5, <2>6, AsideRestores DEF NotSaved
<1>5. CASE placed[i] \notin NodesOf(o)
  <2>1. Finish(Loader, "failed") /\ UNCHANGED request
    BY <1>0, <1>5 DEF AddInstance
  <2>2. pc'[Loader] = "answer" /\ result'[Loader] = "failed"
    BY <1>1, <2>1, Domains DEF Finish, Goto
  <2>3. Raising /\ UNCHANGED <<cluster_dict, node_list, created, instance_list>>
    BY <1>1 DEF InMemory, Raising, history, memory
  <2> QED
    BY <1>0, <1>1, <1>5, <2>1, <2>2, <2>3, ProtectedRestores
<1> QED
  BY <1>4, <1>5

\* The rest of it, on the node that was found.
LEMMA AppendInstanceRestores ==
    ASSUME LInv, Loads, AppendInstance(Loader)
    PROVE  Restoring'
<1>0. PICK o, i : o = object[Loader] /\ i = request[Loader].instance
  OBVIOUS
<1>1. /\ Restoring /\ SInv /\ Loader \in Threads /\ ~overlapped /\ pc[Loader] = "append" /\ Raising
      /\ UNCHANGED <<cluster_dict, node_list, created, request>>
  BY LoadsAlone DEF LInv, AppendInstance, At
<1>2. request[Loader].nodes = {placed[i]} /\ placed[i] \in NodesOf(o)
  BY <1>0, <1>1 DEF Restoring, LoaderAsks, SInv, IInv, Relies
<1>3. /\ instance_list' = [instance_list EXCEPT ![o] = Append(@, [id |-> i, host |-> placed[i]])]
      /\ result' = [result EXCEPT ![Loader] = "succeed"] /\ Goto(Loader, "save")
  BY <1>0, <1>2 DEF AppendInstance
<1>4. pc'[Loader] = "save" /\ result'[Loader] = "succeed"
  BY <1>1, <1>3, Domains DEF Goto
<1> QED
  BY <1>0, <1>1, <1>2, <1>3, <1>4, ProtectedRestores

\* What the main thread does before it saves.
LEMMA HandleRestores ==
    ASSUME LInv, Loads, NEW t \in Threads, Handle(t)
    PROVE  Restoring'
<1>1. pc[t] # "idle"
  BY DEF Handle, CreateClusterChecks, CreateCluster, DeleteCluster, AddNodeChecks, AddNode, DeleteNode,
         AddInstanceChecks, AddInstance, AppendInstance, DeleteInstanceBegins, DeleteInstance, UpdateInstanceHost,
         UpdateAllBegins, UpdateAll, UpdateDb, Answer, At
<1>2. t = Loader
  BY <1>1, LoadsAlone DEF LInv
<1>3. LoaderAsks
  BY DEF LInv, Restoring
<1>4. /\ pc[Loader] \notin {"delete", "update all"}
      /\ request[Loader].op \in {"create_cluster", "add_node", "add_instance"}
  BY <1>1, <1>2, <1>3 DEF LoaderAsks, SavePlaces
<1>5. ~DeleteCluster(t) /\ ~DeleteNode(t) /\ ~DeleteInstanceBegins(t) /\ ~DeleteInstance(t)
  BY <1>2, <1>4 DEF DeleteCluster, DeleteNode, DeleteInstanceBegins, DeleteInstance, At, Op
<1>6. ~UpdateInstanceHost(t) /\ ~UpdateAllBegins(t) /\ ~UpdateAll(t) /\ ~UpdateDb(t) /\ ~Answer(t)
  BY <1>2, <1>4 DEF UpdateInstanceHost, UpdateAllBegins, UpdateAll, UpdateDb, Answer, At, Op
<1> QED
  BY <1>2, <1>5, <1>6, CreateClusterChecksRestores, CreateClusterRestores, AddNodeChecksRestores,
     AddNodeRestores, AddInstanceChecksRestores, AddInstanceRestores, AppendInstanceRestores
  DEF Handle

\* An undisturbed save of the main thread goes on, or has written everything.
LEMMA SavesOn ==
    ASSUME SInv, Loads, Restoring, sync_to_db(Loader)
    PROVE  /\ Saving /\ pc[Loader] \in SavePlaces /\ cursor' = "open"
           /\ UNCHANGED <<request, result>>
           /\ \/ pc'[Loader] \in SavePlaces
              \/ pc'[Loader] = "answer" /\ TablesMirror /\ UNCHANGED tables
<1>1. server /\ cursor = "open" /\ Loader \in Threads /\ Undisturbed(Loader)
  BY LoadsAlone DEF Restoring
<1>2. DOMAIN pc = Threads
  BY Domains
<1>3. CASE SaveStarts(Loader) \/ ResetAll(Loader) \/ GetAllTable(Loader)
  BY <1>1, <1>2, <1>3 DEF SaveStarts, ResetAll, GetAllTable, At, Goto, SavePlaces
<1>4. CASE ResetTable(Loader)
  <2>1. /\ Saving /\ pc[Loader] = "reset" /\ UNCHANGED <<cursor, request, result>>
        /\ Goto(Loader, IF position[Loader] = 3 THEN "write" ELSE "reset")
    BY <1>1, <1>4 DEF ResetTable, At
  <2> QED
    BY <1>1, <1>2, <2>1 DEF Goto, SavePlaces
<1>5. CASE WriteCluster(Loader)
  <2>1. Saving /\ pc[Loader] = "write"
    BY <1>5 DEF WriteCluster, At
  <2>2. CASE todo[Loader] = {}
    <3>1. Saved(Loader) /\ UNCHANGED <<tables, cursor>>
      BY <1>5, <2>2 DEF WriteCluster
    <3>2. ~(Op(Loader, "create_cluster") /\ request[Loader].nodes # {})
      BY <2>1 DEF Restoring, LoaderAsks, Op
    <3>3. pc'[Loader] = "answer" /\ UNCHANGED <<request, result>>
      BY <1>1, <1>2, <3>1, <3>2 DEF Saved, Goto
    <3>4. TablesMirror
      BY <1>1, <2>1, <2>2, MirrorWritten
    <3> QED
      BY <1>1, <2>1, <3>1, <3>3, <3>4 DEF SavePlaces
  <2>3. CASE todo[Loader] # {}
    <3>1. \A pair \in todo[Loader] : ~Refuses(pair[1] \notin ha_cluster)
      BY <1>1, <2>1, ClusterLegal DEF Refuses
    <3>2. UNCHANGED <<cursor, request, result>> /\ Goto(Loader, "write nodes")
      BY <1>5, <2>3, <3>1 DEF WriteCluster
    <3> QED
      BY <1>1, <1>2, <2>1, <3>2 DEF Goto, SavePlaces
  <2> QED
    BY <2>2, <2>3
<1>6. CASE WriteNode(Loader)
  <2> DEFINE o == writing[Loader][2]
             k == position[Loader]
             legal == writing[Loader][1] \in ha_cluster /\ \A r \in ha_node : r.node # node_list[o][k]
  <2>1. Saving /\ pc[Loader] = "write nodes"
    BY <1>6 DEF WriteNode, At
  <2>2. ~(k > Len(node_list[o])) => ~Refuses(legal)
    <3>1. ASSUME ~(k > Len(node_list[o])) PROVE legal
      <4>1. o \in Objects /\ node_list[o] \in Seq(Nodes) /\ k \in Nat
        BY <1>1, <2>1, Writes
      <4>2. Len(node_list[o]) \in Nat
        BY <4>1, LenProperties
      <4>3. k <= Len(node_list[o])
        BY <3>1, <4>1, <4>2
      <4> QED
        BY <1>1, <2>1, <4>3, NodeLegal
    <3> QED
      BY <1>1, <3>1 DEF Refuses
  <2>3. UNCHANGED <<cursor, request, result>> /\ (Goto(Loader, "write instances") \/ UNCHANGED pc)
    BY <1>6, <2>2 DEF WriteNode
  <2> QED
    BY <1>1, <1>2, <2>1, <2>3 DEF Goto, SavePlaces
<1>7. CASE WriteInstance(Loader)
  <2> DEFINE o == writing[Loader][2]
             k == position[Loader]
             legal == /\ writing[Loader][1] \in ha_cluster
                      /\ \A r \in ha_instance : r.id # instance_list[o][k].id
  <2>1. Saving /\ pc[Loader] = "write instances"
    BY <1>7 DEF WriteInstance, At
  <2>2. ~(k > Len(instance_list[o])) => ~Refuses(legal)
    <3>1. ASSUME ~(k > Len(instance_list[o])) PROVE legal
      <4>1. o \in Objects /\ instance_list[o] \in Seq(InstanceObjects) /\ k \in Nat
        BY <1>1, <2>1, Writes
      <4>2. Len(instance_list[o]) \in Nat
        BY <4>1, LenProperties
      <4>3. k <= Len(instance_list[o])
        BY <3>1, <4>1, <4>2
      <4> QED
        BY <1>1, <2>1, <4>3, InstanceLegal
    <3> QED
      BY <1>1, <3>1 DEF Refuses
  <2>3. UNCHANGED <<cursor, request, result>> /\ (Goto(Loader, "write") \/ UNCHANGED pc)
    BY <1>7, <2>2 DEF WriteInstance
  <2> QED
    BY <1>1, <1>2, <2>1, <2>3 DEF Goto, SavePlaces
<1> QED
  BY <1>3, <1>4, <1>5, <1>6, <1>7 DEF sync_to_db

\* A save of what has been loaded.
LEMMA SyncRestores ==
    ASSUME LInv, Loads, NEW t \in Threads, sync_to_db(t)
    PROVE  Restoring'
<1>1. pc[t] # "idle"
  BY DEF sync_to_db, SaveStarts, ResetAll, GetAllTable, ResetTable, WriteCluster, WriteNode,
         WriteInstance, At
<1>2. t = Loader /\ Restoring /\ SInv
  BY <1>1, LoadsAlone DEF LInv
<1>3. /\ Saving /\ pc[Loader] \in SavePlaces /\ cursor' = "open" /\ UNCHANGED <<request, result>>
      /\ \/ pc'[Loader] \in SavePlaces
         \/ pc'[Loader] = "answer" /\ TablesMirror /\ UNCHANGED tables
  BY <1>2, SavesOn
<1>4. UNCHANGED <<memory, cluster_dict, pool, placed, exist_cluster, row, read>>
  BY <1>3, LoadStays DEF Saving, memory
<1>5. /\ ~Creates /\ ~Adds /\ ~Protects /\ ~Creates' /\ ~Adds' /\ ~Protects'
      /\ pc[Loader] # "idle" /\ pc[Loader] \notin NotSaved
  BY <1>3 DEF Creates, Adds, Protects, Asks, SavePlaces, NotSaved
<1>6. Clusters' = Clusters
  BY <1>4, MemoryKept
<1>7. LoaderAsks'
  BY <1>2, <1>3, <1>4, <1>5, <1>6 DEF Restoring, LoaderAsks, SavePlaces
<1>8. LeftToLoad'
  <2>1. ToCreate' = ToCreate
    BY <1>5 DEF ToCreate
  <2> QED
    BY <1>2, <1>3, <1>4, <1>5, <2>1, LeftKept DEF Restoring, GoesOn
<1>9. Loaded'
  <2>1. \A c : ToAdd(c)' = ToAdd(c) /\ ToProtect(c)' = ToProtect(c)
    BY <1>4, <1>5 DEF ToAdd, ToProtect
  <2> QED
    BY <1>2, <1>4, <2>1, LoadedKept DEF Restoring
<1>10. TablesFit'
  <2>1. CASE pc'[Loader] \in SavePlaces
    BY <2>1 DEF TablesFit, NotSaved, SavePlaces
  <2>2. CASE pc'[Loader] = "answer" /\ TablesMirror /\ UNCHANGED tables
    <3>1. TablesMirror'
      BY <1>4, <2>2, MirrorKept
    <3>2. Clusters' # {}
      BY <1>2, <1>3, <1>6 DEF Restoring, LoaderAsks
    <3> QED
      BY <3>1, <3>2 DEF TablesFit
  <2> QED
    BY <1>3, <2>1, <2>2
<1>11. KeysRead'
  BY <1>2, <1>4, KeysReadKept DEF Restoring
<1> QED
  BY <1>3, <1>7, <1>8, <1>9, <1>10, <1>11 DEF Restoring
----------------------------------------------------------------------------
(***************************************************************************)
(* Every step, and the end of the loading.                                 *)
(***************************************************************************)
\* A controller that does not run has no clusters.
LEMMA NothingKept ==
    ASSUME LInv, [Next]_vars
    PROVE  ~alive' => Clusters' = {}
<1>1. CASE Process
  BY <1>1, NoneIsNothing DEF Process, Crash, sync_from_db, sync_from_db_fails, Start, NoClusters, Clusters
<1>2. CASE CloudChanges \/ ServerChanges \/ UNCHANGED vars
  <2>1. UNCHANGED <<alive, memory>>
    BY <1>2 DEF CloudChanges, ServerChanges, vars, start
  <2> QED
    BY <2>1, MemoryKept DEF LInv
<1>3. CASE Load
  <2>1. alive
    BY <1>3 DEF LInv, SInv, IInv, Alone, Load, LoadCluster, LoadNodes, LoadInstance, LoadEnds,
                LoaderGoesOn, At
  <2>2. alive' = alive
    BY <1>3 DEF Load, LoadCluster, LoadNodes, LoadInstance, LoadEnds, LoaderGoesOn, LoaderBegins
  <2> QED
    BY <2>1, <2>2 DEF LInv
<1>4. ASSUME NEW t \in Threads, Handle(t) PROVE alive'
  <2>1. alive /\ (Raising \/ InMemory \/ UNCHANGED start)
    BY <1>4 DEF Handle, CreateClusterChecks, CreateCluster, DeleteCluster, AddNodeChecks, AddNode,
                DeleteNode, AddInstanceChecks, AddInstance, AppendInstance, DeleteInstanceBegins, DeleteInstance,
                UpdateInstanceHost, UpdateAllBegins, UpdateAll, UpdateDb, Answer, At
  <2> QED
    BY <2>1 DEF Raising, InMemory, start
<1>5. ASSUME NEW t \in Threads, sync_to_db(t) \/ StatementFails(t) \/ RowTooWide(t) PROVE alive'
  <2>1. alive /\ (Saving \/ UNCHANGED start)
    BY <1>5 DEF sync_to_db, SaveStarts, ResetAll, GetAllTable, ResetTable, WriteCluster, WriteNode,
                WriteInstance, StatementFails, RowTooWide, At
  <2> QED
    BY <2>1 DEF Saving, start
<1>6. ASSUME NEW h \in Handlers, NEW r \in Requests, Receive(h, r) PROVE alive'
  BY <1>6 DEF Receive, Begins, At, start
<1> QED
  BY <1>1, <1>2, <1>3, <1>4, <1>5, <1>6 DEF Next

\* Nothing that happens while the controller loads goes wrong without being noticed.
LEMMA NextRestores ==
    ASSUME LInv, [Next]_vars, Loads'
    PROVE  Restoring'
<1>0. SInv /\ Loader \in Threads /\ loading' /\ ~hit'[Loader] /\ ~moved'
  BY DEF LInv, Loads, Threads
<1>1. CASE Process
  <2>1. ~Crash
    BY <1>0 DEF Crash
  <2>2. ~sync_from_db_fails
    <3>1. sync_from_db_fails => Trouble /\ ~alive
      BY DEF sync_from_db_fails, Start, Fault
    <3> QED
      BY <1>0, <3>1, FaultHits
  <2> QED
    BY <1>1, <2>1, <2>2, StartRestores DEF Process
<1>2. CASE CloudChanges \/ ServerChanges
  <2>1. ~CloudChanges
    BY <1>0 DEF CloudChanges
  <2>2. ServerChanges => Trouble /\ loading
    BY <1>0 DEF ServerChanges, start
  <2> QED
    BY <1>0, <1>2, <2>1, <2>2, FaultHits
<1>3. CASE LoadCluster \/ LoadNodes \/ LoadInstance
  <2>1. UNCHANGED <<loading, hit, moved>>
    BY <1>3 DEF LoadCluster, LoadNodes, LoadInstance, LoaderBegins, history
  <2> QED
    BY <1>0, <1>3, <2>1, LoadClusterRestores, LoadNodesRestores, LoadInstanceRestores DEF Loads
<1>4. CASE LoadEnds
  BY <1>0, <1>4 DEF LoadEnds
<1>5. CASE LoaderGoesOn
  <2>1. UNCHANGED <<loading, hit, moved>>
    BY <1>5 DEF LoaderGoesOn, Forgets
  <2> QED
    BY <1>0, <1>5, <2>1, GoesOnRestores DEF Loads
<1>6. ASSUME NEW t \in Threads, Handle(t) PROVE Restoring'
  <2>1. CASE Answer(t)
    <3>1. loading /\ t \in Handlers /\ pc[t] = "answer"
      BY <1>0, <2>1 DEF Answer, At, start, Threads
    <3> QED
      BY <1>0, <3>1 DEF SInv, IInv, Alone
  <2>2. CASE ~Answer(t)
    <3>1. Raising \/ InMemory
      BY <1>6, <2>2 DEF Handle, CreateClusterChecks, CreateCluster, DeleteCluster, AddNodeChecks, AddNode,
                  DeleteNode, AddInstanceChecks, AddInstance, AppendInstance, DeleteInstanceBegins, DeleteInstance,
                  UpdateInstanceHost, UpdateAllBegins, UpdateAll, UpdateDb
    <3>2. UNCHANGED <<loading, hit, moved>>
      BY <3>1, LoadStays
    <3>3. Loads
      BY <1>0, <3>2 DEF Loads
    <3> QED
      BY <1>6, <3>3, HandleRestores
  <2> QED
    BY <2>1, <2>2
<1>7. ASSUME NEW t \in Threads, sync_to_db(t) PROVE Restoring'
  <2>1. Saving
    BY <1>7 DEF sync_to_db, SaveStarts, ResetAll, GetAllTable, ResetTable, WriteCluster, WriteNode,
                WriteInstance
  <2>2. UNCHANGED <<loading, hit, moved>>
    BY <2>1, LoadStays
  <2>3. Loads
    BY <1>0, <2>2 DEF Loads
  <2> QED
    BY <1>7, <2>3, SyncRestores
<1>8. ASSUME NEW t \in Threads, StatementFails(t) \/ RowTooWide(t) PROVE FALSE
  <2>1. Trouble /\ loading
    BY <1>0, <1>8 DEF StatementFails, RowTooWide, Fault, start
  <2> QED
    BY <1>0, <2>1, FaultHits
<1>9. ASSUME NEW h \in Handlers, NEW r \in Requests, Receive(h, r) PROVE FALSE
  BY <1>0, <1>9 DEF Receive, start
<1>10. CASE UNCHANGED vars
  <2>1. Loads /\ Restoring
    BY <1>0, <1>10 DEF vars, start, history, Loads, LInv
  <2>2. /\ UNCHANGED <<memory, tables, cursor, pool, placed, exist_cluster, row, read, cluster_dict>>
        /\ UNCHANGED <<pc, request, result>>
    BY <1>10 DEF vars, world, start, thread, memory
  <2>3. /\ Clusters' = Clusters /\ Creates' = Creates /\ Adds' = Adds /\ Protects' = Protects
        /\ ToCreate' = ToCreate
    BY <2>2 DEF Clusters, Creates, Adds, Protects, Asks, ToCreate
  <2>4. LoaderAsks'
    BY <2>1, <2>2, <2>3 DEF Restoring, LoaderAsks
  <2>5. LeftToLoad'
    BY <2>1, <2>2, <2>3, LeftKept DEF Restoring, GoesOn
  <2>6. \A c : ToAdd(c)' = ToAdd(c) /\ ToProtect(c)' = ToProtect(c)
    BY <2>2, <2>3 DEF ToAdd, ToProtect
  <2>7. Loaded'
    BY <2>1, <2>2, <2>6, LoadedKept DEF Restoring
  <2>8. UNCHANGED <<ha_cluster, ha_node, ha_instance>> /\ (TablesMirror => TablesMirror')
    BY <2>2, MirrorKept DEF tables
  <2>9. TablesFit'
    BY <2>1, <2>2, <2>3, <2>8 DEF Restoring, TablesFit
  <2>10. KeysRead' /\ cursor' = "open"
    BY <2>1, <2>2, KeysReadKept DEF Restoring
  <2> QED
    BY <2>4, <2>5, <2>7, <2>9, <2>10 DEF Restoring
<1> QED
  BY <1>1, <1>2, <1>3, <1>4, <1>5, <1>6, <1>7, <1>8, <1>9, <1>10 DEF Next, Load

\* What is loaded so far, in every reachable state.
LEMMA LoadInvariance == Spec => []LInv
<1>1. Init => LInv
  <2> SUFFICES ASSUME Init PROVE LInv
    OBVIOUS
  <2>1. SInv
    BY InitProgress
  <2>2. Clusters = {} /\ ~Loads
    BY NoneIsNothing DEF Init, NoClusters, Clusters, Loads
  <2> QED
    BY <2>1, <2>2 DEF LInv
<1>2. LInv /\ [Next]_vars => LInv'
  <2> SUFFICES ASSUME LInv, [Next]_vars PROVE LInv'
    OBVIOUS
  <2>1. SInv'
    BY NextProgress DEF LInv
  <2> QED
    BY <2>1, NothingKept, NextRestores DEF LInv
<1> QED
  BY <1>1, <1>2, PTL DEF Spec

\* Once there is nothing left to load, the memory and the tables hold what was read but
\* for the nodes that are down and the instances that are on none of their nodes.
LEMMA AllRestored ==
    ASSUME LInv, Loads, pc[Loader] = "idle", row.nodes = {}, row.instances = {}, exist_cluster = {}
    PROVE  /\ ClusterRows = read.clusters
           /\ NodeRows = {r \in read.nodes : r.node \in pool}
           /\ InstanceRows = {r \in read.instances : NodeRow(placed[r.id], r.cluster) \in NodeRows}
           /\ TablesMirror
<1>1. KeysRead /\ LeftToLoad /\ Loaded /\ TablesFit
  BY DEF LInv, Restoring
<1>2. ~Creates /\ ~Adds /\ ~Protects
  BY DEF Creates, Adds, Protects, Asks
<1>3. Clusters = read.clusters
  BY <1>1, <1>2 DEF LeftToLoad, ToCreate
<1>4. \A c : ToAdd(c) = {} /\ ToProtect(c) = {}
  BY <1>2 DEF ToAdd, ToProtect
<1>5. \A c \in Clusters : /\ NodesOf(cluster_dict[c]) = {n \in pool : NodeRow(n, c) \in read.nodes}
                          /\ Ids(cluster_dict[c]) =
                                 {i \in Instances : /\ InstanceRow(i, c) \in read.instances
                                                    /\ placed[i] \in NodesOf(cluster_dict[c])}
  BY <1>1, <1>4 DEF Loaded, RestoredNodes, RestoredIds
<1>6. \A n, c : NodeRow(n, c) \in NodeRows <=> c \in Clusters /\ n \in NodesOf(cluster_dict[c])
  <2>1. \A n, m, c, d : NodeRow(n, c) = NodeRow(m, d) => n = m /\ c = d
    BY DEF NodeRow
  <2>2. \A x : x \in NodeRows <=> \E c \in Clusters : \E n \in NodesOf(cluster_dict[c]) : x = NodeRow(n, c)
    BY DEF NodeRows
  <2> QED
    BY <2>1, <2>2
<1>7. \A i, c : InstanceRow(i, c) \in InstanceRows <=> c \in Clusters /\ i \in Ids(cluster_dict[c])
  <2>1. \A i, j, c, d : InstanceRow(i, c) = InstanceRow(j, d) => i = j /\ c = d
    BY DEF InstanceRow
  <2>2. \A x : x \in InstanceRows <=> \E c \in Clusters : \E i \in Ids(cluster_dict[c]) : x = InstanceRow(i, c)
    BY DEF InstanceRows
  <2> QED
    BY <2>1, <2>2
<1>8. /\ \A n, c : NodeRow(n, c).node = n /\ NodeRow(n, c).cluster = c
      /\ \A i, c : InstanceRow(i, c).id = i /\ InstanceRow(i, c).cluster = c
  BY DEF NodeRow, InstanceRow
<1>9. /\ \A r \in read.nodes : r = NodeRow(r.node, r.cluster) /\ r.cluster \in Clusters
      /\ \A r \in read.instances :
            r = InstanceRow(r.id, r.cluster) /\ r.cluster \in Clusters /\ r.id \in Instances
  BY <1>1, <1>3 DEF KeysRead, NodeRow, InstanceRow
<1>10. NodeRows = {r \in read.nodes : r.node \in pool}
  <2>1. \A r \in NodeRows : \E n, c : r = NodeRow(n, c)
    BY DEF NodeRows
  <2> QED
    BY <1>5, <1>6, <1>8, <1>9, <2>1
<1>11. InstanceRows = {r \in read.instances : NodeRow(placed[r.id], r.cluster) \in NodeRows}
  <2>1. \A r \in InstanceRows : \E i, c : r = InstanceRow(i, c)
    BY DEF InstanceRows
  <2>2. \A r \in InstanceRows : r \in read.instances /\ NodeRow(placed[r.id], r.cluster) \in NodeRows
    BY <1>5, <1>6, <1>7, <1>8, <2>1
  <2>3. \A r \in read.instances : NodeRow(placed[r.id], r.cluster) \in NodeRows => r \in InstanceRows
    BY <1>5, <1>6, <1>7, <1>9
  <2> QED
    BY <2>2, <2>3
<1>12. TablesMirror
  <2>1. CASE Clusters = {}
    <3>1. read.nodes = {} /\ read.instances = {}
      BY <1>9, <2>1
    <3>2. NodeRows = {} /\ InstanceRows = {}
      BY <1>10, <1>11, <3>1
    <3> QED
      BY <1>1, <1>3, <2>1, <3>1, <3>2 DEF TablesFit, NotSaved, TablesMirror, ClusterRows
  <2>2. CASE Clusters # {}
    BY <1>1, <2>2 DEF TablesFit, NotSaved
  <2> QED
    BY <2>1, <2>2
<1> QED
  BY <1>3, <1>10, <1>11, <1>12 DEF ClusterRows

\* A start that neither the database nor the cloud disturbs restores what the tables
\* held but for the nodes that are down and the instances that are on none of their
\* nodes, and these are gone from the tables when the REST service is started.
THEOREM RegistryLoadRestores == Spec => LoadRestores
<1>1. LInv /\ [Next]_vars =>
          [loading /\ ~loading' /\ alive' /\ ~hit[Loader] /\ ~moved =>
              /\ ClusterRows = read.clusters
              /\ NodeRows = {r \in read.nodes : r.node \in pool}
              /\ InstanceRows = {r \in read.instances : NodeRow(placed[r.id], r.cluster) \in NodeRows}
              /\ TablesMirror]_vars
  <2> SUFFICES ASSUME LInv, Next, loading, ~loading', alive', ~hit[Loader], ~moved
               PROVE  /\ ClusterRows = read.clusters
                      /\ NodeRows = {r \in read.nodes : r.node \in pool}
                      /\ InstanceRows =
                             {r \in read.instances : NodeRow(placed[r.id], r.cluster) \in NodeRows}
                      /\ TablesMirror
    OBVIOUS
  <2>1. Loads
    BY DEF Loads
  <2>2. LoadEnds
    <3>1. ~Process
      BY DEF LInv, SInv, IInv, Alone, Process, Crash, sync_from_db, sync_from_db_fails, Start
    <3>2. ~CloudChanges /\ ~ServerChanges
      BY DEF CloudChanges, ServerChanges, start
    <3>3. ~LoadCluster /\ ~LoadNodes /\ ~LoadInstance /\ ~LoaderGoesOn
      BY DEF LoadCluster, LoadNodes, LoadInstance, LoaderBegins, LoaderGoesOn
    <3>4. ASSUME NEW t \in Threads, Handle(t) PROVE FALSE
      <4>1. Raising \/ InMemory \/ UNCHANGED start
        BY <3>4 DEF Handle, CreateClusterChecks, CreateCluster, DeleteCluster, AddNodeChecks, AddNode,
                    DeleteNode, AddInstanceChecks, AddInstance, AppendInstance, DeleteInstanceBegins, DeleteInstance,
                    UpdateInstanceHost, UpdateAllBegins, UpdateAll, UpdateDb, Answer
      <4> QED
        BY <4>1 DEF Raising, InMemory, start
    <3>5. ASSUME NEW t \in Threads, sync_to_db(t) \/ StatementFails(t) \/ RowTooWide(t) PROVE FALSE
      <4>1. Saving \/ UNCHANGED start
        BY <3>5 DEF sync_to_db, SaveStarts, ResetAll, GetAllTable, ResetTable, WriteCluster, WriteNode,
                    WriteInstance, StatementFails, RowTooWide
      <4> QED
        BY <4>1 DEF Saving, start
    <3>6. ASSUME NEW h \in Handlers, NEW r \in Requests, Receive(h, r) PROVE FALSE
      BY <3>6 DEF Receive, start
    <3> QED
      BY <3>1, <3>2, <3>3, <3>4, <3>5, <3>6 DEF Next, Load
  <2>3. pc[Loader] = "idle" /\ row.nodes = {} /\ row.instances = {} /\ exist_cluster = {}
    BY <2>2 DEF LoadEnds, At
  <2> QED
    BY <2>1, <2>3, AllRestored
<1> QED
  BY <1>1, LoadInvariance, PTL DEF Spec, LoadRestores
=============================================================================
