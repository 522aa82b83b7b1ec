------------------------------ MODULE Registry ------------------------------
(***************************************************************************)
(* The clusters in the controller's memory (ResourceManager) and the three *)
(* tables that mirror them (DatabaseManager).  Every request of the REST   *)
(* service is a thread; what it does in memory is a step or a few, and the *)
(* save that follows is a step per statement, each committed on its own,   *)
(* over the one connection that all threads share.  A controller that      *)
(* crashes is started again and loads the tables with the same requests.   *)
(*                                                                         *)
(* What Cluster does to a node or an instance between two calls of Nova is *)
(* in Protection; here it is one step, and two for an instance that is     *)
(* added: between them its host may be deleted.                            *)
(***************************************************************************)
EXTENDS Naturals, SequencesExt

CONSTANTS
    ClusterNames, Nodes, Instances,
    Handlers,      \* the threads of the REST service
    Loader,        \* the main thread, while the controller starts
    None,          \* Python's None
    Elsewhere,     \* where an instance is that Cluster.add_instance refuses
    MaxObjects,    \* bound: clusters created while the controller runs
    MaxRequests,   \* bound: requests
    LastOps,       \* bound: what one request more may be
    MaxEvents      \* bound: changes of the cloud, faults of the database, crashes

ASSUME LoaderIsNoHandler == Loader \notin Handlers
ASSUME NoneIsNothing ==
    None \notin ClusterNames \cup Nodes \cup Instances \cup Nat
ASSUME BoundsTyped ==
    {MaxObjects, MaxRequests, MaxEvents} \subseteq Nat

VARIABLES
    \* the world
    server,         \* can MySQL be reached?
    pool,           \* the nodes Nova lists as up
    placed,         \* the host Nova names for an instance that runs
    wide,           \* the names that make a row too wide for its columns
    \* the controller's memory
    alive,          \* does the controller run?
    cluster_dict,   \* _cluster_dict: the Cluster object of a name
    node_list,      \* of every Cluster object
    instance_list,  \* likewise: the id and the recorded host of each instance
    created,        \* how many objects there have been
    \* the database
    ha_cluster, ha_node, ha_instance,
    cursor,         \* the only cursor: "open", or "closed" by _close_db
    \* loading
    loading,        \* is the controller starting?
    exist_cluster,  \* what sync_from_db has read and is still to be loaded
    row,            \* what is left of the cluster that is being loaded
    \* the threads
    pc, request, result,
    object,         \* the Cluster object a thread holds
    position,       \* where a thread is in the list it iterates
    todo,           \* the clusters its save has still to write, with their names
    writing,        \* the one whose rows it is writing
    \* bounds
    requests, events,
    \* history
    overlapped,     \* have two requests been under way at once?
    failed,         \* has the database failed, or refused a row that is too wide,
                    \* since the controller was started?
    hit,            \* has it while this request was under way?
    read,           \* what the tables held when the controller was started
    moved,          \* has the cloud changed since the controller was started?
    unsaved         \* has a request, since then, put something into a list or taken it
                    \* out, and then raised, so that no save followed?

Threads == Handlers \cup {Loader}
Objects == 1..MaxObjects

world    == <<server, pool, placed, wide>>
memory   == <<cluster_dict, node_list, instance_list, created>>
tables   == <<ha_cluster, ha_node, ha_instance>>
start    == <<alive, loading, exist_cluster, row, read>>
thread   == <<request, result, object, position, todo, writing>>
bounds   == <<requests, events>>
history  == <<overlapped, failed, hit, moved, unsaved>>
vars == <<world, memory, tables, cursor, start, pc, thread, bounds, history>>

Clusters == {c \in ClusterNames : cluster_dict[c] # None}
NodesOf(o) == ToSet(node_list[o])
Ids(o) == {instance.id : instance \in ToSet(instance_list[o])}

\* The rows that a save of the present memory writes.
ClusterRows  == Clusters
NodeRow(n, c) == [node |-> n, cluster |-> c]
NodeRows == UNION {{NodeRow(n, c) : n \in NodesOf(cluster_dict[c])} : c \in Clusters}
InstanceRow(i, c) == [id |-> i, cluster |-> c]
InstanceRows == UNION {{InstanceRow(i, c) : i \in Ids(cluster_dict[c])} : c \in Clusters}

Request(op, c, nodes, i) == [op |-> op, cluster |-> c, nodes |-> nodes, instance |-> i]
NoRequest == Request("none", None, {}, None)

\* The routes of the REST service that read or change the clusters, and their
\* arguments.
Requests ==
    {Request("create_cluster", c, nodes, None) : c \in ClusterNames, nodes \in SUBSET Nodes}
    \cup {Request("delete_cluster", c, {}, None) : c \in ClusterNames}
    \cup {Request("add_node", c, nodes, None) : c \in ClusterNames, nodes \in SUBSET Nodes}
    \cup {Request("delete_node", c, {n}, None) : c \in ClusterNames, n \in Nodes}
    \cup {Request(op, c, {}, i) : op \in {"add_instance", "delete_instance",
                                          "update_instance_host"},
                                  c \in ClusterNames, i \in Instances}
    \cup {Request(op, None, {}, None) : op \in {"update_db", "update_all_clusters"}}

NothingRead == [clusters |-> {}, nodes |-> {}, instances |-> {}]
NoRow == [cluster |-> None, nodes |-> {}, instances |-> {}]

NoClusters == [c \in ClusterNames |-> None]
EmptyLists == [o \in Objects |-> <<>>]
OfAll(value) == [t \in Threads |-> value]

\* The controller is about to be started; the tables hold what an earlier one has
\* left, the mirror of a legal state or a part of it.  The network of an instance may
\* have grown too long since its row was written.
Init ==
    /\ server = TRUE /\ pool = Nodes
    /\ placed \in [Instances -> Nodes \cup {Elsewhere}]
    /\ wide \in SUBSET (ClusterNames \cup Nodes \cup Instances)
    /\ alive = FALSE
    /\ cluster_dict = NoClusters /\ node_list = EmptyLists /\ instance_list = EmptyLists
    /\ created = 0
    /\ ha_cluster \in SUBSET (ClusterNames \ wide)
    /\ \E owner \in [Nodes \cup Instances -> ha_cluster \cup {None}] :
          /\ ha_node = {NodeRow(n, owner[n]) : n \in {n \in Nodes \ wide : owner[n] # None}}
          /\ ha_instance = {InstanceRow(i, owner[i]) : i \in {i \in Instances : owner[i] # None}}
    /\ cursor = "closed"
    /\ loading = FALSE /\ exist_cluster = {} /\ row = NoRow
    /\ read = NothingRead
    /\ pc = OfAll("idle") /\ request = OfAll(NoRequest) /\ result = OfAll("none")
    /\ object = OfAll(None) /\ position = OfAll(0) /\ todo = OfAll({}) /\ writing = OfAll(<<>>)
    /\ requests = 0 /\ events = 0
    /\ overlapped = FALSE /\ failed = FALSE /\ hit = OfAll(FALSE)
    /\ moved = FALSE /\ unsaved = FALSE
----------------------------------------------------------------------------
(***************************************************************************)
(* The world: the cloud, the database server, the controller's process.    *)
(***************************************************************************)
Event == events < MaxEvents /\ events' = events + 1 /\ UNCHANGED requests

CloudChanges ==
    /\ Event
    /\ \/ \E i \in Instances, h \in Nodes \cup {Elsewhere} :
             placed' = [placed EXCEPT ![i] = h] /\ UNCHANGED pool
       \/ \E n \in Nodes :
             pool' = (IF n \in pool THEN pool \ {n} ELSE pool \cup {n}) /\ UNCHANGED placed
    /\ moved' = TRUE
    /\ UNCHANGED <<server, wide, memory, tables, cursor, start, pc, thread, overlapped, failed, hit,
                   unsaved>>

\* The database fails everyone who is under way.
Trouble ==
    /\ failed' = TRUE
    /\ hit' = [t \in Threads |-> hit[t] \/ pc[t] # "idle" \/ (t = Loader /\ (loading \/ ~alive))]
    /\ UNCHANGED overlapped

Fault == Event /\ Trouble

\* The server goes or comes.  A _check_db whose ping has just failed tries to connect;
\* when the server is back by then, that opens a cursor, and None is returned all the
\* same.
PingedInVain(t) == pc[t] \in {"reset", "write", "write nodes", "write instances", "fill", "answer"}

ServerChanges ==
    /\ Trouble
    /\ \/ /\ server /\ Event
          /\ server' = FALSE /\ UNCHANGED cursor
       \/ /\ ~server /\ UNCHANGED bounds
          /\ server' = TRUE
          /\ \/ UNCHANGED cursor
             \/ (\E t \in Threads : PingedInVain(t)) /\ cursor' = "open"
    /\ UNCHANGED <<pool, placed, wide, memory, tables, start, pc, thread, moved, unsaved>>

Crash ==
    /\ alive /\ Event
    /\ alive' = FALSE /\ loading' = FALSE /\ exist_cluster' = {} /\ row' = NoRow
    /\ cluster_dict' = NoClusters /\ node_list' = EmptyLists /\ instance_list' = EmptyLists
    /\ created' = 0 /\ cursor' = "closed"
    /\ pc' = OfAll("idle") /\ request' = OfAll(NoRequest) /\ result' = OfAll("none")
    /\ object' = OfAll(None) /\ position' = OfAll(0) /\ todo' = OfAll({}) /\ writing' = OfAll(<<>>)
    /\ overlapped' = FALSE /\ failed' = FALSE /\ hit' = OfAll(FALSE)
    /\ moved' = FALSE /\ unsaved' = FALSE
    /\ read' = NothingRead /\ UNCHANGED <<world, tables>>

\* The rows of the cluster c, as sync_from_db returns them.
Read(c) ==
    [cluster   |-> c,
     nodes     |-> {r.node : r \in {r \in ha_node : r.cluster = c}},
     instances |-> {r.id : r \in {r \in ha_instance : r.cluster = c}}]

\* Without MySQL the process exits, and is started again.
Start ==
    /\ ~alive /\ server
    /\ alive' = TRUE /\ loading' = TRUE /\ row' = NoRow
    /\ read' = [clusters |-> ha_cluster, nodes |-> ha_node, instances |-> ha_instance]
    /\ moved' = FALSE
    /\ UNCHANGED <<world, memory, tables, pc, thread, unsaved>>

sync_from_db ==
    /\ Start
    /\ cursor' = "open"
    /\ exist_cluster' = {Read(c) : c \in ha_cluster}
    /\ hit' = OfAll(FALSE) /\ UNCHANGED <<bounds, overlapped, failed>>

\* The read fails and returns None: iterating that raises, _sync_from_database
\* catches it, and the controller runs without any cluster.
sync_from_db_fails ==
    /\ Start /\ Fault
    /\ cursor' \in {"open", "closed"}
    /\ exist_cluster' = {}
----------------------------------------------------------------------------
(***************************************************************************)
(* Requests and their answers.                                             *)
(***************************************************************************)
Goto(t, to) == pc' = [pc EXCEPT ![t] = to]
At(t, at) == alive /\ pc[t] = at

Begins(t, r) ==
    /\ At(t, "idle")
    /\ request' = [request EXCEPT ![t] = r]
    /\ Goto(t, "begin")
    /\ UNCHANGED <<result, object, position, todo, writing>>

Receive(h, r) ==
    /\ ~loading
    /\ requests < MaxRequests \/ (requests = MaxRequests /\ r.op \in LastOps)
    /\ requests' = requests + 1
    /\ Begins(h, r)
    /\ overlapped' = (overlapped \/ \E t \in Threads : pc[t] # "idle")
    /\ UNCHANGED <<world, memory, tables, cursor, start, events, failed, hit, moved,
                   unsaved>>

\* _sync_from_database: for each cluster create_cluster, then add_node with all of
\* its nodes, then add_instance for each instance.
LoaderBegins(r, left) ==
    /\ Begins(Loader, r)
    /\ row' = left
    /\ UNCHANGED <<world, memory, tables, cursor, alive, loading, read, bounds, history>>

LoadCluster ==
    /\ loading /\ row.nodes = {} /\ row.instances = {}
    /\ \E r \in exist_cluster :
          /\ LoaderBegins(Request("create_cluster", r.cluster, {}, None), r)
          /\ exist_cluster' = exist_cluster \ {r}

LoadNodes ==
    /\ loading /\ row.nodes # {}
    /\ LoaderBegins(Request("add_node", row.cluster, row.nodes, None), [row EXCEPT !.nodes = {}])
    /\ UNCHANGED exist_cluster

\* Mutant: the instances are loaded before the nodes.
LoadInstance_First ==
    /\ loading
    /\ \E i \in row.instances :
          LoaderBegins(Request("add_instance", row.cluster, {}, i),
                       [row EXCEPT !.instances = @ \ {i}])
    /\ UNCHANGED exist_cluster

LoadInstance ==
    /\ loading /\ row.nodes = {}
    /\ \E i \in row.instances :
          LoaderBegins(Request("add_instance", row.cluster, {}, i),
                       [row EXCEPT !.instances = @ \ {i}])
    /\ UNCHANGED exist_cluster

\* Only then is the REST service started.
LoadEnds ==
    /\ loading /\ At(Loader, "idle")
    /\ row.nodes = {} /\ row.instances = {} /\ exist_cluster = {}
    /\ loading' = FALSE /\ row' = NoRow /\ read' = NothingRead
    /\ hit' = OfAll(FALSE)
    /\ UNCHANGED <<world, memory, tables, cursor, alive, exist_cluster, pc, thread, bounds,
                   overlapped, failed, moved, unsaved>>

\* What a method of Hass answers when the manager's returned or raised: every
\* exception is a failure, and a cluster that is created without its nodes is a
\* success.
Hass(op, outcome) ==
    IF outcome = "raises" THEN "failed"
    ELSE IF op = "fill_cluster" THEN "succeed" ELSE outcome

Finish(t, outcome) ==
    /\ Goto(t, "answer")
    /\ result' = [result EXCEPT ![t] = outcome]

\* The thread returns, and with it its local variables.
Forgets(t) ==
    /\ Goto(t, "idle")
    /\ request' = [request EXCEPT ![t] = NoRequest]
    /\ object' = [object EXCEPT ![t] = None]
    /\ position' = [position EXCEPT ![t] = 0]
    /\ todo' = [todo EXCEPT ![t] = {}]
    /\ writing' = [writing EXCEPT ![t] = <<>>]
    /\ result' = [result EXCEPT ![t] = "none"]
    /\ hit' = IF t = Loader THEN hit ELSE [hit EXCEPT ![t] = FALSE]

Answer(h) ==
    /\ h # Loader
    /\ At(h, "answer")
    /\ Forgets(h)
    /\ UNCHANGED <<world, memory, tables, cursor, start, bounds, overlapped, failed, moved,
                   unsaved>>

\* An exception ends the loading: nothing more of what was read is loaded.
LoaderGoesOn ==
    /\ At(Loader, "answer")
    /\ IF result[Loader] = "raises"
       THEN exist_cluster' = {} /\ row' = NoRow
       ELSE UNCHANGED <<exist_cluster, row>>
    /\ Forgets(Loader)
    /\ UNCHANGED <<world, memory, tables, cursor, alive, loading, read, bounds,
                   overlapped, failed, moved, unsaved>>
----------------------------------------------------------------------------
(***************************************************************************)
(* What the requests do in memory.                                         *)
(***************************************************************************)
\* The thread t acts on the database or its own variables, or stays in memory.
InMemory == UNCHANGED <<world, tables, cursor, start, bounds, history>>

\* The same for a step that may raise with a list changed.
Raising == UNCHANGED <<world, tables, cursor, start, bounds, overlapped, failed, hit, moved>>

Op(t, op) == request[t].op = op
Cluster(t) == cluster_dict[request[t].cluster]

CreateClusterChecks(t) ==
    /\ At(t, "begin") /\ Op(t, "create_cluster")
    /\ IF Cluster(t) # None THEN Finish(t, "failed") ELSE Goto(t, "create") /\ UNCHANGED result
    /\ InMemory /\ UNCHANGED <<memory, request, object, position, todo, writing>>

\* _add_to_cluster_list: a cluster of the same name is overwritten.
CreateCluster(t) ==
    /\ At(t, "create") /\ created < MaxObjects
    /\ created' = created + 1
    /\ cluster_dict' = [cluster_dict EXCEPT ![request[t].cluster] = created + 1]
    /\ result' = [result EXCEPT ![t] = "succeed"]
    /\ Goto(t, "save")
    /\ InMemory /\ UNCHANGED <<node_list, instance_list, request, object, position, todo, writing>>

\* Mutant: the deletion is not saved.
DeleteCluster_Unsaved(t) ==
    /\ At(t, "begin") /\ Op(t, "delete_cluster")
    /\ IF Cluster(t) = None \/ node_list[Cluster(t)] # <<>>
       THEN Finish(t, "failed") /\ UNCHANGED cluster_dict
       ELSE /\ cluster_dict' = [cluster_dict EXCEPT ![request[t].cluster] = None]
            /\ Finish(t, "succeed")
    /\ InMemory
    /\ UNCHANGED <<node_list, instance_list, created, request, object, position, todo, writing>>

\* A cluster that still has nodes is not deleted; its instances are not looked at.  The
\* check that the name is gone iterates the dictionary: a cluster that is created
\* meanwhile makes that raise, or is taken for the deleted one.
DeleteCluster(t) ==
    /\ At(t, "begin") /\ Op(t, "delete_cluster")
    /\ IF Cluster(t) = None \/ node_list[Cluster(t)] # <<>>
       THEN Finish(t, "failed") /\ UNCHANGED cluster_dict
       ELSE /\ cluster_dict' = [cluster_dict EXCEPT ![request[t].cluster] = None]
            /\ \/ result' = [result EXCEPT ![t] = "succeed"] /\ Goto(t, "save")
               \/ /\ \E u \in Threads : At(u, "create")
                  /\ result' = [result EXCEPT ![t] = "failed"]
                  /\ Goto(t, "answer") \/ Goto(t, "save")
    /\ InMemory
    /\ UNCHANGED <<node_list, instance_list, created, request, object, position, todo, writing>>

\* Mutant: only the cluster itself is asked.
AddNodeChecks_OneCluster(t) ==
    /\ \/ At(t, "begin") /\ Op(t, "add_node")
       \/ At(t, "fill")
    /\ IF request[t].nodes = {} \/ Cluster(t) = None
       THEN Finish(t, "failed") /\ UNCHANGED object
       ELSE IF \E n \in request[t].nodes : n \in NodesOf(Cluster(t))
       THEN Finish(t, "raises") /\ UNCHANGED object
       ELSE /\ object' = [object EXCEPT ![t] = Cluster(t)]
            /\ Goto(t, "add nodes") /\ UNCHANGED result
    /\ InMemory /\ UNCHANGED <<memory, request, position, todo, writing>>

\* Mutant: a cluster that does not exist is used.
AddNodeChecks_NoCluster(t) ==
    /\ \/ At(t, "begin") /\ Op(t, "add_node")
       \/ At(t, "fill")
    /\ IF \E n \in request[t].nodes, c \in Clusters : n \in NodesOf(cluster_dict[c])
       THEN Finish(t, "raises") /\ UNCHANGED object
       ELSE IF request[t].nodes = {}
       THEN Finish(t, "failed") /\ UNCHANGED object
       ELSE /\ object' = [object EXCEPT ![t] = Cluster(t)]
            /\ Goto(t, "add nodes") /\ UNCHANGED result
    /\ InMemory /\ UNCHANGED <<memory, request, position, todo, writing>>

\* The message about a node that is in a cluster already has one argument too few:
\* the check raises.
AddNodeChecks(t) ==
    /\ \/ At(t, "begin") /\ Op(t, "add_node")
       \/ At(t, "fill")
    /\ IF \E n \in request[t].nodes, c \in Clusters : n \in NodesOf(cluster_dict[c])
       THEN Finish(t, "raises") /\ UNCHANGED object
       ELSE IF request[t].nodes = {} \/ Cluster(t) = None
       THEN Finish(t, "failed") /\ UNCHANGED object
       ELSE /\ object' = [object EXCEPT ![t] = Cluster(t)]
            /\ Goto(t, "add nodes") /\ UNCHANGED result
    /\ InMemory /\ UNCHANGED <<memory, request, position, todo, writing>>

\* Cluster.add_node, one node after the other; the answer is that for the last.
AddNode(t) ==
    /\ At(t, "add nodes")
    /\ \E n \in request[t].nodes :
          /\ request' = [request EXCEPT ![t].nodes = @ \ {n}]
          /\ node_list' = IF n \in pool
                          THEN [node_list EXCEPT ![object[t]] = Append(@, n)]
                          ELSE node_list
          /\ result' = [result EXCEPT ![t] = IF n \in pool THEN "succeed" ELSE "failed"]
          /\ Goto(t, IF request[t].nodes = {n} THEN "save" ELSE "add nodes")
    /\ InMemory
    /\ UNCHANGED <<cluster_dict, instance_list, created, object, position, todo, writing>>

\* Only a node without protected instances is deleted.  When the list held it twice
\* (two requests have added it at once), the other one is found, and the return that
\* reports it runs into that of the finally clause, whose result is not bound: it
\* raises, and nothing is saved.
DeleteNode(t) ==
    /\ At(t, "begin") /\ Op(t, "delete_node")
    /\ IF Cluster(t) = None THEN Finish(t, "failed") /\ UNCHANGED <<node_list, unsaved>>
       ELSE LET list == node_list[Cluster(t)]
                at == {k \in 1..Len(list) : list[k] \in request[t].nodes}
                used == \E instance \in ToSet(instance_list[Cluster(t)]) :
                            instance.host \in request[t].nodes
            IN  IF at = {} \/ used
                THEN /\ result' = [result EXCEPT ![t] = "failed"] /\ Goto(t, "save")
                     /\ UNCHANGED <<node_list, unsaved>>
                ELSE /\ node_list' = [node_list EXCEPT ![Cluster(t)] = RemoveAt(list, Min(at))]
                     /\ IF Cardinality(at) = 1
                        THEN /\ result' = [result EXCEPT ![t] = "succeed"] /\ Goto(t, "save")
                             /\ UNCHANGED unsaved
                        ELSE Finish(t, "failed") /\ unsaved' = TRUE
    /\ Raising
    /\ UNCHANGED <<cluster_dict, instance_list, created, request, object, position, todo, writing>>

AddInstanceChecks(t) ==
    /\ At(t, "begin") /\ Op(t, "add_instance")
    /\ IF Cluster(t) = None \/ \E c \in Clusters : request[t].instance \in Ids(cluster_dict[c])
       THEN Finish(t, "failed") /\ UNCHANGED object
       ELSE /\ object' = [object EXCEPT ![t] = Cluster(t)]
            /\ Goto(t, "protect") /\ UNCHANGED result
    /\ InMemory /\ UNCHANGED <<memory, request, position, todo, writing>>

\* Mutant: it is not asked whether the host is in the cluster.
AddInstance_AnyHost(t) ==
    /\ At(t, "protect")
    /\ request' = [request EXCEPT ![t].nodes = {placed[request[t].instance]}]
    /\ Goto(t, "append")
    /\ InMemory /\ UNCHANGED <<memory, result, object, position, todo, writing>>

\* Cluster.add_instance up to the new Instance, with the host that Nova names now
\* (final_host, kept in the request); a refusal is not followed by a save.
AddInstance(t) ==
    /\ At(t, "protect")
    /\ LET host == placed[request[t].instance]
       IN  IF host \in NodesOf(object[t])
           THEN /\ request' = [request EXCEPT ![t].nodes = {host}]
                /\ Goto(t, "append") /\ UNCHANGED result
           ELSE Finish(t, "failed") /\ UNCHANGED request
    /\ InMemory /\ UNCHANGED <<memory, object, position, todo, writing>>

\* Mutant: the new instance is not saved.
AppendInstance_Unsaved(t) ==
    /\ At(t, "append")
    /\ \E host \in request[t].nodes :
          instance_list' = [instance_list EXCEPT ![object[t]] =
                                Append(@, [id |-> request[t].instance, host |-> host])]
    /\ Finish(t, "succeed")
    /\ InMemory
    /\ UNCHANGED <<cluster_dict, node_list, created, request, object, position, todo, writing>>

\* The rest of it.  When a delete_node has taken the host from the cluster meanwhile,
\* there is no node to tell, and it raises with the instance in the list: the answer is
\* a refusal, and nothing is saved.
AppendInstance(t) ==
    /\ At(t, "append")
    /\ \E host \in request[t].nodes :
          /\ instance_list' = [instance_list EXCEPT ![object[t]] =
                                   Append(@, [id |-> request[t].instance, host |-> host])]
          /\ IF host \in NodesOf(object[t])
             THEN /\ result' = [result EXCEPT ![t] = "succeed"] /\ Goto(t, "save")
                  /\ UNCHANGED unsaved
             ELSE Finish(t, "failed") /\ unsaved' = TRUE
    /\ Raising
    /\ UNCHANGED <<cluster_dict, node_list, created, request, object, position, todo, writing>>

DeleteInstanceBegins(t) ==
    /\ At(t, "begin") /\ Op(t, "delete_instance")
    /\ IF Cluster(t) = None THEN Finish(t, "failed") /\ UNCHANGED <<object, position>>
       ELSE /\ object' = [object EXCEPT ![t] = Cluster(t)]
            /\ position' = [position EXCEPT ![t] = 1]
            /\ result' = [result EXCEPT ![t] = "failed"]
            /\ Goto(t, "delete")
    /\ InMemory /\ UNCHANGED <<memory, request, todo, writing>>

\* Cluster.delete_instance removes from the list it iterates, so the element behind
\* is skipped.  When the recorded host is no node of the cluster it raises, after the
\* removal and before the save.
DeleteInstance(t) ==
    /\ At(t, "delete")
    /\ LET o == object[t]
           k == position[t]
           list == instance_list[o]
       IN  IF k > Len(list)
           THEN Goto(t, "save") /\ UNCHANGED <<instance_list, position, result, unsaved>>
           ELSE /\ position' = [position EXCEPT ![t] = k + 1]
                /\ IF list[k].id # request[t].instance
                   THEN UNCHANGED <<pc, instance_list, result, unsaved>>
                   ELSE /\ instance_list' = [instance_list EXCEPT ![o] = RemoveAt(list, k)]
                        /\ IF list[k].host \in NodesOf(o)
                           THEN result' = [result EXCEPT ![t] = "succeed"] /\ UNCHANGED <<pc, unsaved>>
                           ELSE Finish(t, "failed") /\ unsaved' = TRUE
    /\ Raising
    /\ UNCHANGED <<cluster_dict, node_list, created, request, object, todo, writing>>

\* The recorded hosts of the first last elements of the list become Nova's.
Updated(list, last) ==
    [k \in 1..Len(list) |->
        IF k <= last THEN [id |-> list[k].id, host |-> placed[list[k].id]] ELSE list[k]]

\* Cluster.update_instance_host always answers failed, and so is never saved.
UpdateInstanceHost(t) ==
    /\ At(t, "begin") /\ Op(t, "update_instance_host")
    /\ Finish(t, "failed")
    /\ IF Cluster(t) = None \/ request[t].instance \notin Ids(Cluster(t))
       THEN UNCHANGED instance_list
       ELSE LET list == instance_list[Cluster(t)]
                   stale == {k \in 1..Len(list) :
                               /\ list[k].id = request[t].instance
                               /\ list[k].host # placed[list[k].id]}
            IN  instance_list' =
                    IF stale = {} THEN instance_list
                    ELSE [instance_list EXCEPT ![Cluster(t)][Min(stale)].host =
                              placed[request[t].instance]]
    /\ InMemory
    /\ UNCHANGED <<cluster_dict, node_list, created, request, object, position, todo, writing>>

UpdateAllBegins(t) ==
    /\ At(t, "begin") /\ Op(t, "update_all_clusters")
    /\ todo' = [todo EXCEPT ![t] = {<<c, cluster_dict[c]>> : c \in Clusters}]
    /\ Goto(t, "update all")
    /\ InMemory /\ UNCHANGED <<memory, request, result, object, position, writing>>

\* Cluster.update_instance of one cluster: the first instance that has moved from or
\* to a host outside of the cluster makes it raise, with its record updated.
UpdateAll(t) ==
    /\ At(t, "update all")
    /\ IF todo[t] = {}
       THEN /\ result' = [result EXCEPT ![t] = "succeed"]
            /\ Goto(t, "save") /\ UNCHANGED <<todo, instance_list>>
       ELSE \E pair \in todo[t] :
               LET o == pair[2]
                   list == instance_list[o]
                   raising == {k \in 1..Len(list) :
                                  /\ list[k].host # placed[list[k].id]
                                  /\ ~({list[k].host, placed[list[k].id]} \subseteq NodesOf(o))}
               IN  IF raising = {}
                   THEN /\ instance_list' = [instance_list EXCEPT ![o] = Updated(list, Len(list))]
                        /\ todo' = [todo EXCEPT ![t] = @ \ {pair}]
                        /\ UNCHANGED <<pc, result>>
                   ELSE /\ instance_list' = [instance_list EXCEPT ![o] = Updated(list, Min(raising))]
                        /\ todo' = [todo EXCEPT ![t] = {}]
                        /\ Finish(t, "raises")
    /\ InMemory
    /\ UNCHANGED <<cluster_dict, node_list, created, request, object, position, writing>>

UpdateDb(t) ==
    /\ At(t, "begin") /\ Op(t, "update_db")
    /\ result' = [result EXCEPT ![t] = "succeed"]
    /\ Goto(t, "save")
    /\ InMemory /\ UNCHANGED <<memory, request, object, position, todo, writing>>
----------------------------------------------------------------------------
(***************************************************************************)
(* sync_to_db.  A _check_db that cannot reach the server returns None, and *)
(* every caller skips what it was about to do.                             *)
(***************************************************************************)
Saving == UNCHANGED <<world, memory, start, bounds, history>>

\* The save has returned.  create_cluster goes on with the nodes it was given.
Saved(t) ==
    IF Op(t, "create_cluster") /\ request[t].nodes # {}
    THEN /\ Goto(t, "fill")
         /\ request' = [request EXCEPT ![t].op = "fill_cluster"]
         /\ UNCHANGED result
    ELSE Goto(t, "answer") /\ UNCHANGED <<request, result>>

\* The save has raised: the methods that catch it answer failed.
SaveRaises(t) ==
    /\ Finish(t, IF request[t].op \in {"create_cluster", "update_db", "update_all_clusters"}
                 THEN "raises" ELSE "failed")
    /\ UNCHANGED request

\* Mutant: the tables are not reset before they are written.
SaveStarts_NoReset(t) ==
    /\ At(t, "save")
    /\ IF server
       THEN /\ Goto(t, "write")
            /\ todo' = [todo EXCEPT ![t] = {<<c, cluster_dict[c]>> : c \in Clusters}]
            /\ UNCHANGED <<request, result>>
       ELSE Saved(t) /\ UNCHANGED todo
    /\ Saving /\ UNCHANGED <<tables, cursor, object, position, writing>>

SaveStarts(t) ==
    /\ At(t, "save")
    /\ IF server THEN Goto(t, "reset all") /\ UNCHANGED <<request, result>> ELSE Saved(t)
    /\ Saving /\ UNCHANGED <<tables, cursor, object, position, todo, writing>>

\* Skipping reset_all leaves the old rows where the new ones go.
ResetAll(t) ==
    /\ At(t, "reset all")
    /\ IF server
       THEN Goto(t, "tables") /\ UNCHANGED todo
       ELSE Goto(t, "write") /\ todo' = [todo EXCEPT ![t] = {<<c, cluster_dict[c]>> : c \in Clusters}]
    /\ Saving /\ UNCHANGED <<tables, cursor, request, result, object, position, writing>>

\* show tables: over a closed cursor it raises, and without the server it returns
\* None, which raises when it is iterated.
GetAllTable(t) ==
    /\ At(t, "tables")
    /\ IF server /\ cursor = "open"
       THEN /\ Goto(t, "reset") /\ position' = [position EXCEPT ![t] = 1]
            /\ UNCHANGED <<request, result>>
       ELSE SaveRaises(t) /\ UNCHANGED position
    /\ Saving /\ UNCHANGED <<tables, cursor, object, todo, writing>>

\* DELETE FROM ha_cluster, which cascades, then ha_instance, then ha_node.
ResetTable(t) ==
    /\ At(t, "reset")
    /\ IF server /\ cursor = "closed"
       THEN SaveRaises(t) /\ UNCHANGED <<tables, position, todo>>
       ELSE /\ IF ~server THEN UNCHANGED tables
               ELSE /\ ha_cluster' = IF position[t] = 1 THEN {} ELSE ha_cluster
                    /\ ha_instance' = IF position[t] \in {1, 2} THEN {} ELSE ha_instance
                    /\ ha_node' = IF position[t] \in {1, 3} THEN {} ELSE ha_node
            /\ position' = [position EXCEPT ![t] = @ + 1]
            /\ Goto(t, IF position[t] = 3 THEN "write" ELSE "reset")
            /\ todo' = IF position[t] = 3
                       THEN [todo EXCEPT ![t] = {<<c, cluster_dict[c]>> : c \in Clusters}]
                       ELSE todo
            /\ UNCHANGED <<request, result>>
    /\ Saving /\ UNCHANGED <<cursor, object, writing>>

\* A statement raises: the handler around the loop closes the cursor, for good.
WriteFails(t) ==
    /\ cursor' = "closed"
    /\ todo' = [todo EXCEPT ![t] = {}]
    /\ Saved(t)
    /\ UNCHANGED <<tables, object, position, writing>>

\* _write_db: is the row inserted, skipped, or refused?
Inserts(legal) == server /\ cursor = "open" /\ legal
Refuses(legal) == server /\ ~(cursor = "open" /\ legal)

\* Does the row that these names make up fit its columns, if it comes to the insert?
FitsColumns(names) == server /\ cursor = "open" => names \cap wide = {}

\* Mutant: the row of the cluster itself is not written.
WriteCluster_Skipped(t) ==
    /\ At(t, "write")
    /\ IF todo[t] = {}
       THEN Saved(t) /\ UNCHANGED <<tables, cursor, object, position, todo, writing>>
       ELSE \E pair \in todo[t] :
               /\ todo' = [todo EXCEPT ![t] = @ \ {pair}]
               /\ writing' = [writing EXCEPT ![t] = pair]
               /\ position' = [position EXCEPT ![t] = 1]
               /\ Goto(t, "write nodes")
               /\ UNCHANGED <<tables, cursor, object, request, result>>
    /\ Saving

WriteCluster(t) ==
    /\ At(t, "write")
    /\ IF todo[t] = {}
       THEN Saved(t) /\ UNCHANGED <<tables, cursor, object, position, todo, writing>>
       ELSE \E pair \in todo[t] :
               LET legal == pair[1] \notin ha_cluster
               IN  /\ FitsColumns({pair[1]})
                   /\ IF Refuses(legal) THEN WriteFails(t)
                      ELSE /\ ha_cluster' = IF Inserts(legal) THEN ha_cluster \cup {pair[1]}
                                            ELSE ha_cluster
                           /\ todo' = [todo EXCEPT ![t] = @ \ {pair}]
                           /\ writing' = [writing EXCEPT ![t] = pair]
                           /\ position' = [position EXCEPT ![t] = 1]
                           /\ Goto(t, "write nodes")
                           /\ UNCHANGED <<ha_node, ha_instance, cursor, object, request, result>>
    /\ Saving

\* The list is iterated as it grows and shrinks under the loop.
WriteNode(t) ==
    /\ At(t, "write nodes")
    /\ LET c == writing[t][1]
           list == node_list[writing[t][2]]
           k == position[t]
           legal == c \in ha_cluster /\ \A r \in ha_node : r.node # list[k]
       IN  IF k > Len(list)
           THEN /\ Goto(t, "write instances") /\ position' = [position EXCEPT ![t] = 1]
                /\ UNCHANGED <<tables, cursor, object, todo, writing, request, result>>
           ELSE IF Refuses(legal) THEN WriteFails(t)
           ELSE /\ FitsColumns({list[k]})
                /\ ha_node' = IF Inserts(legal) THEN ha_node \cup {NodeRow(list[k], c)}
                              ELSE ha_node
                /\ position' = [position EXCEPT ![t] = k + 1]
                /\ UNCHANGED <<pc, ha_cluster, ha_instance, cursor, object, todo, writing,
                               request, result>>
    /\ Saving

WriteInstance(t) ==
    /\ At(t, "write instances")
    /\ LET c == writing[t][1]
           list == instance_list[writing[t][2]]
           k == position[t]
           legal == c \in ha_cluster /\ \A r \in ha_instance : r.id # list[k].id
       IN  IF k > Len(list)
           THEN /\ Goto(t, "write")
                /\ UNCHANGED <<tables, cursor, object, position, todo, writing, request, result>>
           ELSE IF Refuses(legal) THEN WriteFails(t)
           ELSE /\ FitsColumns({list[k].id, list[k].host})
                /\ ha_instance' = IF Inserts(legal) THEN ha_instance \cup {InstanceRow(list[k].id, c)}
                                  ELSE ha_instance
                /\ position' = [position EXCEPT ![t] = k + 1]
                /\ UNCHANGED <<pc, ha_cluster, ha_node, cursor, object, todo, writing,
                               request, result>>
    /\ Saving

\* A statement fails although the server was reached just before: the connection
\* breaks, or another thread uses it at the same time.
StatementFails(t) ==
    /\ Fault
    /\ \/ /\ At(t, "tables") \/ At(t, "reset")
          /\ SaveRaises(t)
          /\ UNCHANGED <<cursor, tables, object, position, todo, writing>>
       \/ /\ At(t, "write") \/ At(t, "write nodes") \/ At(t, "write instances")
          /\ WriteFails(t)
    /\ UNCHANGED <<world, memory, start, moved, unsaved>>

\* MySQL refuses a row that does not fit its columns: the handler around the loop takes
\* it for a failure of the database, and the request goes on.
RowTooWide(t) ==
    /\ server /\ cursor = "open"
    /\ \/ At(t, "write") /\ \E pair \in todo[t] : pair[1] \in wide
       \/ /\ At(t, "write nodes") /\ position[t] <= Len(node_list[writing[t][2]])
          /\ node_list[writing[t][2]][position[t]] \in wide
       \/ /\ At(t, "write instances") /\ position[t] <= Len(instance_list[writing[t][2]])
          /\ LET instance == instance_list[writing[t][2]][position[t]]
             IN  {instance.id, instance.host} \cap wide # {}
    /\ WriteFails(t)
    /\ Trouble
    /\ UNCHANGED <<world, memory, start, bounds, moved, unsaved>>
----------------------------------------------------------------------------
sync_to_db(t) ==
    \/ SaveStarts(t) \/ ResetAll(t) \/ GetAllTable(t) \/ ResetTable(t)
    \/ WriteCluster(t) \/ WriteNode(t) \/ WriteInstance(t)

Handle(t) ==
    \/ CreateClusterChecks(t) \/ CreateCluster(t) \/ DeleteCluster(t)
    \/ AddNodeChecks(t) \/ AddNode(t) \/ DeleteNode(t)
    \/ AddInstanceChecks(t) \/ AddInstance(t) \/ AppendInstance(t)
    \/ DeleteInstanceBegins(t) \/ DeleteInstance(t)
    \/ UpdateInstanceHost(t) \/ UpdateAllBegins(t) \/ UpdateAll(t) \/ UpdateDb(t)
    \/ Answer(t)

Load == LoadCluster \/ LoadNodes \/ LoadInstance \/ LoadEnds \/ LoaderGoesOn

Process == Crash \/ sync_from_db \/ sync_from_db_fails

Next ==
    \/ Process \/ Load \/ CloudChanges \/ ServerChanges
    \/ \E t \in Threads : Handle(t) \/ sync_to_db(t) \/ StatementFails(t) \/ RowTooWide(t)
    \/ \E h \in Handlers, r \in Requests : Receive(h, r)

Spec == Init /\ [][Next]_vars
----------------------------------------------------------------------------
Places ==
    {"idle", "begin", "create", "fill", "add nodes", "protect", "append", "delete", "update all",
     "save", "reset all", "tables", "reset", "write", "write nodes", "write instances", "answer"}
Ops == {r.op : r \in Requests} \cup {"fill_cluster", "none"}
InstanceObjects == [id : Instances, host : Nodes \cup {Elsewhere}]

\* Every variable has its type; a thread holds a Cluster object where it uses one.
TypeOK ==
    /\ server \in BOOLEAN /\ alive \in BOOLEAN /\ loading \in BOOLEAN
    /\ pool \subseteq Nodes /\ placed \in [Instances -> Nodes \cup {Elsewhere}]
    /\ cluster_dict \in [ClusterNames -> Objects \cup {None}]
    /\ node_list \in [Objects -> Seq(Nodes)]
    /\ instance_list \in [Objects -> Seq(InstanceObjects)]
    /\ created \in 0..MaxObjects
    /\ ha_cluster \subseteq ClusterNames
    /\ ha_node \subseteq [node : Nodes, cluster : ClusterNames]
    /\ ha_instance \subseteq [id : Instances, cluster : ClusterNames]
    /\ cursor \in {"open", "closed"}
    /\ pc \in [Threads -> Places]
    /\ \A t \in Threads :
          /\ request[t].op \in Ops
          /\ request[t].nodes \subseteq Nodes
          /\ result[t] \in {"none", "succeed", "failed", "raises"}
          /\ todo[t] \subseteq ClusterNames \X Objects
          /\ pc[t] \in {"add nodes", "protect", "append", "delete"} => object[t] \in Objects
          /\ pc[t] \in {"write nodes", "write instances"} => writing[t] \in ClusterNames \X Objects
    /\ requests \in 0..(MaxRequests + 1) /\ events \in 0..MaxEvents

Quiet == \A t \in Threads : pc[t] = "idle"

\* No node and no instance is in two places, and no node in a cluster that has been
\* deleted, as long as every request had the controller for itself.
Once(list) == \A j, k \in 1..Len(list) : list[j] = list[k] => j = k
OneOwner ==
    ~overlapped =>
        /\ \A o \in Objects : Once(node_list[o])
        /\ \A o \in Objects : Once([k \in 1..Len(instance_list[o]) |-> instance_list[o][k].id])
        /\ \A o, p \in Objects : o # p => NodesOf(o) \cap NodesOf(p) = {}
        /\ \A c, d \in Clusters : c # d => Ids(cluster_dict[c]) \cap Ids(cluster_dict[d]) = {}
        /\ \A o \in Objects : node_list[o] # <<>> => \E c \in Clusters : cluster_dict[c] = o

TablesMirror == ha_cluster = ClusterRows /\ ha_node = NodeRows /\ ha_instance = InstanceRows

\* As long as the database did not fail or refuse a row, either two saves have met and
\* closed the cursor, or nothing is lost: what is protected is in the tables whenever no
\* request is under way.  (Only when requests have met and one of them has raised with
\* its change made, and not saved, a node or an instance may be missing.)
CrashLosesNothing ==
    alive /\ ~loading /\ Quiet /\ ~failed /\ cursor = "open" =>
        /\ ClusterRows \subseteq ha_cluster
        /\ ~(overlapped /\ unsaved) => NodeRows \subseteq ha_node /\ InstanceRows \subseteq ha_instance

\* A crash in the middle of a save may lose rows, but brings nothing back: while the
\* rows are written, the tables hold nothing but what is protected.
TornSaveOnlyLoses ==
    \A t \in Threads :
        pc[t] \in {"write", "write nodes", "write instances"} /\ ~overlapped /\ ~hit[t] /\ server =>
            /\ ha_cluster \subseteq ClusterRows /\ ha_node \subseteq NodeRows
            /\ ha_instance \subseteq InstanceRows

\* The cursor, which nothing but a restart opens again, is closed by a fault of the
\* database, a row that is too wide for its columns or two saves that meet, and by
\* nothing else: no other row of a single save is refused.
ClosedOnlyByTrouble == alive /\ cursor = "closed" => overlapped \/ failed

\* A request that had the controller for itself, met no fault of the database and
\* no refusal of a row that is too wide, and is answered with success has been saved,
\* whatever happened before it.
SucceedMeansSaved ==
    [][\A h \in Handlers :
          /\ At(h, "answer") /\ pc'[h] = "idle" /\ alive'
          /\ Hass(request[h].op, result[h]) = "succeed"
          /\ ~overlapped /\ ~hit[h] /\ server
          => TablesMirror]_vars

\* A start that is not disturbed restores what the tables held, but for the nodes that
\* are down and the instances that are not on a node of their cluster; and these are
\* gone from the tables by then.
LoadRestores ==
    [][loading /\ ~loading' /\ alive' /\ ~hit[Loader] /\ ~moved =>
          /\ ClusterRows = read.clusters
          /\ NodeRows = {r \in read.nodes : r.node \in pool}
          /\ InstanceRows = {r \in read.instances : NodeRow(placed[r.id], r.cluster) \in NodeRows}
          /\ TablesMirror]_vars

\* As long as no two requests have met, a request, which checks in one step and changes
\* the lists in later ones, changes who has what as if all at once, and so does a load.
Own == INSTANCE Ownership WITH clusters <- Clusters, nodes <- NodeRows,
                               instances <- InstanceRows
OwnershipImplemented ==
    Own!Init /\ [][overlapped \/ Own!Next]_<<Clusters, NodeRows, InstanceRows>>
=============================================================================
