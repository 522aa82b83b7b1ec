----------------------------- MODULE Ownership -----------------------------
(***************************************************************************)
(* What ResourceManager promises of the clusters: every change is one of   *)
(* these, made at once.  A node or an instance is given only to a cluster  *)
(* that exists and only if no cluster has it, an instance only where there *)
(* are nodes, and a cluster goes only when its nodes have gone.            *)
(***************************************************************************)
CONSTANTS ClusterNames, Nodes, Instances

VARIABLES
    clusters,
    nodes,      \* which cluster has which nodes: a set of rows, as in the tables
    instances   \* the same of the protected instances

vars == <<clusters, nodes, instances>>

NodeRow(n, c) == [node |-> n, cluster |-> c]
InstanceRow(i, c) == [id |-> i, cluster |-> c]

\* No controller runs.
Init == clusters = {} /\ nodes = {} /\ instances = {}

CreateCluster(c) ==
    /\ c \notin clusters
    /\ clusters' = clusters \cup {c}
    /\ UNCHANGED <<nodes, instances>>

DeleteCluster(c) ==
    /\ c \in clusters /\ \A r \in nodes : r.cluster # c
    /\ clusters' = clusters \ {c}
    /\ instances' = {r \in instances : r.cluster # c}
    /\ UNCHANGED nodes

AddNode(n, c) ==
    /\ c \in clusters /\ \A r \in nodes : r.node # n
    /\ nodes' = nodes \cup {NodeRow(n, c)}
    /\ UNCHANGED <<clusters, instances>>

DeleteNode(n, c) ==
    /\ NodeRow(n, c) \in nodes
    /\ nodes' = nodes \ {NodeRow(n, c)}
    /\ UNCHANGED <<clusters, instances>>

AddInstance(i, c) ==
    /\ \A r \in instances : r.id # i
    /\ \E r \in nodes : r.cluster = c
    /\ instances' = instances \cup {InstanceRow(i, c)}
    /\ UNCHANGED <<clusters, nodes>>

DeleteInstance(i, c) ==
    /\ InstanceRow(i, c) \in instances
    /\ instances' = instances \ {InstanceRow(i, c)}
    /\ UNCHANGED <<clusters, nodes>>

\* The controller goes down; the next one makes the clusters of the tables again.
Crash == clusters' = {} /\ nodes' = {} /\ instances' = {}

Next ==
    \/ Crash
    \/ \E c \in ClusterNames :
          \/ CreateCluster(c) \/ DeleteCluster(c)
          \/ \E n \in Nodes : AddNode(n, c) \/ DeleteNode(n, c)
          \/ \E i \in Instances : AddInstance(i, c) \/ DeleteInstance(i, c)

Spec == Init /\ [][Next]_vars
=============================================================================
