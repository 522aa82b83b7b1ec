---------------------------- MODULE MCRegistry ----------------------------
(* Small instances of Registry for TLC. *)
EXTENDS Registry

CONSTANTS c1, c2, n1, n2, i1, i2, h1, h2

TwoClusters == {c1, c2}
TwoNodes == {n1, n2}
TwoInstances == {i1, i2}
TwoHandlers == {h1, h2}
Symmetry == Permutations(TwoClusters) \cup Permutations(TwoNodes) \cup Permutations(TwoHandlers)

NodesInUse == UNION ({NodesOf(o) : o \in Objects} \cup {request[t].nodes : t \in Threads})
Size == created + Cardinality(NodesInUse)

\* Bound on requests that meet: no event of the world before or after, and two clusters
\* without nodes or one cluster.
Meeting == overlapped => events = 0 /\ (created <= 1 \/ Size <= 2)

\* Bound on a request before or after an event: two clusters without nodes, or one with
\* one node; and when a second request follows a fault, one cluster without nodes.
Changing ==
    events > 0 /\ requests > 0 => Size <= (IF requests > 1 /\ ~moved THEN 1 ELSE 2)

\* Bound on the rows that are too wide: one cluster's and one node's, no requests that
\* meet, one cluster with one node, and the server is up.
Broad ==
    wide # {} =>
        /\ Cardinality(wide \cap ClusterNames) = 1 /\ Cardinality(wide \cap Nodes) = 1
        /\ wide \cap Instances = {}
        /\ ~overlapped /\ Size <= 2 /\ server /\ (failed => cursor = "closed")

\* Bound on the second instance: it is beside the first, one cluster with one node, no
\* event, no requests that meet and no row that is too wide.
SecondInUse ==
    \/ \E o \in Objects : i2 \in Ids(o)
    \/ \E t \in Threads : request[t].instance = i2
    \/ \E r \in ha_instance : r.id = i2
Second ==
    IF placed[i2] = Elsewhere THEN ~SecondInUse
    ELSE placed[i2] = placed[i1] /\ events = 0 /\ ~overlapped /\ Size <= 2 /\ wide = {}

\* Bound on a third request: it deletes a node that two have added at once, and
\* there is no other node.
NodeTwice == \E o \in Objects : Len(node_list[o]) > Cardinality(NodesOf(o))
Third ==
    requests = 3 =>
        /\ NodeTwice \/ unsaved
        /\ \A t \in Threads : request[t].instance = None
        /\ Cardinality(NodesInUse) = 1

Narrow == Meeting /\ Changing /\ Broad /\ Second /\ Third
=============================================================================
