---------------------------- MODULE LayerTree ----------------------------
(***************************************************************************)
(* The layers a node is divided into and the binary decision trees the     *)
(* fault detection strategy walks (LayerConfig.py, TreeDictionary.py,      *)
(* TreeBuilder.py, BinaryTreeNode.py).                                     *)
(*                                                                         *)
(* A layer string such as "1011001" is the set of its positions that hold  *)
(* "1".  The tree of a layer string is written, as in the dictionary, as   *)
(* the order in which its nodes are inserted; a node of the tree is its    *)
(* position in that order.                                                 *)
(***************************************************************************)
EXTENDS Integers, Sequences, FiniteSetsExt

HOST_LEVEL_RANGE == 0..3       \* power, hardware, os, network
INSTANCE_LEVEL_RANGE == 4..6   \* VM process, guest os, VM network
Layers == HOST_LEVEL_RANGE \cup INSTANCE_LEVEL_RANGE
HOST_NETWORK_LAYER_NUM == 3
INSTANCE_PROCESS_LAYER_NUM == 4
GUEST_OS_LAYER_NUM == 5
INSTANCE_NETWORK_LAYER_NUM == 6

\* The rows of the dictionary, <<active layers, insertion order>>, by the instance
\* layers that are active.
InstanceRows == {  \* every instance layer is watched
    <<{0, 1, 2, 3, 4, 5, 6}, <<0, 3, 2, 5, 1, 4>>>>, <<{0, 1, 3, 4, 5, 6}, <<0, 3, 1, 5, 4>>>>,
    <<{0, 2, 3, 4, 5, 6}, <<0, 3, 2, 5, 4>>>>, <<{1, 2, 3, 4, 5, 6}, <<3, 1, 5, 2, 4>>>>,
    <<{0, 3, 4, 5, 6}, <<0, 3, 5, 4>>>>, <<{1, 3, 4, 5, 6}, <<3, 1, 5, 4>>>>,
    <<{2, 3, 4, 5, 6}, <<3, 2, 5, 4>>>>, <<{3, 4, 5, 6}, <<3, 5, 4>>>>}

ProcessRows == {  \* the guest os is not
    <<{0, 1, 2, 3, 4, 6}, <<0, 3, 2, 4, 1>>>>, <<{0, 1, 3, 4, 6}, <<0, 3, 1, 4>>>>,
    <<{0, 2, 3, 4, 6}, <<0, 3, 2, 4>>>>, <<{1, 2, 3, 4, 6}, <<3, 1, 4, 2>>>>,
    <<{0, 3, 4, 6}, <<0, 3, 4>>>>, <<{1, 3, 4, 6}, <<3, 1, 4>>>>,
    <<{2, 3, 4, 6}, <<3, 2, 4>>>>, <<{3, 4, 6}, <<3, 4>>>>}

GuestRows == {  \* the VM process is not
    <<{0, 1, 2, 3, 5, 6}, <<0, 3, 2, 5, 1>>>>, <<{0, 1, 3, 5, 6}, <<0, 3, 1, 5>>>>,
    <<{0, 2, 3, 5, 6}, <<0, 3, 2, 5>>>>, <<{1, 2, 3, 5, 6}, <<3, 1, 5, 2>>>>,
    <<{0, 3, 5, 6}, <<0, 3, 5>>>>, <<{1, 3, 5, 6}, <<3, 1, 5>>>>,
    <<{2, 3, 5, 6}, <<3, 2, 5>>>>, <<{3, 5, 6}, <<3, 5>>>>}

NetworkRows == {  \* only the VM network is
    <<{0, 1, 2, 3, 6}, <<0, 3, 2, 1>>>>, <<{0, 1, 3, 6}, <<0, 3, 1>>>>,
    <<{0, 2, 3, 6}, <<0, 3, 2>>>>, <<{1, 2, 3, 6}, <<3, 1, 2>>>>,
    <<{0, 3, 6}, <<0, 3>>>>, <<{1, 3, 6}, <<3, 1>>>>,
    <<{2, 3, 6}, <<3, 2>>>>, <<{3, 6}, <<3>>>>}

HostRows == {  \* no instance layer is watched
    <<{0, 1, 2, 3}, <<0, 2, 1>>>>, <<{0, 1, 3}, <<0, 1>>>>,
    <<{0, 2, 3}, <<0, 2>>>>, <<{1, 2, 3}, <<1, 2>>>>,
    <<{0, 3}, <<0>>>>, <<{1, 3}, <<1>>>>,
    <<{2, 3}, <<2>>>>, <<{3}, <<>>>>}

\* Mutant: the row of the four host layers forgets the os.
TreeRows_NoOs ==
    (InstanceRows \cup ProcessRows \cup GuestRows \cup NetworkRows \cup HostRows
        \cup {<<{0, 1, 2, 3}, <<0, 1>>>>}) \ {<<{0, 1, 2, 3}, <<0, 2, 1>>>>}

TreeRows == InstanceRows \cup ProcessRows \cup GuestRows \cup NetworkRows \cup HostRows

KnownLayerStrings == {row[1] : row \in TreeRows}

TREE_DICTIONARY ==
    [active \in KnownLayerStrings |->
        (CHOOSE row \in TreeRows : row[1] = active)[2]]

(***************************************************************************)
(* BinaryTreeNode.insert sends a new value left or right of every node on  *)
(* its way down, so node j is a descendant of the earlier node i exactly   *)
(* when no node inserted before i lies between their values.               *)
(***************************************************************************)
Separates(z, x, y) == (x < z /\ z < y) \/ (y < z /\ z < x)

\* Mutant: whatever was inserted later is below.
Descendants_AllLater(tree, i) == (i + 1)..Len(tree)

Descendants(tree, i) ==
    {j \in (i + 1)..Len(tree) :
        \A k \in 1..(i - 1) : ~Separates(tree[k], tree[i], tree[j])}

\* The child on either side is the first of these to have been inserted.
LeftSubtree(tree, i)  == {j \in Descendants(tree, i) : tree[j] < tree[i]}
\* Mutant: whatever is greater is on the right.
RightSubtree_AllGreater(tree, i) == {j \in (i + 1)..Len(tree) : tree[j] > tree[i]}
RightSubtree(tree, i) == {j \in Descendants(tree, i) : tree[j] > tree[i]}

\* The layer whose failure starts a verification of these layers; no row holds it.
HighestOf(layers) ==
    IF INSTANCE_NETWORK_LAYER_NUM \in layers THEN INSTANCE_NETWORK_LAYER_NUM
    ELSE HOST_NETWORK_LAYER_NUM
=============================================================================
