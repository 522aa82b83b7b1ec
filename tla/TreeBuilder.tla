---------------------------- MODULE TreeBuilder ----------------------------
(***************************************************************************)
(* TreeBuilder.build_tree and BinaryTreeNode: the tree of a row of the     *)
(* dictionary, built one insertion at a time with the left and right       *)
(* references of the code, searched, and walked by __verify.  A recursive  *)
(* call on a child is a step.  LayerTree navigates the same tree without   *)
(* building it; this module shows that the two agree.                      *)
(***************************************************************************)
EXTENDS LayerTree

CONSTANT MaxData  \* bound: the largest value a node may hold

ASSUME MaxDataTyped == MaxData \in Nat

VARIABLES
    tree_structure,  \* the insertion order being followed
    index,           \* how much of it has been inserted
    left, right,     \* the two references of the node of each value
    pc,              \* what is being done
    at, data,        \* the node that the call is at, and its argument
    layers, fault    \* of __verify: the active layers, and the lowest that has failed

tree == <<tree_structure, index, left, right>>
vars == <<tree, pc, at, data, layers, fault>>

Data == 0..MaxData
Nil  == MaxData + 1   \* None

\* A row of the dictionary, or any other order of distinct values.
Orders ==
    UNION {{order \in [1..n -> Data] : \A i, j \in 1..n : i # j => order[i] # order[j]} :
              n \in 1..(MaxData + 1)}

Init ==
    /\ tree_structure \in Orders
    /\ index = 1
    /\ left  = [d \in Data |-> Nil]
    /\ right = [d \in Data |-> Nil]
    /\ pc = "build" /\ at = tree_structure[1] /\ data = tree_structure[1]
    /\ layers = {} /\ fault = Nil

\* The child of the node at that its comparison with data leads to.
Child == IF data < at THEN left[at] ELSE right[at]

\* A method of the root is called with d.
Call(method, d) == pc' = method /\ data' = d /\ at' = tree_structure[1]

Recurse == at' = Child /\ UNCHANGED <<tree, pc, data, layers, fault>>
----------------------------------------------------------------------------
\* build_tree's loop, and the insert that it calls.
InsertNext ==
    /\ pc = "build" /\ index < Len(tree_structure)
    /\ Call("insert", tree_structure[index + 1])
    /\ UNCHANGED <<tree, layers, fault>>

\* Mutant: whether there is a child to go to is not asked.
InsertBelow_NoCheck == pc = "insert" /\ Recurse

InsertBelow == pc = "insert" /\ Child # Nil /\ Recurse

\* Mutant: whether there is a child already is not asked.
InsertHere_Overwrites ==
    /\ pc = "insert"
    /\ IF data < at THEN left'  = [left  EXCEPT ![at] = data] /\ UNCHANGED right
                    ELSE right' = [right EXCEPT ![at] = data] /\ UNCHANGED left
    /\ index' = index + 1 /\ pc' = "build"
    /\ UNCHANGED <<tree_structure, at, data, layers, fault>>

\* Mutant: the new node gets the value of the node it hangs from.
InsertHere_OwnData ==
    /\ pc = "insert" /\ Child = Nil
    /\ IF data < at THEN left'  = [left  EXCEPT ![at] = at] /\ UNCHANGED right
                    ELSE right' = [right EXCEPT ![at] = at] /\ UNCHANGED left
    /\ index' = index + 1 /\ pc' = "build"
    /\ UNCHANGED <<tree_structure, at, data, layers, fault>>

InsertHere ==
    /\ pc = "insert" /\ Child = Nil
    /\ IF data < at THEN left'  = [left  EXCEPT ![at] = data] /\ UNCHANGED right
                    ELSE right' = [right EXCEPT ![at] = data] /\ UNCHANGED left
    /\ index' = index + 1 /\ pc' = "build"
    /\ UNCHANGED <<tree_structure, at, data, layers, fault>>

Ready == pc = "build" /\ index = Len(tree_structure)

\* get_node_by_data: it ends at the node of data, or with a "not found" string.
Search(d) == Ready /\ Call("search", d) /\ UNCHANGED <<tree, layers, fault>>

SearchBelow == pc = "search" /\ at # data /\ Child # Nil /\ Recurse

SearchEnds ==
    /\ pc = "search" /\ (at = data \/ Child = Nil)
    /\ pc' = IF at = data THEN "found" ELSE "not found"
    /\ UNCHANGED <<tree, at, data, layers, fault>>

\* __verify of a node whose layers below f are healthy, and f and every layer above
\* have failed: the layer at hand is searched again for its children.
VerifyBegins(active, f) ==
    /\ Ready /\ <<active, tree_structure>> \in TreeRows
    /\ layers' = active /\ fault' = f
    /\ Call("search", tree_structure[1]) /\ UNCHANGED tree

NextLayer == IF data < fault THEN right[at] ELSE left[at]

VerifyGoesOn ==
    /\ pc = "found" /\ layers # {} /\ NextLayer # Nil
    /\ Call("search", NextLayer) /\ UNCHANGED <<tree, layers, fault>>

VerifyBlames ==
    /\ pc = "found" /\ layers # {} /\ NextLayer = Nil
    /\ pc' = "blamed"
    /\ data' = IF data < fault THEN Min({l \in layers : l > data}) ELSE data
    /\ UNCHANGED <<tree, at, layers, fault>>

Next ==
    \/ InsertNext \/ InsertBelow \/ InsertHere
    \/ (\E d \in Data : Search(d)) \/ SearchBelow \/ SearchEnds
    \/ (\E row \in TreeRows : \E f \in row[1] : VerifyBegins(row[1], f))
    \/ VerifyGoesOn \/ VerifyBlames

Spec == Init /\ [][Next]_vars
----------------------------------------------------------------------------
\* Every variable has its type.
TypeOK ==
    /\ tree_structure \in Orders /\ index \in 1..Len(tree_structure)
    /\ left \in [Data -> Data \cup {Nil}] /\ right \in [Data -> Data \cup {Nil}]
    /\ pc \in {"build", "insert", "search", "found", "not found", "blamed"}
    /\ at \in Data /\ data \in Data \cup Layers
    /\ layers \subseteq Layers /\ fault \in Layers \cup {Nil}

Inserted == SubSeq(tree_structure, 1, index)
ChildOf(subtree) == IF subtree = {} THEN Nil ELSE Inserted[Min(subtree)]

\* Navigating an insertion order is navigating the tree it builds: every node
\* has exactly the children that LayerTree computes from the order.
ChildrenAgree ==
    \A i \in 1..index :
        /\ left[Inserted[i]]  = ChildOf(LeftSubtree(Inserted, i))
        /\ right[Inserted[i]] = ChildOf(RightSubtree(Inserted, i))

\* A search ends at a node exactly when its value has been inserted.
SearchFindsInserted ==
    pc \in {"found", "not found"} =>
        (pc = "found" <=> \E i \in 1..index : tree_structure[i] = data)

\* For every row of the dictionary, walking the tree built from it blames the
\* lowest failed layer, whichever of the active layers that is, and the string
\* "not found" never stands in for a node: the row forgets no layer and the tree
\* tells every two active layers apart.
TreeBlamesLowestFault ==
    layers # {} => pc # "not found" /\ (pc = "blamed" => data = fault)

\* Every call goes on to a node that was inserted after the one it is at, and
\* __verify to a layer inserted after the one at hand: neither comes back to
\* where it was, so each ends.
Later(x, y) ==
    \E i, j \in 1..index : tree_structure[i] = x /\ tree_structure[j] = y /\ i < j

WalksDown ==
    [][/\ pc' = pc => Later(at, at')
       /\ pc = "found" /\ pc' = "search" => Later(data, data')]_vars
=============================================================================
