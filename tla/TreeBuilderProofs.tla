------------------------- MODULE TreeBuilderProofs -------------------------
(***************************************************************************)
(* The tree that the insertions build is the one that LayerTree navigates, *)
(* for insertion orders of any length: a call on a child goes to the first *)
(* position of the subtree on its side, and what it looks for is on that   *)
(* position's side of every node above.                                    *)
(***************************************************************************)
EXTENDS TreeBuilder, LayerTreeProofs, FiniteSetTheorems, WellFoundedInduction

\* A sequence of distinct numbers.
Distinct(T, n) ==
    /\ n \in Nat /\ T \in [1..n -> Int]
    /\ \A i, j \in 1..n : i # j => T[i] # T[j]

\* No node above the one at position p tells it from d: a call with d comes by.
On(T, p, d) == \A k \in 1..(p - 1) : ~Separates(T[k], T[p], d)

\* What comes by the node at p, and goes on on the same side as d.
With(T, p, d, x) == On(T, p, x) /\ (x < T[p] <=> d < T[p])

\* Of the first m positions, those below p on the side of d.
Toward(T, m, p, d) == {j \in (p + 1)..m : With(T, p, d, T[j])}

\* The first of a set of positions.
First(S, r) == r \in S /\ \A j \in S : r <= j
----------------------------------------------------------------------------
\* A set of positions has a first one, which is the smallest.
LEMMA FirstIsMin ==
    ASSUME NEW n \in Nat, NEW S, S \subseteq 1..n, S # {}
    PROVE  First(S, Min(S)) /\ \A r : First(S, r) => r = Min(S)
<1> DEFINE R == StrictSubsetOrdering(1..n)
           F == FiniteSubsetsOf(1..n)
           T == {S \cap 1..m : m \in S}
<1>1. IsWellFoundedOn(R, F)
  BY FS_StrictSubsetOrderingWellFounded
<1>2. T \subseteq F /\ T # {}
  <2>1. IsFiniteSet(1..n)
    BY FS_Interval
  <2>2. \A U \in SUBSET (1..n) : IsFiniteSet(U)
    BY <2>1, FS_Subset
  <2> QED
    BY <2>2 DEF FiniteSubsetsOf
<1>3. PICK U \in T : \A V \in T : ~(<<V, U>> \in R)
  <2> HIDE DEF R, F, T
  <2> QED
    BY <1>1, <1>2, WFMin
<1>4. PICK m \in S : U = S \cap 1..m
  OBVIOUS
<1>5. ASSUME NEW k \in S, k < m PROVE FALSE
  <2>1. S \cap 1..k \subseteq U /\ m \in U /\ m \notin S \cap 1..k
    BY <1>4, <1>5
  <2>2. <<S \cap 1..k, U>> \in R
    BY <1>4, <2>1 DEF StrictSubsetOrdering
  <2> QED
    BY <1>3, <2>2
<1>6. \A k \in S : m <= k
  BY <1>5
<1>7. Min(S) \in S /\ \A j \in S : Min(S) <= j
  BY <1>6 DEF Min
<1>8. ASSUME NEW r, First(S, r) PROVE r = Min(S)
  <2>1. r \in S /\ r <= Min(S) /\ Min(S) <= r
    BY <1>7, <1>8 DEF First
  <2>2. \A x \in S : x \in Int
    OBVIOUS
  <2>3. \A x, y \in Int : x <= y /\ y <= x => x = y
    OBVIOUS
  <2> QED
    BY <1>7, <2>1, <2>2, <2>3
<1> QED
  BY <1>7, <1>8 DEF First

\* Three numbers on the number line: what lies between the outer two.
LEMMA SameSide ==
    ASSUME NEW z \in Int, NEW x \in Int, NEW y \in Int, NEW w \in Int,
           z # x, ~Separates(z, x, y), ~Separates(z, x, w)
    PROVE  ~Separates(z, y, w)
  BY DEF Separates

\* What is not beyond z does not see what is.
LEMMA BeyondIsHidden ==
    ASSUME NEW z \in Int, NEW x \in Int, NEW y \in Int, NEW w \in Int, NEW v \in Int,
           z # x, Separates(z, x, v), ~Separates(z, x, y), ~Separates(z, x, w)
    PROVE  ~Separates(v, y, w)
  BY DEF Separates

\* A call that goes to the first position on its side still comes by there: what it
\* was with above, it is with below.
LEMMA Descent ==
    ASSUME NEW n, NEW T, Distinct(T, n), NEW m \in 0..n,
           NEW p \in 1..n, NEW d \in Int, On(T, p, d), d # T[p],
           NEW r, First(Toward(T, m, p, d), r)
    PROVE  r \in (p + 1)..m /\ On(T, r, d) /\ On(T, p, T[r]) /\ (T[r] < T[p] <=> d < T[p])
<1>1. /\ r \in (p + 1)..m /\ On(T, p, T[r]) /\ (T[r] < T[p] <=> d < T[p])
      /\ \A j \in (p + 1)..(r - 1) : On(T, p, T[j]) => ~(T[j] < T[p] <=> d < T[p])
  BY DEF First, Toward, With
<1>2. n \in Nat /\ r \in 1..n /\ \A j \in 1..n : T[j] \in Int
  BY <1>1 DEF Distinct
<1>3. ASSUME NEW k \in 1..(r - 1) PROVE ~Separates(T[k], T[r], d)
  <2>1. k \in 1..n /\ T[k] \in Int /\ T[p] \in Int /\ T[r] \in Int
    BY <1>1, <1>2
  <2>2. CASE k \in 1..(p - 1)
    <3>1. T[k] # T[p]
      BY <2>1, <2>2 DEF Distinct
    <3>2. ~Separates(T[k], T[p], T[r]) /\ ~Separates(T[k], T[p], d)
      BY <1>1, <2>2 DEF On
    <3> QED
      BY <2>1, <3>1, <3>2, SameSide
  <2>3. CASE k = p
    BY <1>1, <2>1, <2>3 DEF Separates
  <2>4. CASE k \in (p + 1)..(r - 1) /\ On(T, p, T[k])
    <3>1. ~(T[k] < T[p] <=> d < T[p])
      BY <1>1, <2>4
    <3>2. T[k] # T[p] /\ T[r] # T[p]
      <4>1. k # p /\ r # p
        BY <1>1, <2>4
      <4> QED
        BY <1>2, <2>1, <4>1 DEF Distinct
    <3> QED
      BY <1>1, <2>1, <3>1, <3>2 DEF Separates
  <2>5. CASE k \in (p + 1)..(r - 1) /\ ~On(T, p, T[k])
    <3>1. PICK l \in 1..(p - 1) : Separates(T[l], T[p], T[k])
      BY <2>5 DEF On
    <3>2. l \in 1..n /\ T[l] \in Int /\ T[l] # T[p]
      <4>1. l \in 1..n /\ l # p
        BY <1>2
      <4> QED
        BY <1>2, <4>1 DEF Distinct
    <3>3. ~Separates(T[l], T[p], T[r]) /\ ~Separates(T[l], T[p], d)
      BY <1>1 DEF On
    <3> QED
      BY <2>1, <3>1, <3>2, <3>3, BeyondIsHidden
  <2> QED
    BY <1>1, <2>2, <2>3, <2>4, <2>5
<1> QED
  BY <1>1, <1>3 DEF On

\* The new node at position m hangs from p alone, where there was no one on its side:
\* for any other node it is below, there is an earlier one on that side.
LEMMA OnlyParent ==
    ASSUME NEW n, NEW T, Distinct(T, n), NEW m \in 1..n,
           NEW p \in 1..(m - 1), On(T, p, T[m]), Toward(T, m - 1, p, T[m]) = {},
           NEW i \in 1..(m - 1), i # p, On(T, i, T[m])
    PROVE  \E j \in Toward(T, m - 1, i, T[m]) : TRUE
<1>1. /\ n \in Nat /\ \A j \in 1..n : T[j] \in Int
      /\ p \in 1..n /\ i \in 1..n /\ m \in 1..n
      /\ T[p] # T[i] /\ T[m] # T[i] /\ T[m] # T[p]
  BY DEF Distinct
<1>2. CASE i < p
  <2>1. ASSUME NEW k \in 1..(i - 1) PROVE ~Separates(T[k], T[i], T[p])
    <3>1. k \in 1..n /\ k # i /\ k # p /\ k # m /\ k \in 1..(p - 1)
      BY <1>1, <1>2
    <3>2. T[k] \in Int /\ T[k] # T[i] /\ T[k] # T[p] /\ T[k] # T[m]
      BY <1>1, <3>1 DEF Distinct
    <3>3. ~Separates(T[k], T[i], T[m]) /\ ~Separates(T[k], T[p], T[m])
      BY <3>1 DEF On
    <3> QED
      BY <1>1, <3>2, <3>3 DEF Separates
  <2>2. On(T, i, T[p])
    BY <2>1 DEF On
  <2>3. T[p] < T[i] <=> T[m] < T[i]
    <3>1. ~Separates(T[i], T[p], T[m])
      BY <1>2 DEF On
    <3> QED
      BY <1>1, <3>1 DEF Separates
  <2>4. p \in Toward(T, m - 1, i, T[m])
    BY <1>2, <2>2, <2>3 DEF Toward, With
  <2> QED
    BY <2>4
<1>3. CASE p < i
  <2>1. ASSUME NEW k \in 1..(p - 1) PROVE ~Separates(T[k], T[p], T[i])
    <3>1. k \in 1..n /\ k # i /\ k # p /\ k # m /\ k \in 1..(i - 1)
      BY <1>1, <1>3
    <3>2. T[k] \in Int /\ T[k] # T[i] /\ T[k] # T[p] /\ T[k] # T[m]
      BY <1>1, <3>1 DEF Distinct
    <3>3. ~Separates(T[k], T[i], T[m]) /\ ~Separates(T[k], T[p], T[m])
      BY <3>1 DEF On
    <3> QED
      BY <1>1, <3>2, <3>3 DEF Separates
  <2>2. On(T, p, T[i])
    BY <2>1 DEF On
  <2>3. T[i] < T[p] <=> T[m] < T[p]
    <3>1. ~Separates(T[p], T[i], T[m])
      BY <1>3 DEF On
    <3> QED
      BY <1>1, <3>1 DEF Separates
  <2>4. i \in Toward(T, m - 1, p, T[m])
    BY <1>3, <2>2, <2>3 DEF Toward, With
  <2> QED
    BY <2>4
<1> QED
  BY <1>1, <1>2, <1>3
----------------------------------------------------------------------------
\* What an insertion order is.
LEMMA OrderDistinct ==
    ASSUME NEW T \in Orders
    PROVE  /\ Distinct(T, Len(T)) /\ Len(T) \in 1..(MaxData + 1)
           /\ \A j \in 1..Len(T) : T[j] \in Data
<1>1. PICK n \in 1..(MaxData + 1) :
        T \in {order \in [1..n -> Data] : \A i, j \in 1..n : i # j => order[i] # order[j]}
  BY DEF Orders
<1>2. T \in [1..n -> Data] /\ n \in Nat /\ Data \subseteq Int
  BY <1>1, MaxDataTyped DEF Data
<1>3. T \in Seq(Data) /\ Len(T) = n
  BY <1>2
<1> QED
  BY <1>1, <1>2, <1>3 DEF Distinct

\* The subtrees of LayerTree, over what has been inserted.
LEMMA SubtreesAre ==
    ASSUME NEW T \in Orders, NEW m \in 1..Len(T), NEW i \in 1..m, NEW d \in Int, d # T[i]
    PROVE  LET S == SubSeq(T, 1, m)
           IN  /\ S[i] = T[i]
               /\ d < T[i] => LeftSubtree(S, i) = Toward(T, m, i, d)
               /\ ~(d < T[i]) => RightSubtree(S, i) = Toward(T, m, i, d)
               /\ Toward(T, m, i, d) \subseteq 1..m
               /\ \A j \in 1..m : S[j] = T[j]
<1> DEFINE S == SubSeq(T, 1, m)
<1>1. /\ Distinct(T, Len(T)) /\ Len(T) \in Nat /\ m \in Nat
      /\ \A j \in 1..Len(T) : T[j] \in Int
  BY OrderDistinct DEF Distinct
<1>2. Len(S) = m /\ \A j \in 1..m : S[j] = T[j]
  <2>1. T \in Seq(Int)
    BY <1>1 DEF Distinct
  <2> QED
    BY <1>1, <2>1
<1> HIDE DEF S
<1>3. ASSUME NEW j PROVE j \in Descendants(S, i) <=> j \in (i + 1)..m /\ On(T, i, T[j])
  BY <1>1, <1>2 DEF Descendants, On
<1>4. \A j \in (i + 1)..m : T[j] \in Int /\ T[j] # T[i]
  BY <1>1 DEF Distinct
<1>5. ASSUME d < T[i] PROVE LeftSubtree(S, i) = Toward(T, m, i, d)
  <2>1. \A j : j \in LeftSubtree(S, i) <=> j \in Descendants(S, i) /\ S[j] < S[i]
    BY DEF LeftSubtree, Descendants
  <2>2. \A j : j \in LeftSubtree(S, i) <=> j \in Toward(T, m, i, d)
    BY <1>2, <1>3, <1>5, <2>1 DEF Toward, With
  <2> QED
    BY <2>2
<1>6. ASSUME ~(d < T[i]) PROVE RightSubtree(S, i) = Toward(T, m, i, d)
  <2>1. \A j : j \in RightSubtree(S, i) <=> j \in Descendants(S, i) /\ S[j] > S[i]
    BY DEF RightSubtree, Descendants
  <2>2. \A j \in (i + 1)..m : S[j] > S[i] <=> ~(T[j] < T[i])
    BY <1>1, <1>2, <1>4
  <2>3. \A j : j \in RightSubtree(S, i) <=> j \in Toward(T, m, i, d)
    BY <1>3, <1>6, <2>1, <2>2 DEF Toward, With
  <2> QED
    BY <2>3
<1> QED
  BY <1>2, <1>5, <1>6 DEF Toward, With, S

\* A child is the first of its subtree, and None if there is no one in it.
IsChild(x, T, m, i, d) ==
    \/ Toward(T, m, i, d) = {} /\ x = Nil
    \/ \E r : First(Toward(T, m, i, d), r) /\ x = T[r]

\* The two references of the node at i, among the first m.
Linked(l, r, T, m, i) ==
    /\ IsChild(l[T[i]], T, m, i, T[i] - 1)
    /\ IsChild(r[T[i]], T, m, i, T[i] + 1)

\* The inductive form of ChildrenAgree.
LinkedAll == \A i \in 1..index : Linked(left, right, tree_structure, index, i)

\* A child as a position of the order, and as LayerTree's operators compute it.
LEMMA IsChildOf ==
    ASSUME NEW T \in Orders, NEW m \in 1..Len(T), NEW i \in 1..m, NEW d \in Int, NEW x
    PROVE  LET S == Toward(T, m, i, d)
           IN  IsChild(x, T, m, i, d) <=> x = IF S = {} THEN Nil ELSE SubSeq(T, 1, m)[Min(S)]
<1> DEFINE S == Toward(T, m, i, d)
<1>1. S \subseteq 1..m /\ m \in Nat
  BY OrderDistinct DEF Toward, With
<1>2. \A j \in 1..m : SubSeq(T, 1, m)[j] = T[j]
  <2>1. T[i] \in Int /\ T[i] + 1 \in Int /\ T[i] + 1 # T[i]
    BY OrderDistinct DEF Data
  <2> QED
    BY <2>1, SubtreesAre
<1> HIDE DEF S
<1>3. CASE S = {}
  BY <1>3 DEF IsChild, First, S
<1>4. CASE S # {}
  <2>1. First(S, Min(S)) /\ \A r : First(S, r) => r = Min(S)
    BY <1>1, <1>4, FirstIsMin
  <2>2. Min(S) \in 1..m
    BY <1>1, <2>1 DEF First
  <2> QED
    BY <1>2, <1>4, <2>1, <2>2 DEF IsChild, S
<1> QED
  BY <1>3, <1>4 DEF S

\* The inductive form of ChildrenAgree says the same as ChildrenAgree.
LEMMA LinkedIsAgreement == TypeOK => (LinkedAll <=> ChildrenAgree)
<1> SUFFICES ASSUME TypeOK PROVE LinkedAll <=> ChildrenAgree
  OBVIOUS
<1>1. tree_structure \in Orders /\ index \in 1..Len(tree_structure)
  BY DEF TypeOK
<1>2. ASSUME NEW i \in 1..index
      PROVE  Linked(left, right, tree_structure, index, i) <=>
               /\ left[Inserted[i]]  = ChildOf(LeftSubtree(Inserted, i))
               /\ right[Inserted[i]] = ChildOf(RightSubtree(Inserted, i))
  <2> DEFINE x == tree_structure[i]
  <2>1. x \in Int /\ x - 1 \in Int /\ x + 1 \in Int /\ x - 1 # x /\ x + 1 # x
        /\ x - 1 < x /\ ~(x + 1 < x)
    BY <1>1, OrderDistinct DEF Data
  <2>2. /\ Inserted[i] = x
        /\ LeftSubtree(Inserted, i) = Toward(tree_structure, index, i, x - 1)
        /\ RightSubtree(Inserted, i) = Toward(tree_structure, index, i, x + 1)
    BY <1>1, <2>1, SubtreesAre DEF Inserted
  <2>3. /\ IsChild(left[x], tree_structure, index, i, x - 1) <=>
             left[x] = ChildOf(Toward(tree_structure, index, i, x - 1))
        /\ IsChild(right[x], tree_structure, index, i, x + 1) <=>
             right[x] = ChildOf(Toward(tree_structure, index, i, x + 1))
    BY <1>1, <2>1, IsChildOf DEF ChildOf, Inserted
  <2> QED
    BY <2>2, <2>3 DEF Linked
<1> QED
  BY <1>2 DEF LinkedAll, ChildrenAgree
----------------------------------------------------------------------------
\* Where a call of insert or of get_node_by_data is, and what it is still to find.
Calls ==
    LET T == tree_structure
    IN  /\ pc = "insert" =>
              /\ index < Len(T) /\ data = T[index + 1]
              /\ \E p \in 1..index : T[p] = at /\ On(T, p, data)
        /\ pc \notin {"build", "insert"} => index = Len(T)
        /\ pc = "search" =>
              /\ data \in Data
              /\ \E p \in 1..index :
                    T[p] = at /\ \A q \in 1..index : T[q] = data => p <= q /\ On(T, p, data)
        /\ pc = "found" => at = data /\ \E p \in 1..index : T[p] = at
        /\ pc = "not found" => \A q \in 1..index : T[q] # data

\* No node above the one at position q tells it from the lowest fault f: every layer that
\* was found healthy is below f, and every one that failed is not.
Blames(T, q, f) ==
    \A k \in 1..(q - 1) :
        ~(T[q] < T[k] /\ T[k] < f) /\ ~(f <= T[k] /\ T[k] < T[q])

\* Where __verify is.
Walk ==
    layers # {} =>
        /\ <<layers, tree_structure>> \in TreeRows /\ fault \in layers
        /\ pc \in {"search", "found", "blamed"}
        /\ pc \in {"search", "found"} =>
              \E q \in 1..index : tree_structure[q] = data /\ Blames(tree_structure, q, fault)
        /\ pc = "blamed" => data = fault

\* What has not been inserted has no references yet.
Fresh ==
    \A i \in (index + 1)..Len(tree_structure) :
        left[tree_structure[i]] = Nil /\ right[tree_structure[i]] = Nil

IInv == TypeOK /\ LinkedAll /\ Fresh /\ Calls /\ Walk
----------------------------------------------------------------------------
\* The insertion order, by its positions.
LEMMA OrderTyped ==
    ASSUME TypeOK
    PROVE  /\ tree_structure \in Orders /\ Distinct(tree_structure, Len(tree_structure))
           /\ Len(tree_structure) \in Nat /\ index \in Nat /\ index \in 1..Len(tree_structure)
           /\ \A j \in 1..Len(tree_structure) :
                 tree_structure[j] \in Data /\ tree_structure[j] \in Int /\ tree_structure[j] # Nil
           /\ \A j, k \in 1..Len(tree_structure) : j # k => tree_structure[j] # tree_structure[k]
<1>1. tree_structure \in Orders /\ index \in 1..Len(tree_structure)
  BY DEF TypeOK
<1>2. Distinct(tree_structure, Len(tree_structure)) /\ Len(tree_structure) \in Nat
      /\ \A j \in 1..Len(tree_structure) : tree_structure[j] \in Data
  BY <1>1, OrderDistinct DEF Distinct
<1>3. \A d \in Data : d \in Int /\ d # Nil
  BY MaxDataTyped DEF Data, Nil
<1> QED
  BY <1>1, <1>2, <1>3 DEF Distinct

\* Where a call that is not at its goal goes next.
LEMMA ChildIs ==
    ASSUME TypeOK, LinkedAll, NEW p \in 1..index, tree_structure[p] = at,
           NEW d \in Int, d # at
    PROVE  IsChild(IF d < at THEN left[at] ELSE right[at], tree_structure, index, p, d)
<1> DEFINE T == tree_structure
<1>1. T[p] \in Int /\ at \in Int /\ p \in 1..Len(T)
  BY OrderTyped
<1>2. IsChild(left[T[p]], T, index, p, T[p] - 1) /\ IsChild(right[T[p]], T, index, p, T[p] + 1)
  BY DEF LinkedAll, Linked
<1>3. CASE d < at
  <2>1. d < T[p] <=> T[p] - 1 < T[p]
    BY <1>1, <1>3
  <2>2. Toward(T, index, p, T[p] - 1) = Toward(T, index, p, d)
    BY <2>1 DEF Toward, With
  <2> QED
    BY <1>2, <1>3, <2>2 DEF IsChild
<1>4. CASE ~(d < at)
  <2>1. d < T[p] <=> T[p] + 1 < T[p]
    BY <1>1, <1>4
  <2>2. Toward(T, index, p, T[p] + 1) = Toward(T, index, p, d)
    BY <2>1 DEF Toward, With
  <2> QED
    BY <1>2, <1>4, <2>2 DEF IsChild
<1> QED
  BY <1>3, <1>4

\* ... and it is None only when there is no one on that side.
LEMMA ChildLeads ==
    ASSUME TypeOK, LinkedAll, NEW p \in 1..index, tree_structure[p] = at,
           NEW d \in Int, d # at, NEW x, x = IF d < at THEN left[at] ELSE right[at]
    PROVE  /\ x = Nil => Toward(tree_structure, index, p, d) = {}
           /\ x # Nil => \E r \in (p + 1)..index :
                 First(Toward(tree_structure, index, p, d), r) /\ x = tree_structure[r]
<1>1. IsChild(x, tree_structure, index, p, d)
  BY ChildIs
<1>2. ASSUME NEW r, First(Toward(tree_structure, index, p, d), r)
      PROVE  r \in (p + 1)..index /\ tree_structure[r] # Nil
  BY <1>2, OrderTyped DEF First, Toward, With
<1> QED
  BY <1>1, <1>2 DEF IsChild

\* What an insertion adds to a subtree comes last in it.
LEMMA OldChildStays ==
    ASSUME NEW T, NEW m \in Nat, NEW i \in 1..m, NEW d, NEW x, IsChild(x, T, m, i, d),
           m + 1 \notin Toward(T, m + 1, i, d) \/ Toward(T, m, i, d) # {}
    PROVE  IsChild(x, T, m + 1, i, d)
<1>0. \A j : /\ j \in (i + 1)..(m + 1) <=> (j \in (i + 1)..m \/ j = m + 1)
             /\ j \in (i + 1)..m => j \in Int /\ j <= m + 1
  OBVIOUS
<1>1. \A j : j \in Toward(T, m + 1, i, d) <=>
               j \in Toward(T, m, i, d) \/ (j = m + 1 /\ m + 1 \in Toward(T, m + 1, i, d))
  BY <1>0 DEF Toward
<1>2. CASE m + 1 \notin Toward(T, m + 1, i, d)
  <2>1. \A j : j \in Toward(T, m + 1, i, d) <=> j \in Toward(T, m, i, d)
    BY <1>1, <1>2, Zenon
  <2>2. Toward(T, m + 1, i, d) = Toward(T, m, i, d)
    BY <2>1, Zenon
  <2> QED
    BY <2>2 DEF IsChild
<1>3. CASE Toward(T, m, i, d) # {}
  <2>1. PICK r : First(Toward(T, m, i, d), r) /\ x = T[r]
    BY <1>3 DEF IsChild
  <2>2. r \in (i + 1)..m
    BY <2>1 DEF First, Toward
  <2>3. First(Toward(T, m + 1, i, d), r)
    BY <1>1, <2>1, <2>2 DEF First
  <2> QED
    BY <2>1, <2>3 DEF IsChild
<1> QED
  BY <1>2, <1>3

\* A node added where there was no child is the first of its subtree.
LEMMA NewChildIsFirst ==
    ASSUME NEW T, NEW m \in Nat, NEW i \in 1..m, NEW d,
           m + 1 \in Toward(T, m + 1, i, d), Toward(T, m, i, d) = {}
    PROVE  IsChild(T[m + 1], T, m + 1, i, d)
<1>1. \A j \in (i + 1)..(m + 1) : j = m + 1 \/ j \in (i + 1)..m
  OBVIOUS
<1>2. \A j : j \in Toward(T, m + 1, i, d) <=> j = m + 1
  BY <1>1 DEF Toward
<1> QED
  BY <1>2 DEF IsChild, First
----------------------------------------------------------------------------
\* The tree of the root alone.
LEMMA InitIInv == Init => IInv
<1> SUFFICES ASSUME Init PROVE IInv
  OBVIOUS
<1> DEFINE T == tree_structure
<1>1. T \in Orders /\ index = 1
  BY DEF Init
<1>2. Distinct(T, Len(T)) /\ Len(T) \in 1..(MaxData + 1) /\ \A j \in 1..Len(T) : T[j] \in Data
  BY <1>1, OrderDistinct
<1>3. Len(T) \in Nat /\ 1 \in 1..Len(T)
  BY <1>2, MaxDataTyped
<1>4. TypeOK
  BY <1>1, <1>2, <1>3 DEF Init, TypeOK
<1>5. LinkedAll
  <2>1. Toward(T, 1, 1, T[1] - 1) = {} /\ Toward(T, 1, 1, T[1] + 1) = {}
    BY DEF Toward
  <2>2. left[T[1]] = Nil /\ right[T[1]] = Nil
    BY <1>2, <1>3 DEF Init
  <2>3. \A i \in 1..index : i = 1
    BY <1>1
  <2>4. Linked(left, right, T, index, 1)
    BY <1>1, <2>1, <2>2 DEF Linked, IsChild
  <2> QED
    BY <2>3, <2>4 DEF LinkedAll
<1>6. Fresh /\ Calls /\ Walk
  BY <1>2, <1>3 DEF Init, Fresh, Calls, Walk
<1> QED
  BY <1>4, <1>5, <1>6 DEF IInv

\* A step that leaves the tree alone.
LEMMA TreeStays ==
    ASSUME IInv, UNCHANGED tree
    PROVE  LinkedAll' /\ Fresh'
  BY DEF IInv, tree, LinkedAll, Fresh

\* The loop calls insert of the root with a value that is not in the tree.
LEMMA InsertNextKeepsIInv == ASSUME IInv, InsertNext PROVE IInv'
<1> DEFINE T == tree_structure
<1>1. /\ UNCHANGED tree /\ UNCHANGED <<layers, fault>>
      /\ pc = "build" /\ pc' = "insert" /\ index < Len(T)
      /\ data' = T[index + 1] /\ at' = T[1]
  BY DEF InsertNext, Call
<1>2. index + 1 \in 1..Len(T) /\ 1 \in 1..Len(T) /\ 1 \in 1..index
  BY <1>1, OrderTyped DEF IInv
<1>3. TypeOK'
  BY <1>1, <1>2, OrderTyped DEF IInv, TypeOK, tree
<1>4. On(T, 1, data')
  BY DEF On
<1>5. Calls'
  BY <1>1, <1>2, <1>4 DEF Calls, tree
<1>6. layers' = {}
  BY <1>1 DEF IInv, Walk
<1> QED
  BY <1>1, <1>3, <1>5, <1>6, TreeStays DEF IInv, Walk

\* The child that insert goes on to is on the way to where the value belongs.
LEMMA InsertBelowKeepsIInv == ASSUME IInv, InsertBelow PROVE IInv'
<1> DEFINE T == tree_structure
<1>1. /\ UNCHANGED tree /\ UNCHANGED <<pc, data, layers, fault>>
      /\ pc = "insert" /\ at' = Child /\ Child # Nil
  BY DEF InsertBelow, Recurse
<1>2. TypeOK /\ LinkedAll /\ layers = {}
  BY <1>1 DEF IInv, Walk
<1>3. index < Len(T) /\ data = T[index + 1]
  BY <1>1 DEF IInv, Calls
<1>4. PICK p \in 1..index : T[p] = at /\ On(T, p, data)
  BY <1>1 DEF IInv, Calls
<1>5. index + 1 \in 1..Len(T) /\ p \in 1..Len(T) /\ p # index + 1 /\ index \in 0..Len(T)
  BY <1>2, <1>3, OrderTyped
<1>6. data \in Int /\ data # at
  BY <1>2, <1>3, <1>4, <1>5, OrderTyped
<1>7. PICK r \in (p + 1)..index : First(Toward(T, index, p, data), r) /\ Child = T[r]
  BY <1>1, <1>2, <1>4, <1>6, ChildLeads DEF Child
<1>8. r \in 1..index /\ r \in 1..Len(T)
  BY <1>2, OrderTyped
<1>9. On(T, r, data)
  BY <1>2, <1>4, <1>5, <1>6, <1>7, OrderTyped, Descent
<1>10. TypeOK'
  BY <1>1, <1>2, <1>7, <1>8, OrderTyped DEF TypeOK, tree
<1>11. Calls'
  BY <1>1, <1>3, <1>7, <1>8, <1>9 DEF Calls, tree
<1> QED
  BY <1>1, <1>2, <1>10, <1>11, TreeStays DEF IInv, Walk

\* The reference that an insertion sets, and those that it leaves.
LEMMA InsertHereLinks ==
    ASSUME IInv, InsertHere, NEW i \in 1..index, NEW d \in Int, d # tree_structure[i]
    PROVE  IsChild(IF d < tree_structure[i] THEN left'[tree_structure[i]]
                                            ELSE right'[tree_structure[i]],
                   tree_structure, index + 1, i, d)
<1> DEFINE T == tree_structure
           old == IF d < T[i] THEN left[T[i]] ELSE right[T[i]]
           new == IF d < T[i] THEN left'[T[i]] ELSE right'[T[i]]
<1>1. /\ TypeOK /\ LinkedAll
      /\ pc = "insert" /\ Child = Nil
      /\ index < Len(T) /\ data = T[index + 1]
  BY DEF InsertHere, IInv, Calls
<1>2. PICK p \in 1..index : T[p] = at /\ On(T, p, data)
  BY <1>1 DEF IInv, Calls
<1>3. /\ index + 1 \in 1..Len(T) /\ index \in 1..((index + 1) - 1) /\ (index + 1) - 1 = index
      /\ p \in 1..Len(T) /\ i \in 1..Len(T) /\ p # index + 1 /\ i # index + 1
  BY <1>1, OrderTyped
<1>4. /\ data \in Int /\ T[i] \in Int /\ at \in Int /\ data # at /\ data # T[i]
      /\ T[i] = at <=> i = p
  BY <1>1, <1>2, <1>3, OrderTyped
<1>5. Toward(T, index, p, data) = {}
  <2>1. Child = IF data < at THEN left[at] ELSE right[at]
    BY DEF Child
  <2> QED
    BY <1>1, <1>2, <1>4, <2>1, ChildLeads
<1>6. IsChild(old, T, index, i, d)
  <2>1. CASE d < T[i]
    <3>1. Toward(T, index, i, d) = Toward(T, index, i, T[i] - 1)
      <4>1. d < T[i] <=> T[i] - 1 < T[i]
        BY <1>4, <2>1
      <4> QED
        BY <4>1 DEF Toward, With
    <3>2. IsChild(left[T[i]], T, index, i, T[i] - 1)
      BY <1>1 DEF LinkedAll, Linked
    <3> QED
      BY <2>1, <3>1, <3>2 DEF IsChild
  <2>2. CASE ~(d < T[i])
    <3>1. Toward(T, index, i, d) = Toward(T, index, i, T[i] + 1)
      <4>1. d < T[i] <=> T[i] + 1 < T[i]
        BY <1>4, <2>2
      <4> QED
        BY <4>1 DEF Toward, With
    <3>2. IsChild(right[T[i]], T, index, i, T[i] + 1)
      BY <1>1 DEF LinkedAll, Linked
    <3> QED
      BY <2>2, <3>1, <3>2 DEF IsChild
  <2> QED
    BY <2>1, <2>2
<1>7. new = IF i = p /\ (d < T[i] <=> data < T[i]) THEN data ELSE old
  <2>1. left \in [Data -> Data \cup {Nil}] /\ right \in [Data -> Data \cup {Nil}] /\ at \in Data
    BY <1>1 DEF TypeOK
  <2>2. T[i] \in Data
    BY <1>1, <1>3, OrderTyped
  <2>3. /\ left' = IF data < at THEN [left EXCEPT ![at] = data] ELSE left
        /\ right' = IF data < at THEN right ELSE [right EXCEPT ![at] = data]
    BY DEF InsertHere
  <2>4. CASE data < at
    BY <1>4, <2>1, <2>2, <2>3, <2>4
  <2>5. CASE ~(data < at)
    BY <1>4, <2>1, <2>2, <2>3, <2>5
  <2> QED
    BY <2>4, <2>5
<1> HIDE DEF old, new
<1>8. index + 1 \in Toward(T, index + 1, i, d) <=>
        On(T, i, data) /\ (data < T[i] <=> d < T[i])
  <2>1. index + 1 \in (i + 1)..(index + 1)
    BY <1>1, OrderTyped
  <2> QED
    BY <1>1, <2>1 DEF Toward, With
<1>9. (data < T[i] <=> d < T[i]) => Toward(T, index, i, d) = Toward(T, index, i, data)
  BY DEF Toward, With
<1>10. CASE i = p /\ (d < T[i] <=> data < T[i])
  <2>1. index + 1 \in Toward(T, index + 1, i, d) /\ Toward(T, index, i, d) = {}
    BY <1>2, <1>5, <1>8, <1>9, <1>10
  <2>2. IsChild(T[index + 1], T, index + 1, i, d)
    BY <1>1, <2>1, OrderTyped, NewChildIsFirst
  <2> QED
    BY <1>1, <1>7, <1>10, <2>2 DEF new
<1>11. CASE ~(i = p /\ (d < T[i] <=> data < T[i]))
  <2>1. CASE index + 1 \notin Toward(T, index + 1, i, d)
    <3>1. IsChild(old, T, index + 1, i, d)
      BY <1>1, <1>6, <2>1, OrderTyped, OldChildStays
    <3> QED
      BY <1>7, <1>11, <3>1 DEF new
  <2>2. CASE index + 1 \in Toward(T, index + 1, i, d)
    <3>1. On(T, i, data) /\ (data < T[i] <=> d < T[i]) /\ i # p
      BY <1>8, <1>11, <2>2
    <3>2. \E j \in Toward(T, index, i, data) : TRUE
      <4>1. /\ Distinct(T, Len(T)) /\ p \in 1..((index + 1) - 1) /\ i \in 1..((index + 1) - 1)
            /\ On(T, p, T[index + 1]) /\ On(T, i, T[index + 1])
            /\ Toward(T, (index + 1) - 1, p, T[index + 1]) = {}
        BY <1>1, <1>2, <1>3, <1>5, <3>1, OrderTyped
      <4>2. \E j \in Toward(T, (index + 1) - 1, i, T[index + 1]) : TRUE
        BY <1>3, <3>1, <4>1, OnlyParent
      <4> QED
        BY <1>1, <1>3, <4>2
    <3>3. Toward(T, index, i, d) # {}
      BY <1>9, <3>1, <3>2
    <3>4. IsChild(old, T, index + 1, i, d)
      BY <1>1, <1>6, <3>3, OrderTyped, OldChildStays
    <3> QED
      BY <1>7, <1>11, <3>4 DEF new
  <2> QED
    BY <2>1, <2>2
<1> QED
  BY <1>10, <1>11

\* The node that is hung here is the first of its subtree, and of no other one.
LEMMA InsertHereKeepsIInv == ASSUME IInv, InsertHere PROVE IInv'
<1> DEFINE T == tree_structure
<1>1. /\ UNCHANGED <<tree_structure, at, data, layers, fault>>
      /\ pc = "insert" /\ pc' = "build" /\ index' = index + 1
  BY DEF InsertHere
<1>2. /\ TypeOK /\ Fresh /\ index < Len(T) /\ data = T[index + 1] /\ layers = {}
      /\ index + 1 \in 1..Len(T) /\ index \in Nat
  <2>1. TypeOK /\ Fresh /\ index < Len(T) /\ data = T[index + 1] /\ layers = {}
    BY <1>1 DEF IInv, Calls, Walk
  <2> QED
    BY <2>1, OrderTyped
<1>3. /\ left' = IF data < at THEN [left EXCEPT ![at] = data] ELSE left
      /\ right' = IF data < at THEN right ELSE [right EXCEPT ![at] = data]
  BY DEF InsertHere
<1>4. /\ left \in [Data -> Data \cup {Nil}] /\ right \in [Data -> Data \cup {Nil}]
      /\ at \in Data /\ data \in Data
  BY <1>2, OrderTyped DEF TypeOK
<1>5. TypeOK'
  <2>1. left' \in [Data -> Data \cup {Nil}] /\ right' \in [Data -> Data \cup {Nil}]
    BY <1>3, <1>4
  <2> QED
    BY <1>1, <1>2, <2>1 DEF TypeOK
<1>6. \E p \in 1..index : T[p] = at
  BY <1>1 DEF IInv, Calls
<1>7. \A i \in (index + 1)..Len(T) : left'[T[i]] = left[T[i]] /\ right'[T[i]] = right[T[i]]
  <2>1. ASSUME NEW i \in (index + 1)..Len(T) PROVE T[i] # at /\ T[i] \in Data
    <3>1. PICK p \in 1..index : T[p] = at
      BY <1>6
    <3>2. i \in 1..Len(T) /\ p \in 1..Len(T) /\ i # p
      BY <1>2, OrderTyped
    <3> QED
      BY <1>2, <3>1, <3>2, OrderTyped
  <2> QED
    BY <1>3, <1>4, <2>1
<1>8. Fresh'
  <2>1. \A i \in ((index + 1) + 1)..Len(T) : i \in (index + 1)..Len(T)
    BY <1>2, OrderTyped
  <2> QED
    BY <1>1, <1>2, <1>7, <2>1 DEF Fresh
<1>9. LinkedAll'
  <2>1. ASSUME NEW i \in 1..index PROVE Linked(left', right', T, index + 1, i)
    <3>1. /\ T[i] \in Int /\ T[i] - 1 \in Int /\ T[i] + 1 \in Int
          /\ T[i] - 1 < T[i] /\ ~(T[i] + 1 < T[i]) /\ T[i] - 1 # T[i] /\ T[i] + 1 # T[i]
      BY <1>2, OrderTyped
    <3>2. IsChild(left'[T[i]], T, index + 1, i, T[i] - 1)
      BY <3>1, InsertHereLinks
    <3>3. IsChild(right'[T[i]], T, index + 1, i, T[i] + 1)
      BY <3>1, InsertHereLinks
    <3> QED
      BY <3>2, <3>3 DEF Linked
  <2>2. Linked(left', right', T, index + 1, index + 1)
    <3>1. \A d : Toward(T, index + 1, index + 1, d) = {}
      BY <1>2 DEF Toward
    <3>2. index + 1 \in (index + 1)..Len(T)
      BY <1>2, OrderTyped
    <3>3. left'[T[index + 1]] = Nil /\ right'[T[index + 1]] = Nil
      BY <1>2, <1>7, <3>2 DEF Fresh
    <3> QED
      BY <3>1, <3>3 DEF Linked, IsChild
  <2>3. \A i \in 1..(index + 1) : i \in 1..index \/ i = index + 1
    BY <1>2
  <2> QED
    BY <1>1, <2>1, <2>2, <2>3 DEF LinkedAll
<1> QED
  BY <1>1, <1>2, <1>5, <1>8, <1>9 DEF IInv, Calls, Walk
----------------------------------------------------------------------------
\* A search starts at the root, on the way to every value.
LEMMA SearchKeepsIInv == ASSUME IInv, NEW d \in Data, Search(d) PROVE IInv'
<1> DEFINE T == tree_structure
<1>1. /\ UNCHANGED tree /\ UNCHANGED <<layers, fault>>
      /\ pc = "build" /\ index = Len(T)
      /\ pc' = "search" /\ data' = d /\ at' = T[1]
  BY DEF Search, Call, Ready
<1>2. TypeOK /\ layers = {} /\ 1 \in 1..index /\ 1 \in 1..Len(T)
  BY <1>1, OrderTyped DEF IInv, Walk
<1>3. TypeOK'
  BY <1>1, <1>2, OrderTyped DEF TypeOK, tree
<1>4. Calls'
  <2>1. \A q \in 1..index : 1 <= q /\ On(T, 1, d)
    BY DEF On
  <2> QED
    BY <1>1, <1>2, <2>1 DEF Calls, tree
<1> QED
  BY <1>1, <1>2, <1>3, <1>4, TreeStays DEF IInv, Walk

\* A search goes to where the node it looks for is, if there is one.
LEMMA SearchGoesBy ==
    ASSUME IInv, pc = "search", at # data
    PROVE  \E p \in 1..index :
              /\ tree_structure[p] = at
              /\ Child = Nil => \A q \in 1..index : tree_structure[q] # data
              /\ Child # Nil => \E r \in (p + 1)..index :
                    /\ Child = tree_structure[r]
                    /\ \A q \in 1..index :
                          tree_structure[q] = data => r <= q /\ On(tree_structure, r, data)
<1> DEFINE T == tree_structure
<1>1. TypeOK /\ LinkedAll /\ data \in Data
  BY DEF IInv, Calls
<1>2. PICK p \in 1..index :
        T[p] = at /\ \A q \in 1..index : T[q] = data => p <= q /\ On(T, p, data)
  BY DEF IInv, Calls
<1>3. data \in Int /\ p \in 1..Len(T) /\ index \in 0..Len(T) /\ Child = IF data < at THEN left[at] ELSE right[at]
  BY <1>1, OrderTyped, MaxDataTyped DEF Data, Child
<1>4. ASSUME NEW q \in 1..index, T[q] = data
      PROVE  q \in Toward(T, index, p, data) /\ On(T, p, data)
  <2>1. p <= q /\ On(T, p, data) /\ p # q
    BY <1>2, <1>4
  <2>2. q \in (p + 1)..index
    BY <1>1, <2>1, OrderTyped
  <2> QED
    BY <1>4, <2>1, <2>2 DEF Toward, With
<1>5. /\ Child = Nil => Toward(T, index, p, data) = {}
      /\ Child # Nil => \E r \in (p + 1)..index :
            First(Toward(T, index, p, data), r) /\ Child = T[r]
  BY <1>1, <1>2, <1>3, ChildLeads
<1>6. CASE Child = Nil
  BY <1>2, <1>4, <1>5, <1>6
<1>7. CASE Child # Nil
  <2>1. PICK r \in (p + 1)..index : First(Toward(T, index, p, data), r) /\ Child = T[r]
    BY <1>5, <1>7
  <2>2. ASSUME NEW q \in 1..index, T[q] = data PROVE r <= q /\ On(T, r, data)
    <3>1. q \in Toward(T, index, p, data) /\ On(T, p, data)
      BY <1>4, <2>2
    <3>2. r <= q
      BY <2>1, <3>1 DEF First
    <3>3. On(T, r, data)
      BY <1>1, <1>2, <1>3, <2>1, <3>1, OrderTyped, Descent
    <3> QED
      BY <3>2, <3>3
  <2> QED
    BY <1>2, <1>7, <2>1, <2>2
<1> QED
  BY <1>6, <1>7

\* The child that a search goes on to is on the way to its value.
LEMMA SearchBelowKeepsIInv == ASSUME IInv, SearchBelow PROVE IInv'
<1> DEFINE T == tree_structure
<1>1. /\ UNCHANGED tree /\ UNCHANGED <<pc, data, layers, fault>>
      /\ pc = "search" /\ at' = Child /\ Child # Nil /\ at # data
  BY DEF SearchBelow, Recurse
<1>2. TypeOK /\ index = Len(T) /\ data \in Data
  BY <1>1 DEF IInv, Calls
<1>3. PICK p \in 1..index : \E r \in (p + 1)..index :
        Child = T[r] /\ \A q \in 1..index : T[q] = data => r <= q /\ On(T, r, data)
  BY <1>1, SearchGoesBy
<1>4. PICK r \in (p + 1)..index :
        Child = T[r] /\ \A q \in 1..index : T[q] = data => r <= q /\ On(T, r, data)
  BY <1>3
<1>5. r \in 1..index /\ r \in 1..Len(T)
  BY <1>2, OrderTyped
<1>6. TypeOK'
  BY <1>1, <1>2, <1>4, <1>5, OrderTyped DEF TypeOK, tree
<1>7. Calls'
  BY <1>1, <1>2, <1>4, <1>5 DEF Calls, tree
<1>8. Walk'
  BY <1>1 DEF IInv, Walk, tree
<1> QED
  BY <1>1, <1>6, <1>7, <1>8, TreeStays DEF IInv

\* A search that ends has come by the node of its value, if there is one.
LEMMA SearchEndsKeepsIInv == ASSUME IInv, SearchEnds PROVE IInv'
<1> DEFINE T == tree_structure
<1>1. /\ UNCHANGED tree /\ UNCHANGED <<at, data, layers, fault>>
      /\ pc = "search" /\ (at = data \/ Child = Nil)
      /\ pc' = IF at = data THEN "found" ELSE "not found"
  BY DEF SearchEnds
<1>2. TypeOK /\ index = Len(T) /\ \E p \in 1..index : T[p] = at
  BY <1>1 DEF IInv, Calls
<1>3. at # data => \A q \in 1..index : T[q] # data
  BY <1>1, SearchGoesBy
<1>4. TypeOK'
  BY <1>1, <1>2 DEF TypeOK, tree
<1>5. Calls'
  <2>1. CASE at = data
    BY <1>1, <1>2, <2>1 DEF Calls, tree
  <2>2. CASE at # data
    BY <1>1, <1>2, <1>3, <2>2 DEF Calls, tree
  <2> QED
    BY <2>1, <2>2
<1>6. Walk'
  <2>1. CASE at = data
    BY <1>1, <2>1 DEF IInv, Walk, tree
  <2>2. CASE at # data
    BY <1>1, <1>3, <2>2 DEF IInv, Walk, tree
  <2> QED
    BY <2>1, <2>2
<1> QED
  BY <1>1, <1>4, <1>5, <1>6, TreeStays DEF IInv
----------------------------------------------------------------------------
\* What the rows say of a verification of their layers.
LEMMA RowOfWalk ==
    ASSUME NEW active, NEW T, <<active, T>> \in TreeRows
    PROVE  /\ active \subseteq 0..6 /\ HighestOf(active) \in 0..6
           /\ \A l \in active : l <= HighestOf(active)
           /\ \A i \in 1..Len(T) : T[i] \in active /\ T[i] # HighestOf(active)
           /\ \A l \in active : l # HighestOf(active) => \E i \in 1..Len(T) : T[i] = l
<1>1. RowComplete(active, T)
  <2>1. RowComplete(<<active, T>>[1], <<active, T>>[2])
    BY RowsComplete
  <2> QED
    BY <2>1
<1>2. WellFormed(active)
  BY <1>1 DEF RowComplete
<1>3. /\ active \subseteq 0..6 /\ HighestOf(active) \in 0..6
      /\ \A l \in active : l <= HighestOf(active)
  BY <1>2 DEF WellFormed, HighestOf, INSTANCE_NETWORK_LAYER_NUM, HOST_NETWORK_LAYER_NUM
<1> QED
  BY <1>1, <1>3 DEF RowComplete

\* The walk of __verify begins at the root, below which every active layer is.
LEMMA VerifyBeginsKeepsIInv ==
    ASSUME IInv, NEW row \in TreeRows, NEW f \in row[1], VerifyBegins(row[1], f)
    PROVE  IInv'
<1> DEFINE T == tree_structure
<1>1. /\ UNCHANGED tree /\ layers' = row[1] /\ fault' = f
      /\ pc = "build" /\ index = Len(T) /\ <<row[1], T>> \in TreeRows
      /\ pc' = "search" /\ data' = T[1] /\ at' = T[1]
  BY DEF VerifyBegins, Call, Ready
<1>2. TypeOK /\ 1 \in 1..index /\ 1 \in 1..Len(T) /\ T[1] \in Data
  BY OrderTyped DEF IInv
<1>3. layers' \subseteq Layers /\ fault' \in Layers
  <2>1. row[1] \subseteq 0..6
    BY <1>1, RowOfWalk
  <2> QED
    BY <1>1, <2>1 DEF Layers, HOST_LEVEL_RANGE, INSTANCE_LEVEL_RANGE
<1>4. TypeOK'
  BY <1>1, <1>2, <1>3 DEF TypeOK, tree
<1>5. Calls'
  <2>1. \A q \in 1..index : 1 <= q /\ On(T, 1, T[1])
    BY DEF On
  <2> QED
    BY <1>1, <1>2, <2>1 DEF Calls, tree
<1>6. Walk'
  <2>1. Blames(T, 1, f)
    BY DEF Blames
  <2> QED
    BY <1>1, <1>2, <2>1 DEF Walk, tree
<1> QED
  BY <1>1, <1>4, <1>5, <1>6, TreeStays DEF IInv

\* The walk that goes to the side of the fault keeps it on its side.
LEMMA BlameGoesDown ==
    ASSUME NEW n, NEW T, Distinct(T, n), NEW m \in 0..n, NEW p \in 1..n,
           NEW f \in Int, Blames(T, p, f),
           NEW d \in Int, d < T[p] <=> f <= T[p], NEW r, First(Toward(T, m, p, d), r)
    PROVE  r \in (p + 1)..m /\ Blames(T, r, f)
<1>1. /\ r \in (p + 1)..m /\ On(T, p, T[r]) /\ (T[r] < T[p] <=> d < T[p])
      /\ \A j \in (p + 1)..(r - 1) : On(T, p, T[j]) => ~(T[j] < T[p] <=> d < T[p])
  BY DEF First, Toward, With
<1>2. /\ n \in Nat /\ r \in 1..n /\ \A j \in 1..n : T[j] \in Int
      /\ \A j \in 1..n : j # p => T[j] # T[p]
  BY <1>1 DEF Distinct
<1>3. T[p] \in Int /\ T[r] \in Int /\ T[r] # T[p] /\ (T[r] < T[p] <=> f <= T[p])
  BY <1>1, <1>2
<1>4. ASSUME NEW k \in 1..(r - 1)
      PROVE  ~(T[r] < T[k] /\ T[k] < f) /\ ~(f <= T[k] /\ T[k] < T[r])
  <2>1. k \in 1..n /\ T[k] \in Int
    BY <1>1, <1>2
  <2>2. CASE k \in 1..(p - 1)
    <3>1. ~Separates(T[k], T[p], T[r]) /\ T[k] # T[p]
      BY <1>1, <1>2, <2>1, <2>2 DEF On
    <3>2. ~(T[p] < T[k] /\ T[k] < f) /\ ~(f <= T[k] /\ T[k] < T[p])
      BY <2>2 DEF Blames
    <3> QED
      BY <1>3, <2>1, <3>1, <3>2 DEF Separates
  <2>3. CASE k = p
    BY <1>3, <2>3
  <2>4. CASE k \in (p + 1)..(r - 1) /\ On(T, p, T[k])
    <3>1. ~(T[k] < T[p] <=> f <= T[p]) /\ T[k] # T[p]
      BY <1>1, <1>2, <2>1, <2>4
    <3> QED
      BY <1>3, <2>1, <3>1
  <2>5. CASE k \in (p + 1)..(r - 1) /\ ~On(T, p, T[k])
    <3>1. PICK l \in 1..(p - 1) : Separates(T[l], T[p], T[k])
      BY <2>5 DEF On
    <3>2. l \in 1..n /\ T[l] \in Int /\ T[l] # T[p]
      BY <1>2
    <3>3. ~Separates(T[l], T[p], T[r])
      BY <1>1 DEF On
    <3>4. ~(T[p] < T[l] /\ T[l] < f) /\ ~(f <= T[l] /\ T[l] < T[p])
      BY DEF Blames
    <3> QED
      BY <1>3, <2>1, <3>1, <3>2, <3>3, <3>4 DEF Separates
  <2> QED
    BY <1>1, <2>2, <2>3, <2>4, <2>5
<1> QED
  BY <1>1, <1>4 DEF Blames

\* The reference that __verify follows.
LEMMA NextLayerLeads ==
    ASSUME IInv, pc = "found", layers # {}
    PROVE  \E p \in 1..index : \E d \in Int :
              /\ tree_structure[p] = at /\ at = data /\ Blames(tree_structure, p, fault)
              /\ fault \in Int /\ (d < at <=> fault <= at)
              /\ NextLayer = Nil => Toward(tree_structure, index, p, d) = {}
              /\ NextLayer # Nil => \E r \in (p + 1)..index :
                    First(Toward(tree_structure, index, p, d), r)
                    /\ NextLayer = tree_structure[r]
<1> DEFINE T == tree_structure
           d == IF data < fault THEN at + 1 ELSE at - 1
<1>1. TypeOK /\ LinkedAll /\ at = data /\ <<layers, T>> \in TreeRows /\ fault \in layers
  BY DEF IInv, Calls, Walk
<1>2. PICK p \in 1..index : T[p] = data /\ Blames(T, p, fault)
  BY DEF IInv, Walk
<1>3. fault \in Int /\ at \in Int /\ p \in 1..Len(T)
  <2>1. fault \in Int
    BY <1>1, RowOfWalk
  <2> QED
    BY <1>1, <1>2, <2>1, OrderTyped
<1>4. d \in Int /\ d # at /\ (d < at <=> fault <= at)
  BY <1>1, <1>3
<1>5. NextLayer = IF d < at THEN left[at] ELSE right[at]
  BY <1>1, <1>3 DEF NextLayer
<1> HIDE DEF d
<1>6. /\ NextLayer = Nil => Toward(T, index, p, d) = {}
      /\ NextLayer # Nil => \E r \in (p + 1)..index :
            First(Toward(T, index, p, d), r) /\ NextLayer = T[r]
  BY <1>1, <1>2, <1>4, <1>5, ChildLeads
<1> QED
  BY <1>1, <1>2, <1>3, <1>4, <1>6

\* __verify goes on towards the lowest failed layer.
LEMMA VerifyGoesOnKeepsIInv == ASSUME IInv, VerifyGoesOn PROVE IInv'
<1> DEFINE T == tree_structure
<1>1. /\ UNCHANGED tree /\ UNCHANGED <<layers, fault>> /\ layers # {}
      /\ pc = "found" /\ NextLayer # Nil
      /\ pc' = "search" /\ data' = NextLayer /\ at' = T[1]
  BY DEF VerifyGoesOn, Call
<1>2. TypeOK /\ index = Len(T) /\ 1 \in 1..index
  BY <1>1, OrderTyped DEF IInv, Calls
<1>3. PICK p \in 1..index, d \in Int :
        /\ T[p] = at /\ at = data /\ Blames(T, p, fault)
        /\ fault \in Int /\ (d < at <=> fault <= at)
        /\ \E r \in (p + 1)..index : First(Toward(T, index, p, d), r) /\ NextLayer = T[r]
  BY <1>1, NextLayerLeads
<1>4. PICK r \in (p + 1)..index : First(Toward(T, index, p, d), r) /\ NextLayer = T[r]
  BY <1>3
<1>5. r \in 1..index /\ p \in 1..Len(T) /\ index \in 0..Len(T)
  BY <1>2, OrderTyped
<1>6. Blames(T, r, fault)
  BY <1>2, <1>3, <1>4, <1>5, OrderTyped, BlameGoesDown
<1>7. TypeOK' /\ data' \in Data
  BY <1>1, <1>2, <1>4, <1>5, OrderTyped DEF TypeOK, tree
<1>8. Calls'
  <2>1. \A q \in 1..index : 1 <= q /\ On(T, 1, data')
    BY DEF On
  <2> QED
    BY <1>1, <1>2, <1>7, <2>1 DEF Calls, tree
<1>9. Walk'
  BY <1>1, <1>4, <1>5, <1>6 DEF IInv, Walk, tree
<1> QED
  BY <1>1, <1>7, <1>8, <1>9, TreeStays DEF IInv

\* Where the walk ends, no layer of the tree lies between it and the fault.
LEMMA NoLayerBetween ==
    ASSUME NEW n, NEW T, Distinct(T, n), NEW p \in 1..n, NEW f \in Int, Blames(T, p, f),
           NEW d \in Int, d < T[p] <=> f <= T[p], Toward(T, n, p, d) = {},
           NEW j \in 1..n, j # p
    PROVE  ~(T[p] < T[j] /\ T[j] < f) /\ ~(f <= T[j] /\ T[j] < T[p])
<1>1. /\ n \in Nat /\ \A k \in 1..n : T[k] \in Int
      /\ T[p] \in Int /\ T[j] \in Int /\ T[j] # T[p]
  BY DEF Distinct
<1>2. CASE j < p
  BY <1>2 DEF Blames
<1>3. CASE p < j
  <2> SUFFICES ASSUME (T[p] < T[j] /\ T[j] < f) \/ (f <= T[j] /\ T[j] < T[p])
               PROVE  FALSE
    OBVIOUS
  <2>1. ASSUME NEW k \in 1..(p - 1) PROVE ~Separates(T[k], T[p], T[j])
    <3>1. T[k] \in Int
      BY <1>1
    <3>2. ~(T[p] < T[k] /\ T[k] < f) /\ ~(f <= T[k] /\ T[k] < T[p])
      BY DEF Blames
    <3> QED
      BY <1>1, <3>1, <3>2 DEF Separates
  <2>2. T[j] < T[p] <=> d < T[p]
    BY <1>1
  <2>3. j \in Toward(T, n, p, d)
    BY <1>3, <2>1, <2>2 DEF Toward, With, On
  <2> QED
    BY <2>3
<1> QED
  BY <1>2, <1>3

\* Where __verify cannot go on, it blames the lowest failed layer.
LEMMA VerifyBlamesKeepsIInv == ASSUME IInv, VerifyBlames PROVE IInv'
<1> DEFINE T == tree_structure
           above == {l \in layers : l > data}
<1>1. /\ UNCHANGED tree /\ UNCHANGED <<at, layers, fault>> /\ layers # {}
      /\ pc = "found" /\ pc' = "blamed" /\ NextLayer = Nil
      /\ data' = IF data < fault THEN Min(above) ELSE data
  BY DEF VerifyBlames
<1>2. TypeOK /\ index = Len(T) /\ <<layers, T>> \in TreeRows /\ fault \in layers
  BY <1>1 DEF IInv, Calls, Walk
<1>3. PICK p \in 1..index, d \in Int :
        /\ T[p] = at /\ at = data /\ Blames(T, p, fault)
        /\ fault \in Int /\ (d < at <=> fault <= at)
        /\ Toward(T, index, p, d) = {}
  BY <1>1, NextLayerLeads
<1>4. /\ layers \subseteq 0..6 /\ HighestOf(layers) \in 0..6
      /\ \A l \in layers : l <= HighestOf(layers)
      /\ \A i \in 1..Len(T) : T[i] \in layers /\ T[i] # HighestOf(layers)
      /\ \A l \in layers : l # HighestOf(layers) => \E i \in 1..Len(T) : T[i] = l
  BY <1>2, RowOfWalk
<1>5. data \in layers /\ data # HighestOf(layers) /\ data \in 0..6 /\ fault \in 0..6
  BY <1>2, <1>3, <1>4
<1>6. ASSUME NEW l \in layers, l # HighestOf(layers), l # data
      PROVE  ~(data < l /\ l < fault) /\ ~(fault <= l /\ l < data)
  <2>1. PICK j \in 1..Len(T) : T[j] = l
    BY <1>4, <1>6
  <2>2. j # p /\ p \in 1..Len(T)
    BY <1>2, <1>3, <1>6, <2>1
  <2> QED
    BY <1>2, <1>3, <2>1, <2>2, OrderTyped, NoLayerBetween
<1>7. data' = fault
  <2>1. CASE data < fault
    <3>0. \A l \in layers : l \in 0..8
      BY <1>4
    <3>1. fault \in above /\ above \in SUBSET (0..8)
      BY <1>2, <1>5, <2>1, <3>0
    <3>2. Min(above) \in above /\ Min(above) <= fault
      BY <3>1, MinOfLayers
    <3>3. ASSUME Min(above) < fault PROVE FALSE
      <4>1. Min(above) \in layers /\ Min(above) \in 0..6 /\ data < Min(above)
        BY <1>4, <1>5, <3>2
      <4>2. Min(above) # HighestOf(layers)
        BY <1>2, <1>4, <1>5, <3>3, <4>1
      <4> QED
        BY <1>5, <1>6, <3>3, <4>1, <4>2
    <3>4. Min(above) \in 0..8
      BY <3>1, <3>2
    <3>5. Min(above) = fault
      BY <1>5, <3>2, <3>3, <3>4
    <3> QED
      BY <1>1, <2>1, <3>5
  <2>2. CASE ~(data < fault)
    <3>1. fault # HighestOf(layers)
      BY <1>4, <1>5, <2>2
    <3>2. fault = data
      BY <1>2, <1>5, <1>6, <2>2, <3>1
    <3> QED
      BY <1>1, <2>2, <3>2
  <2> QED
    BY <2>1, <2>2
<1>8. TypeOK'
  <2>1. data' \in Layers
    BY <1>5, <1>7 DEF Layers, HOST_LEVEL_RANGE, INSTANCE_LEVEL_RANGE
  <2> QED
    BY <1>1, <1>2, <2>1 DEF TypeOK, tree
<1>9. Calls' /\ Walk'
  BY <1>1, <1>2, <1>7 DEF Calls, Walk, tree
<1> QED
  BY <1>1, <1>8, <1>9, TreeStays DEF IInv
----------------------------------------------------------------------------
\* Every step keeps the invariant.
LEMMA NextKeepsIInv == IInv /\ [Next]_vars => IInv'
<1> SUFFICES ASSUME IInv, [Next]_vars PROVE IInv'
  OBVIOUS
<1>1. CASE UNCHANGED vars
  BY <1>1, TreeStays DEF vars, tree, IInv, TypeOK, Calls, Walk
<1>2. CASE InsertNext
  BY <1>2, InsertNextKeepsIInv
<1>3. CASE InsertBelow
  BY <1>3, InsertBelowKeepsIInv
<1>4. CASE InsertHere
  BY <1>4, InsertHereKeepsIInv
<1>5. CASE \E d \in Data : Search(d)
  BY <1>5, SearchKeepsIInv
<1>6. CASE SearchBelow
  BY <1>6, SearchBelowKeepsIInv
<1>7. CASE SearchEnds
  BY <1>7, SearchEndsKeepsIInv
<1>8. CASE \E row \in TreeRows : \E f \in row[1] : VerifyBegins(row[1], f)
  BY <1>8, VerifyBeginsKeepsIInv
<1>9. CASE VerifyGoesOn
  BY <1>9, VerifyGoesOnKeepsIInv
<1>10. CASE VerifyBlames
  BY <1>10, VerifyBlamesKeepsIInv
<1> QED
  BY <1>1, <1>2, <1>3, <1>4, <1>5, <1>6, <1>7, <1>8, <1>9, <1>10 DEF Next

\* The walk goes down a tree whose every reference leads to a later position.
LEMMA StepWalksDown ==
    ASSUME IInv, Next
    PROVE  /\ pc' = pc => Later(at, at')
           /\ pc = "found" /\ pc' = "search" => Later(data, data')
<1> DEFINE T == tree_structure
<1>1. index \in Nat
  BY OrderTyped DEF IInv
<1>2. ASSUME NEW p \in 1..index, NEW r \in (p + 1)..index
      PROVE  Later(T[p], T[r])
  BY <1>1 DEF Later
<1>3. CASE InsertBelow
  <2>1. pc' = pc /\ pc = "insert" /\ at' = Child /\ Child # Nil
    BY <1>3 DEF InsertBelow, Recurse
  <2>2. /\ TypeOK /\ LinkedAll /\ index < Len(T) /\ data = T[index + 1]
        /\ \E p \in 1..index : T[p] = at
    BY <2>1 DEF IInv, Calls
  <2>3. PICK p \in 1..index : T[p] = at
    BY <2>2
  <2>4. data \in Int /\ data # at
    <3>1. index + 1 \in 1..Len(T) /\ p \in 1..Len(T) /\ p # index + 1
      BY <2>2, OrderTyped
    <3> QED
      BY <2>2, <2>3, <3>1, OrderTyped
  <2>5. \E r \in (p + 1)..index : Child = T[r]
    BY <2>1, <2>2, <2>3, <2>4, ChildLeads DEF Child
  <2> QED
    BY <1>2, <2>1, <2>3, <2>5
<1>4. CASE SearchBelow
  <2>1. pc' = pc /\ pc = "search" /\ at # data /\ at' = Child /\ Child # Nil
    BY <1>4 DEF SearchBelow, Recurse
  <2>2. PICK p \in 1..index : T[p] = at /\ \E r \in (p + 1)..index : Child = T[r]
    BY <2>1, SearchGoesBy
  <2> QED
    BY <1>2, <2>1, <2>2
<1>5. CASE VerifyGoesOn
  <2>1. pc = "found" /\ pc' = "search" /\ layers # {} /\ NextLayer # Nil /\ data' = NextLayer
    BY <1>5 DEF VerifyGoesOn, Call
  <2>2. PICK p \in 1..index :
          T[p] = at /\ at = data /\ \E r \in (p + 1)..index : NextLayer = T[r]
    BY <2>1, NextLayerLeads
  <2> QED
    BY <1>2, <2>1, <2>2
<1>6. CASE InsertNext \/ InsertHere \/ SearchEnds \/ VerifyBlames
  BY <1>6 DEF InsertNext, InsertHere, SearchEnds, VerifyBlames, Call
<1>7. CASE \E d \in Data : Search(d)
  BY <1>7 DEF Search, Ready, Call
<1>8. CASE \E row \in TreeRows : \E f \in row[1] : VerifyBegins(row[1], f)
  BY <1>8 DEF VerifyBegins, Ready, Call
<1> QED
  BY <1>3, <1>4, <1>5, <1>6, <1>7, <1>8 DEF Next
----------------------------------------------------------------------------
\* Every state of a build, a search or a walk satisfies the invariant.
LEMMA TreeInvariance == Spec => []IInv
<1>1. Init => IInv
  BY InitIInv
<1>2. IInv /\ [Next]_vars => IInv'
  BY NextKeepsIInv
<1> QED
  BY <1>1, <1>2, PTL DEF Spec

\* The references and the arguments of the calls are values of nodes or None.
THEOREM TreeTyped == Spec => []TypeOK
<1>1. IInv => TypeOK
  BY DEF IInv
<1> QED
  BY <1>1, TreeInvariance, PTL

\* The references that insert sets lead where LayerTree says, after every insertion and
\* for insertion orders of any length.
THEOREM TreesAgree == Spec => []ChildrenAgree
<1>1. IInv => ChildrenAgree
  BY LinkedIsAgreement DEF IInv
<1> QED
  BY <1>1, TreeInvariance, PTL

\* get_node_by_data answers "not found" for what is not in the tree, and for nothing else.
THEOREM SearchFinds == Spec => []SearchFindsInserted
<1>1. ASSUME IInv PROVE SearchFindsInserted
  <2>1. CASE pc = "found"
    BY <1>1, <2>1 DEF IInv, Calls, SearchFindsInserted
  <2>2. CASE pc = "not found"
    BY <1>1, <2>2 DEF IInv, Calls, SearchFindsInserted
  <2>3. CASE pc \notin {"found", "not found"}
    BY <2>3 DEF SearchFindsInserted
  <2> QED
    BY <2>1, <2>2, <2>3
<1> QED
  BY <1>1, TreeInvariance, PTL

\* __verify blames the lowest layer that has failed, for each of the forty layer strings
\* and whichever of their layers that is.
THEOREM LowestFaultBlamed == Spec => []TreeBlamesLowestFault
<1>1. IInv => TreeBlamesLowestFault
  BY DEF IInv, Walk, TreeBlamesLowestFault
<1> QED
  BY <1>1, TreeInvariance, PTL

\* No call and no walk comes back to a node it has left: each of them ends.
THEOREM EveryWalkGoesDown == Spec => WalksDown
<1>1. IInv /\ [Next]_vars =>
        [/\ pc' = pc => Later(at, at')
         /\ pc = "found" /\ pc' = "search" => Later(data, data')]_vars
  BY StepWalksDown
<1> QED
  BY <1>1, TreeInvariance, PTL DEF Spec, WalksDown
=============================================================================
