-------------------------- MODULE LayerTreeProofs --------------------------
(***************************************************************************)
(* What the tree dictionary holds, for every layer string: there is a row  *)
(* for each, and the row inserts every active layer but the highest once.  *)
(***************************************************************************)
EXTENDS LayerTree, TLAPS

\* The strings with the host network layer, and with the VM network layer
\* whenever another instance layer is there.
WellFormed(active) ==
    /\ active \subseteq 0..6
    /\ 3 \in active
    /\ (4 \in active \/ 5 \in active) => 6 \in active

RowComplete(active, order) ==
    /\ WellFormed(active)
    /\ Len(order) \in 0..6
    /\ \A i \in 1..Len(order) : order[i] \in active /\ order[i] # HighestOf(active)
    /\ \A i, j \in 1..Len(order) : order[i] = order[j] => i = j
    /\ \A l \in active : l # HighestOf(active) => \E i \in 1..Len(order) : order[i] = l

\* The rows with every instance layer are complete.
LEMMA InstanceRowsComplete ==
    ASSUME NEW row \in InstanceRows
    PROVE  RowComplete(row[1], row[2])
<1> USE DEF RowComplete, WellFormed, HighestOf, HOST_NETWORK_LAYER_NUM,
       INSTANCE_NETWORK_LAYER_NUM
<1>1. CASE row = <<{0, 1, 2, 3, 4, 5, 6}, <<0, 3, 2, 5, 1, 4>>>>
  BY <1>1
<1>2. CASE row = <<{0, 1, 3, 4, 5, 6}, <<0, 3, 1, 5, 4>>>>
  BY <1>2
<1>3. CASE row = <<{0, 2, 3, 4, 5, 6}, <<0, 3, 2, 5, 4>>>>
  BY <1>3
<1>4. CASE row = <<{1, 2, 3, 4, 5, 6}, <<3, 1, 5, 2, 4>>>>
  BY <1>4
<1>5. CASE row = <<{0, 3, 4, 5, 6}, <<0, 3, 5, 4>>>>
  BY <1>5
<1>6. CASE row = <<{1, 3, 4, 5, 6}, <<3, 1, 5, 4>>>>
  BY <1>6
<1>7. CASE row = <<{2, 3, 4, 5, 6}, <<3, 2, 5, 4>>>>
  BY <1>7
<1>8. CASE row = <<{3, 4, 5, 6}, <<3, 5, 4>>>>
  BY <1>8
<1> QED
  BY <1>1, <1>2, <1>3, <1>4, <1>5, <1>6, <1>7, <1>8 DEF InstanceRows

\* Every layer string with every instance layer has a row.
LEMMA InstanceRowsKnown ==
    ASSUME NEW a \in SUBSET (0..6), 3 \in a, 4 \in a, 5 \in a, 6 \in a
    PROVE  \E row \in InstanceRows : row[1] = a
<1>1. CASE 0 \in a /\ 1 \in a /\ 2 \in a
  <2>1. \A x \in a : x = 0 \/ x = 1 \/ x = 2 \/ x = 3 \/ x = 4 \/ x = 5 \/ x = 6
    BY <1>1, SMT
  <2>2. a = {0, 1, 2, 3, 4, 5, 6}
    BY <1>1, <2>1, Zenon
  <2>3. <<{0, 1, 2, 3, 4, 5, 6}, <<0, 3, 2, 5, 1, 4>>>> \in InstanceRows
    BY DEF InstanceRows
  <2> QED
    BY <2>2, <2>3
<1>2. CASE 0 \in a /\ 1 \in a /\ 2 \notin a
  <2>1. \A x \in a : x = 0 \/ x = 1 \/ x = 3 \/ x = 4 \/ x = 5 \/ x = 6
    BY <1>2, SMT
  <2>2. a = {0, 1, 3, 4, 5, 6}
    BY <1>2, <2>1, Zenon
  <2>3. <<{0, 1, 3, 4, 5, 6}, <<0, 3, 1, 5, 4>>>> \in InstanceRows
    BY DEF InstanceRows
  <2> QED
    BY <2>2, <2>3
<1>3. CASE 0 \in a /\ 1 \notin a /\ 2 \in a
  <2>1. \A x \in a : x = 0 \/ x = 2 \/ x = 3 \/ x = 4 \/ x = 5 \/ x = 6
    BY <1>3, SMT
  <2>2. a = {0, 2, 3, 4, 5, 6}
    BY <1>3, <2>1, Zenon
  <2>3. <<{0, 2, 3, 4, 5, 6}, <<0, 3, 2, 5, 4>>>> \in InstanceRows
    BY DEF InstanceRows
  <2> QED
    BY <2>2, <2>3
<1>4. CASE 0 \notin a /\ 1 \in a /\ 2 \in a
  <2>1. \A x \in a : x = 1 \/ x = 2 \/ x = 3 \/ x = 4 \/ x = 5 \/ x = 6
    BY <1>4, SMT
  <2>2. a = {1, 2, 3, 4, 5, 6}
    BY <1>4, <2>1, Zenon
  <2>3. <<{1, 2, 3, 4, 5, 6}, <<3, 1, 5, 2, 4>>>> \in InstanceRows
    BY DEF InstanceRows
  <2> QED
    BY <2>2, <2>3
<1>5. CASE 0 \in a /\ 1 \notin a /\ 2 \notin a
  <2>1. \A x \in a : x = 0 \/ x = 3 \/ x = 4 \/ x = 5 \/ x = 6
    BY <1>5, SMT
  <2>2. a = {0, 3, 4, 5, 6}
    BY <1>5, <2>1, Zenon
  <2>3. <<{0, 3, 4, 5, 6}, <<0, 3, 5, 4>>>> \in InstanceRows
    BY DEF InstanceRows
  <2> QED
    BY <2>2, <2>3
<1>6. CASE 0 \notin a /\ 1 \in a /\ 2 \notin a
  <2>1. \A x \in a : x = 1 \/ x = 3 \/ x = 4 \/ x = 5 \/ x = 6
    BY <1>6, SMT
  <2>2. a = {1, 3, 4, 5, 6}
    BY <1>6, <2>1, Zenon
  <2>3. <<{1, 3, 4, 5, 6}, <<3, 1, 5, 4>>>> \in InstanceRows
    BY DEF InstanceRows
  <2> QED
    BY <2>2, <2>3
<1>7. CASE 0 \notin a /\ 1 \notin a /\ 2 \in a
  <2>1. \A x \in a : x = 2 \/ x = 3 \/ x = 4 \/ x = 5 \/ x = 6
    BY <1>7, SMT
  <2>2. a = {2, 3, 4, 5, 6}
    BY <1>7, <2>1, Zenon
  <2>3. <<{2, 3, 4, 5, 6}, <<3, 2, 5, 4>>>> \in InstanceRows
    BY DEF InstanceRows
  <2> QED
    BY <2>2, <2>3
<1>8. CASE 0 \notin a /\ 1 \notin a /\ 2 \notin a
  <2>1. \A x \in a : x = 3 \/ x = 4 \/ x = 5 \/ x = 6
    BY <1>8, SMT
  <2>2. a = {3, 4, 5, 6}
    BY <1>8, <2>1, Zenon
  <2>3. <<{3, 4, 5, 6}, <<3, 5, 4>>>> \in InstanceRows
    BY DEF InstanceRows
  <2> QED
    BY <2>2, <2>3
<1> QED
  BY <1>1, <1>2, <1>3, <1>4, <1>5, <1>6, <1>7, <1>8

\* The rows with the VM process layer but not the guest os are complete.
LEMMA ProcessRowsComplete ==
    ASSUME NEW row \in ProcessRows
    PROVE  RowComplete(row[1], row[2])
<1> USE DEF RowComplete, WellFormed, HighestOf, HOST_NETWORK_LAYER_NUM,
       INSTANCE_NETWORK_LAYER_NUM
<1>1. CASE row = <<{0, 1, 2, 3, 4, 6}, <<0, 3, 2, 4, 1>>>>
  BY <1>1
<1>2. CASE row = <<{0, 1, 3, 4, 6}, <<0, 3, 1, 4>>>>
  BY <1>2
<1>3. CASE row = <<{0, 2, 3, 4, 6}, <<0, 3, 2, 4>>>>
  BY <1>3
<1>4. CASE row = <<{1, 2, 3, 4, 6}, <<3, 1, 4, 2>>>>
  BY <1>4
<1>5. CASE row = <<{0, 3, 4, 6}, <<0, 3, 4>>>>
  BY <1>5
<1>6. CASE row = <<{1, 3, 4, 6}, <<3, 1, 4>>>>
  BY <1>6
<1>7. CASE row = <<{2, 3, 4, 6}, <<3, 2, 4>>>>
  BY <1>7
<1>8. CASE row = <<{3, 4, 6}, <<3, 4>>>>
  BY <1>8
<1> QED
  BY <1>1, <1>2, <1>3, <1>4, <1>5, <1>6, <1>7, <1>8 DEF ProcessRows

\* Every layer string with the VM process layer but not the guest os has a row.
LEMMA ProcessRowsKnown ==
    ASSUME NEW a \in SUBSET (0..6), 3 \in a, 4 \in a, 5 \notin a, 6 \in a
    PROVE  \E row \in ProcessRows : row[1] = a
<1>1. CASE 0 \in a /\ 1 \in a /\ 2 \in a
  <2>1. \A x \in a : x = 0 \/ x = 1 \/ x = 2 \/ x = 3 \/ x = 4 \/ x = 6
    BY <1>1, SMT
  <2>2. a = {0, 1, 2, 3, 4, 6}
    BY <1>1, <2>1, Zenon
  <2>3. <<{0, 1, 2, 3, 4, 6}, <<0, 3, 2, 4, 1>>>> \in ProcessRows
    BY DEF ProcessRows
  <2> QED
    BY <2>2, <2>3
<1>2. CASE 0 \in a /\ 1 \in a /\ 2 \notin a
  <2>1. \A x \in a : x = 0 \/ x = 1 \/ x = 3 \/ x = 4 \/ x = 6
    BY <1>2, SMT
  <2>2. a = {0, 1, 3, 4, 6}
    BY <1>2, <2>1, Zenon
  <2>3. <<{0, 1, 3, 4, 6}, <<0, 3, 1, 4>>>> \in ProcessRows
    BY DEF ProcessRows
  <2> QED
    BY <2>2, <2>3
<1>3. CASE 0 \in a /\ 1 \notin a /\ 2 \in a
  <2>1. \A x \in a : x = 0 \/ x = 2 \/ x = 3 \/ x = 4 \/ x = 6
    BY <1>3, SMT
  <2>2. a = {0, 2, 3, 4, 6}
    BY <1>3, <2>1, Zenon
  <2>3. <<{0, 2, 3, 4, 6}, <<0, 3, 2, 4>>>> \in ProcessRows
    BY DEF ProcessRows
  <2> QED
    BY <2>2, <2>3
<1>4. CASE 0 \notin a /\ 1 \in a /\ 2 \in a
  <2>1. \A x \in a : x = 1 \/ x = 2 \/ x = 3 \/ x = 4 \/ x = 6
    BY <1>4, SMT
  <2>2. a = {1, 2, 3, 4, 6}
    BY <1>4, <2>1, Zenon
  <2>3. <<{1, 2, 3, 4, 6}, <<3, 1, 4, 2>>>> \in ProcessRows
    BY DEF ProcessRows
  <2> QED
    BY <2>2, <2>3
<1>5. CASE 0 \in a /\ 1 \notin a /\ 2 \notin a
  <2>1. \A x \in a : x = 0 \/ x = 3 \/ x = 4 \/ x = 6
    BY <1>5, SMT
  <2>2. a = {0, 3, 4, 6}
    BY <1>5, <2>1, Zenon
  <2>3. <<{0, 3, 4, 6}, <<0, 3, 4>>>> \in ProcessRows
    BY DEF ProcessRows
  <2> QED
    BY <2>2, <2>3
<1>6. CASE 0 \notin a /\ 1 \in a /\ 2 \notin a
  <2>1. \A x \in a : x = 1 \/ x = 3 \/ x = 4 \/ x = 6
    BY <1>6, SMT
  <2>2. a = {1, 3, 4, 6}
    BY <1>6, <2>1, Zenon
  <2>3. <<{1, 3, 4, 6}, <<3, 1, 4>>>> \in ProcessRows
    BY DEF ProcessRows
  <2> QED
    BY <2>2, <2>3
<1>7. CASE 0 \notin a /\ 1 \notin a /\ 2 \in a
  <2>1. \A x \in a : x = 2 \/ x = 3 \/ x = 4 \/ x = 6
    BY <1>7, SMT
  <2>2. a = {2, 3, 4, 6}
    BY <1>7, <2>1, Zenon
  <2>3. <<{2, 3, 4, 6}, <<3, 2, 4>>>> \in ProcessRows
    BY DEF ProcessRows
  <2> QED
    BY <2>2, <2>3
<1>8. CASE 0 \notin a /\ 1 \notin a /\ 2 \notin a
  <2>1. \A x \in a : x = 3 \/ x = 4 \/ x = 6
    BY <1>8, SMT
  <2>2. a = {3, 4, 6}
    BY <1>8, <2>1, Zenon
  <2>3. <<{3, 4, 6}, <<3, 4>>>> \in ProcessRows
    BY DEF ProcessRows
  <2> QED
    BY <2>2, <2>3
<1> QED
  BY <1>1, <1>2, <1>3, <1>4, <1>5, <1>6, <1>7, <1>8

\* The rows with the guest os layer but not the VM process are complete.
LEMMA GuestRowsComplete ==
    ASSUME NEW row \in GuestRows
    PROVE  RowComplete(row[1], row[2])
<1> USE DEF RowComplete, WellFormed, HighestOf, HOST_NETWORK_LAYER_NUM,
       INSTANCE_NETWORK_LAYER_NUM
<1>1. CASE row = <<{0, 1, 2, 3, 5, 6}, <<0, 3, 2, 5, 1>>>>
  BY <1>1
<1>2. CASE row = <<{0, 1, 3, 5, 6}, <<0, 3, 1, 5>>>>
  BY <1>2
<1>3. CASE row = <<{0, 2, 3, 5, 6}, <<0, 3, 2, 5>>>>
  BY <1>3
<1>4. CASE row = <<{1, 2, 3, 5, 6}, <<3, 1, 5, 2>>>>
  BY <1>4
<1>5. CASE row = <<{0, 3, 5, 6}, <<0, 3, 5>>>>
  BY <1>5
<1>6. CASE row = <<{1, 3, 5, 6}, <<3, 1, 5>>>>
  BY <1>6
<1>7. CASE row = <<{2, 3, 5, 6}, <<3, 2, 5>>>>
  BY <1>7
<1>8. CASE row = <<{3, 5, 6}, <<3, 5>>>>
  BY <1>8
<1> QED
  BY <1>1, <1>2, <1>3, <1>4, <1>5, <1>6, <1>7, <1>8 DEF GuestRows

\* Every layer string with the guest os layer but not the VM process has a row.
LEMMA GuestRowsKnown ==
    ASSUME NEW a \in SUBSET (0..6), 3 \in a, 4 \notin a, 5 \in a, 6 \in a
    PROVE  \E row \in GuestRows : row[1] = a
<1>1. CASE 0 \in a /\ 1 \in a /\ 2 \in a
  <2>1. \A x \in a : x = 0 \/ x = 1 \/ x = 2 \/ x = 3 \/ x = 5 \/ x = 6
    BY <1>1, SMT
  <2>2. a = {0, 1, 2, 3, 5, 6}
    BY <1>1, <2>1, Zenon
  <2>3. <<{0, 1, 2, 3, 5, 6}, <<0, 3, 2, 5, 1>>>> \in GuestRows
    BY DEF GuestRows
  <2> QED
    BY <2>2, <2>3
<1>2. CASE 0 \in a /\ 1 \in a /\ 2 \notin a
  <2>1. \A x \in a : x = 0 \/ x = 1 \/ x = 3 \/ x = 5 \/ x = 6
    BY <1>2, SMT
  <2>2. a = {0, 1, 3, 5, 6}
    BY <1>2, <2>1, Zenon
  <2>3. <<{0, 1, 3, 5, 6}, <<0, 3, 1, 5>>>> \in GuestRows
    BY DEF GuestRows
  <2> QED
    BY <2>2, <2>3
<1>3. CASE 0 \in a /\ 1 \notin a /\ 2 \in a
  <2>1. \A x \in a : x = 0 \/ x = 2 \/ x = 3 \/ x = 5 \/ x = 6
    BY <1>3, SMT
  <2>2. a = {0, 2, 3, 5, 6}
    BY <1>3, <2>1, Zenon
  <2>3. <<{0, 2, 3, 5, 6}, <<0, 3, 2, 5>>>> \in GuestRows
    BY DEF GuestRows
  <2> QED
    BY <2>2, <2>3
<1>4. CASE 0 \notin a /\ 1 \in a /\ 2 \in a
  <2>1. \A x \in a : x = 1 \/ x = 2 \/ x = 3 \/ x = 5 \/ x = 6
    BY <1>4, SMT
  <2>2. a = {1, 2, 3, 5, 6}
    BY <1>4, <2>1, Zenon
  <2>3. <<{1, 2, 3, 5, 6}, <<3, 1, 5, 2>>>> \in GuestRows
    BY DEF GuestRows
  <2> QED
    BY <2>2, <2>3
<1>5. CASE 0 \in a /\ 1 \notin a /\ 2 \notin a
  <2>1. \A x \in a : x = 0 \/ x = 3 \/ x = 5 \/ x = 6
    BY <1>5, SMT
  <2>2. a = {0, 3, 5, 6}
    BY <1>5, <2>1, Zenon
  <2>3. <<{0, 3, 5, 6}, <<0, 3, 5>>>> \in GuestRows
    BY DEF GuestRows
  <2> QED
    BY <2>2, <2>3
<1>6. CASE 0 \notin a /\ 1 \in a /\ 2 \notin a
  <2>1. \A x \in a : x = 1 \/ x = 3 \/ x = 5 \/ x = 6
    BY <1>6, SMT
  <2>2. a = {1, 3, 5, 6}
    BY <1>6, <2>1, Zenon
  <2>3. <<{1, 3, 5, 6}, <<3, 1, 5>>>> \in GuestRows
    BY DEF GuestRows
  <2> QED
    BY <2>2, <2>3
<1>7. CASE 0 \notin a /\ 1 \notin a /\ 2 \in a
  <2>1. \A x \in a : x = 2 \/ x = 3 \/ x = 5 \/ x = 6
    BY <1>7, SMT
  <2>2. a = {2, 3, 5, 6}
    BY <1>7, <2>1, Zenon
  <2>3. <<{2, 3, 5, 6}, <<3, 2, 5>>>> \in GuestRows
    BY DEF GuestRows
  <2> QED
    BY <2>2, <2>3
<1>8. CASE 0 \notin a /\ 1 \notin a /\ 2 \notin a
  <2>1. \A x \in a : x = 3 \/ x = 5 \/ x = 6
    BY <1>8, SMT
  <2>2. a = {3, 5, 6}
    BY <1>8, <2>1, Zenon
  <2>3. <<{3, 5, 6}, <<3, 5>>>> \in GuestRows
    BY DEF GuestRows
  <2> QED
    BY <2>2, <2>3
<1> QED
  BY <1>1, <1>2, <1>3, <1>4, <1>5, <1>6, <1>7, <1>8

\* The rows with only the VM network of the instance layers are complete.
LEMMA NetworkRowsComplete ==
    ASSUME NEW row \in NetworkRows
    PROVE  RowComplete(row[1], row[2])
<1> USE DEF RowComplete, WellFormed, HighestOf, HOST_NETWORK_LAYER_NUM,
       INSTANCE_NETWORK_LAYER_NUM
<1>1. CASE row = <<{0, 1, 2, 3, 6}, <<0, 3, 2, 1>>>>
  BY <1>1
<1>2. CASE row = <<{0, 1, 3, 6}, <<0, 3, 1>>>>
  BY <1>2
<1>3. CASE row = <<{0, 2, 3, 6}, <<0, 3, 2>>>>
  BY <1>3
<1>4. CASE row = <<{1, 2, 3, 6}, <<3, 1, 2>>>>
  BY <1>4
<1>5. CASE row = <<{0, 3, 6}, <<0, 3>>>>
  BY <1>5
<1>6. CASE row = <<{1, 3, 6}, <<3, 1>>>>
  BY <1>6
<1>7. CASE row = <<{2, 3, 6}, <<3, 2>>>>
  BY <1>7
<1>8. CASE row = <<{3, 6}, <<3>>>>
  BY <1>8
<1> QED
  BY <1>1, <1>2, <1>3, <1>4, <1>5, <1>6, <1>7, <1>8 DEF NetworkRows

\* Every layer string with only the VM network of the instance layers has a row.
LEMMA NetworkRowsKnown ==
    ASSUME NEW a \in SUBSET (0..6), 3 \in a, 4 \notin a, 5 \notin a, 6 \in a
    PROVE  \E row \in NetworkRows : row[1] = a
<1>1. CASE 0 \in a /\ 1 \in a /\ 2 \in a
  <2>1. \A x \in a : x = 0 \/ x = 1 \/ x = 2 \/ x = 3 \/ x = 6
    BY <1>1, SMT
  <2>2. a = {0, 1, 2, 3, 6}
    BY <1>1, <2>1, Zenon
  <2>3. <<{0, 1, 2, 3, 6}, <<0, 3, 2, 1>>>> \in NetworkRows
    BY DEF NetworkRows
  <2> QED
    BY <2>2, <2>3
<1>2. CASE 0 \in a /\ 1 \in a /\ 2 \notin a
  <2>1. \A x \in a : x = 0 \/ x = 1 \/ x = 3 \/ x = 6
    BY <1>2, SMT
  <2>2. a = {0, 1, 3, 6}
    BY <1>2, <2>1, Zenon
  <2>3. <<{0, 1, 3, 6}, <<0, 3, 1>>>> \in NetworkRows
    BY DEF NetworkRows
  <2> QED
    BY <2>2, <2>3
<1>3. CASE 0 \in a /\ 1 \notin a /\ 2 \in a
  <2>1. \A x \in a : x = 0 \/ x = 2 \/ x = 3 \/ x = 6
    BY <1>3, SMT
  <2>2. a = {0, 2, 3, 6}
    BY <1>3, <2>1, Zenon
  <2>3. <<{0, 2, 3, 6}, <<0, 3, 2>>>> \in NetworkRows
    BY DEF NetworkRows
  <2> QED
    BY <2>2, <2>3
<1>4. CASE 0 \notin a /\ 1 \in a /\ 2 \in a
  <2>1. \A x \in a : x = 1 \/ x = 2 \/ x = 3 \/ x = 6
    BY <1>4, SMT
  <2>2. a = {1, 2, 3, 6}
    BY <1>4, <2>1, Zenon
  <2>3. <<{1, 2, 3, 6}, <<3, 1, 2>>>> \in NetworkRows
    BY DEF NetworkRows
  <2> QED
    BY <2>2, <2>3
<1>5. CASE 0 \in a /\ 1 \notin a /\ 2 \notin a
  <2>1. \A x \in a : x = 0 \/ x = 3 \/ x = 6
    BY <1>5, SMT
  <2>2. a = {0, 3, 6}
    BY <1>5, <2>1, Zenon
  <2>3. <<{0, 3, 6}, <<0, 3>>>> \in NetworkRows
    BY DEF NetworkRows
  <2> QED
    BY <2>2, <2>3
<1>6. CASE 0 \notin a /\ 1 \in a /\ 2 \notin a
  <2>1. \A x \in a : x = 1 \/ x = 3 \/ x = 6
    BY <1>6, SMT
  <2>2. a = {1, 3, 6}
    BY <1>6, <2>1, Zenon
  <2>3. <<{1, 3, 6}, <<3, 1>>>> \in NetworkRows
    BY DEF NetworkRows
  <2> QED
    BY <2>2, <2>3
<1>7. CASE 0 \notin a /\ 1 \notin a /\ 2 \in a
  <2>1. \A x \in a : x = 2 \/ x = 3 \/ x = 6
    BY <1>7, SMT
  <2>2. a = {2, 3, 6}
    BY <1>7, <2>1, Zenon
  <2>3. <<{2, 3, 6}, <<3, 2>>>> \in NetworkRows
    BY DEF NetworkRows
  <2> QED
    BY <2>2, <2>3
<1>8. CASE 0 \notin a /\ 1 \notin a /\ 2 \notin a
  <2>1. \A x \in a : x = 3 \/ x = 6
    BY <1>8, SMT
  <2>2. a = {3, 6}
    BY <1>8, <2>1, Zenon
  <2>3. <<{3, 6}, <<3>>>> \in NetworkRows
    BY DEF NetworkRows
  <2> QED
    BY <2>2, <2>3
<1> QED
  BY <1>1, <1>2, <1>3, <1>4, <1>5, <1>6, <1>7, <1>8

\* The rows with no instance layer are complete.
LEMMA HostRowsComplete ==
    ASSUME NEW row \in HostRows
    PROVE  RowComplete(row[1], row[2])
<1> USE DEF RowComplete, WellFormed, HighestOf, HOST_NETWORK_LAYER_NUM,
       INSTANCE_NETWORK_LAYER_NUM
<1>1. CASE row = <<{0, 1, 2, 3}, <<0, 2, 1>>>>
  BY <1>1
<1>2. CASE row = <<{0, 1, 3}, <<0, 1>>>>
  BY <1>2
<1>3. CASE row = <<{0, 2, 3}, <<0, 2>>>>
  BY <1>3
<1>4. CASE row = <<{1, 2, 3}, <<1, 2>>>>
  BY <1>4
<1>5. CASE row = <<{0, 3}, <<0>>>>
  BY <1>5
<1>6. CASE row = <<{1, 3}, <<1>>>>
  BY <1>6
<1>7. CASE row = <<{2, 3}, <<2>>>>
  BY <1>7
<1>8. CASE row = <<{3}, <<>>>>
  BY <1>8
<1> QED
  BY <1>1, <1>2, <1>3, <1>4, <1>5, <1>6, <1>7, <1>8 DEF HostRows

\* Every layer string with no instance layer has a row.
LEMMA HostRowsKnown ==
    ASSUME NEW a \in SUBSET (0..6), 3 \in a, 4 \notin a, 5 \notin a, 6 \notin a
    PROVE  \E row \in HostRows : row[1] = a
<1>1. CASE 0 \in a /\ 1 \in a /\ 2 \in a
  <2>1. \A x \in a : x = 0 \/ x = 1 \/ x = 2 \/ x = 3
    BY <1>1, SMT
  <2>2. a = {0, 1, 2, 3}
    BY <1>1, <2>1, Zenon
  <2>3. <<{0, 1, 2, 3}, <<0, 2, 1>>>> \in HostRows
    BY DEF HostRows
  <2> QED
    BY <2>2, <2>3
<1>2. CASE 0 \in a /\ 1 \in a /\ 2 \notin a
  <2>1. \A x \in a : x = 0 \/ x = 1 \/ x = 3
    BY <1>2, SMT
  <2>2. a = {0, 1, 3}
    BY <1>2, <2>1, Zenon
  <2>3. <<{0, 1, 3}, <<0, 1>>>> \in HostRows
    BY DEF HostRows
  <2> QED
    BY <2>2, <2>3
<1>3. CASE 0 \in a /\ 1 \notin a /\ 2 \in a
  <2>1. \A x \in a : x = 0 \/ x = 2 \/ x = 3
    BY <1>3, SMT
  <2>2. a = {0, 2, 3}
    BY <1>3, <2>1, Zenon
  <2>3. <<{0, 2, 3}, <<0, 2>>>> \in HostRows
    BY DEF HostRows
  <2> QED
    BY <2>2, <2>3
<1>4. CASE 0 \notin a /\ 1 \in a /\ 2 \in a
  <2>1. \A x \in a : x = 1 \/ x = 2 \/ x = 3
    BY <1>4, SMT
  <2>2. a = {1, 2, 3}
    BY <1>4, <2>1, Zenon
  <2>3. <<{1, 2, 3}, <<1, 2>>>> \in HostRows
    BY DEF HostRows
  <2> QED
    BY <2>2, <2>3
<1>5. CASE 0 \in a /\ 1 \notin a /\ 2 \notin a
  <2>1. \A x \in a : x = 0 \/ x = 3
    BY <1>5, SMT
  <2>2. a = {0, 3}
    BY <1>5, <2>1, Zenon
  <2>3. <<{0, 3}, <<0>>>> \in HostRows
    BY DEF HostRows
  <2> QED
    BY <2>2, <2>3
<1>6. CASE 0 \notin a /\ 1 \in a /\ 2 \notin a
  <2>1. \A x \in a : x = 1 \/ x = 3
    BY <1>6, SMT
  <2>2. a = {1, 3}
    BY <1>6, <2>1, Zenon
  <2>3. <<{1, 3}, <<1>>>> \in HostRows
    BY DEF HostRows
  <2> QED
    BY <2>2, <2>3
<1>7. CASE 0 \notin a /\ 1 \notin a /\ 2 \in a
  <2>1. \A x \in a : x = 2 \/ x = 3
    BY <1>7, SMT
  <2>2. a = {2, 3}
    BY <1>7, <2>1, Zenon
  <2>3. <<{2, 3}, <<2>>>> \in HostRows
    BY DEF HostRows
  <2> QED
    BY <2>2, <2>3
<1>8. CASE 0 \notin a /\ 1 \notin a /\ 2 \notin a
  <2>1. \A x \in a : x = 3
    BY <1>8, SMT
  <2>2. a = {3}
    BY <1>8, <2>1, Zenon
  <2>3. <<{3}, <<>>>> \in HostRows
    BY DEF HostRows
  <2> QED
    BY <2>2, <2>3
<1> QED
  BY <1>1, <1>2, <1>3, <1>4, <1>5, <1>6, <1>7, <1>8

\* Every row of the dictionary is complete.
LEMMA RowsComplete ==
    ASSUME NEW row \in TreeRows
    PROVE  RowComplete(row[1], row[2])
  BY InstanceRowsComplete, ProcessRowsComplete, GuestRowsComplete, NetworkRowsComplete,
     HostRowsComplete DEF TreeRows

\* build_tree never raises KeyError: a layer string has a row exactly when it has
\* the host network layer, and the VM network layer if any instance layer.
THEOREM EveryLayerStringKnown == \A a : a \in KnownLayerStrings <=> WellFormed(a)
<1>1. ASSUME NEW a \in KnownLayerStrings PROVE WellFormed(a)
  <2>1. PICK row \in TreeRows : row[1] = a
    BY DEF KnownLayerStrings
  <2> QED
    BY <2>1, RowsComplete DEF RowComplete
<1>2. ASSUME NEW a, WellFormed(a) PROVE a \in KnownLayerStrings
  <2> a \in SUBSET (0..6) /\ 3 \in a
    BY <1>2 DEF WellFormed
  <2>1. \E row \in TreeRows : row[1] = a
    <3>1. CASE 4 \in a /\ 5 \in a
      BY <3>1, <1>2, InstanceRowsKnown DEF WellFormed, TreeRows
    <3>2. CASE 4 \in a /\ 5 \notin a
      BY <3>2, <1>2, ProcessRowsKnown DEF WellFormed, TreeRows
    <3>3. CASE 4 \notin a /\ 5 \in a
      BY <3>3, <1>2, GuestRowsKnown DEF WellFormed, TreeRows
    <3>4. CASE 4 \notin a /\ 5 \notin a /\ 6 \in a
      BY <3>4, NetworkRowsKnown DEF TreeRows
    <3>5. CASE 4 \notin a /\ 5 \notin a /\ 6 \notin a
      BY <3>5, HostRowsKnown DEF TreeRows
    <3> QED
      BY <3>1, <3>2, <3>3, <3>4, <3>5
  <2> QED
    BY <2>1 DEF KnownLayerStrings
<1> QED
  BY <1>1, <1>2

\* The tree built for a layer string holds each of its layers but the highest
\* exactly once, and nothing else.
THEOREM DictionaryComplete ==
    \A a \in KnownLayerStrings : RowComplete(a, TREE_DICTIONARY[a])
<1> SUFFICES ASSUME NEW a \in KnownLayerStrings
             PROVE  RowComplete(a, TREE_DICTIONARY[a])
  OBVIOUS
<1> DEFINE row == CHOOSE r \in TreeRows : r[1] = a
<1>1. row \in TreeRows /\ row[1] = a
  <2>1. \E r \in TreeRows : r[1] = a
    BY DEF KnownLayerStrings
  <2> QED
    BY <2>1
<1>2. TREE_DICTIONARY[a] = row[2]
  BY DEF TREE_DICTIONARY
<1>3. RowComplete(row[1], row[2])
  BY <1>1, RowsComplete
<1> QED
  BY <1>1, <1>2, <1>3

----------------------------------------------------------------------------
\* The order of a row puts the power layer before the hardware layer, and the host
\* network before the layers of an instance.
RowOrdered(active, order) ==
    \A i \in 1..Len(order) :
        /\ order[i] = 1 /\ 0 \in active => \E j \in 1..(i - 1) : order[j] = 0
        /\ order[i] \in {4, 5} => \E j \in 1..(i - 1) : order[j] = 3

\* The rows with every instance layer are ordered so.
LEMMA InstanceRowsOrdered ==
    ASSUME NEW row \in InstanceRows
    PROVE  RowOrdered(row[1], row[2])
<1>1. CASE row = <<{0, 1, 2, 3, 4, 5, 6}, <<0, 3, 2, 5, 1, 4>>>>
  BY <1>1 DEF RowOrdered
<1>2. CASE row = <<{0, 1, 3, 4, 5, 6}, <<0, 3, 1, 5, 4>>>>
  BY <1>2 DEF RowOrdered
<1>3. CASE row = <<{0, 2, 3, 4, 5, 6}, <<0, 3, 2, 5, 4>>>>
  BY <1>3 DEF RowOrdered
<1>4. CASE row = <<{1, 2, 3, 4, 5, 6}, <<3, 1, 5, 2, 4>>>>
  BY <1>4 DEF RowOrdered
<1>5. CASE row = <<{0, 3, 4, 5, 6}, <<0, 3, 5, 4>>>>
  BY <1>5 DEF RowOrdered
<1>6. CASE row = <<{1, 3, 4, 5, 6}, <<3, 1, 5, 4>>>>
  BY <1>6 DEF RowOrdered
<1>7. CASE row = <<{2, 3, 4, 5, 6}, <<3, 2, 5, 4>>>>
  BY <1>7 DEF RowOrdered
<1>8. CASE row = <<{3, 4, 5, 6}, <<3, 5, 4>>>>
  BY <1>8 DEF RowOrdered
<1> QED
  BY <1>1, <1>2, <1>3, <1>4, <1>5, <1>6, <1>7, <1>8 DEF InstanceRows

\* The rows with the VM process layer but not the guest os are ordered so.
LEMMA ProcessRowsOrdered ==
    ASSUME NEW row \in ProcessRows
    PROVE  RowOrdered(row[1], row[2])
<1>1. CASE row = <<{0, 1, 2, 3, 4, 6}, <<0, 3, 2, 4, 1>>>>
  BY <1>1 DEF RowOrdered
<1>2. CASE row = <<{0, 1, 3, 4, 6}, <<0, 3, 1, 4>>>>
  BY <1>2 DEF RowOrdered
<1>3. CASE row = <<{0, 2, 3, 4, 6}, <<0, 3, 2, 4>>>>
  BY <1>3 DEF RowOrdered
<1>4. CASE row = <<{1, 2, 3, 4, 6}, <<3, 1, 4, 2>>>>
  BY <1>4 DEF RowOrdered
<1>5. CASE row = <<{0, 3, 4, 6}, <<0, 3, 4>>>>
  BY <1>5 DEF RowOrdered
<1>6. CASE row = <<{1, 3, 4, 6}, <<3, 1, 4>>>>
  BY <1>6 DEF RowOrdered
<1>7. CASE row = <<{2, 3, 4, 6}, <<3, 2, 4>>>>
  BY <1>7 DEF RowOrdered
<1>8. CASE row = <<{3, 4, 6}, <<3, 4>>>>
  BY <1>8 DEF RowOrdered
<1> QED
  BY <1>1, <1>2, <1>3, <1>4, <1>5, <1>6, <1>7, <1>8 DEF ProcessRows

\* The rows with the guest os layer but not the VM process are ordered so.
LEMMA GuestRowsOrdered ==
    ASSUME NEW row \in GuestRows
    PROVE  RowOrdered(row[1], row[2])
<1>1. CASE row = <<{0, 1, 2, 3, 5, 6}, <<0, 3, 2, 5, 1>>>>
  BY <1>1 DEF RowOrdered
<1>2. CASE row = <<{0, 1, 3, 5, 6}, <<0, 3, 1, 5>>>>
  BY <1>2 DEF RowOrdered
<1>3. CASE row = <<{0, 2, 3, 5, 6}, <<0, 3, 2, 5>>>>
  BY <1>3 DEF RowOrdered
<1>4. CASE row = <<{1, 2, 3, 5, 6}, <<3, 1, 5, 2>>>>
  BY <1>4 DEF RowOrdered
<1>5. CASE row = <<{0, 3, 5, 6}, <<0, 3, 5>>>>
  BY <1>5 DEF RowOrdered
<1>6. CASE row = <<{1, 3, 5, 6}, <<3, 1, 5>>>>
  BY <1>6 DEF RowOrdered
<1>7. CASE row = <<{2, 3, 5, 6}, <<3, 2, 5>>>>
  BY <1>7 DEF RowOrdered
<1>8. CASE row = <<{3, 5, 6}, <<3, 5>>>>
  BY <1>8 DEF RowOrdered
<1> QED
  BY <1>1, <1>2, <1>3, <1>4, <1>5, <1>6, <1>7, <1>8 DEF GuestRows

\* The rows with only the VM network of the instance layers are ordered so.
LEMMA NetworkRowsOrdered ==
    ASSUME NEW row \in NetworkRows
    PROVE  RowOrdered(row[1], row[2])
<1>1. CASE row = <<{0, 1, 2, 3, 6}, <<0, 3, 2, 1>>>>
  BY <1>1 DEF RowOrdered
<1>2. CASE row = <<{0, 1, 3, 6}, <<0, 3, 1>>>>
  BY <1>2 DEF RowOrdered
<1>3. CASE row = <<{0, 2, 3, 6}, <<0, 3, 2>>>>
  BY <1>3 DEF RowOrdered
<1>4. CASE row = <<{1, 2, 3, 6}, <<3, 1, 2>>>>
  BY <1>4 DEF RowOrdered
<1>5. CASE row = <<{0, 3, 6}, <<0, 3>>>>
  BY <1>5 DEF RowOrdered
<1>6. CASE row = <<{1, 3, 6}, <<3, 1>>>>
  BY <1>6 DEF RowOrdered
<1>7. CASE row = <<{2, 3, 6}, <<3, 2>>>>
  BY <1>7 DEF RowOrdered
<1>8. CASE row = <<{3, 6}, <<3>>>>
  BY <1>8 DEF RowOrdered
<1> QED
  BY <1>1, <1>2, <1>3, <1>4, <1>5, <1>6, <1>7, <1>8 DEF NetworkRows

\* The rows with no instance layer are ordered so.
LEMMA HostRowsOrdered ==
    ASSUME NEW row \in HostRows
    PROVE  RowOrdered(row[1], row[2])
<1>1. CASE row = <<{0, 1, 2, 3}, <<0, 2, 1>>>>
  BY <1>1 DEF RowOrdered
<1>2. CASE row = <<{0, 1, 3}, <<0, 1>>>>
  BY <1>2 DEF RowOrdered
<1>3. CASE row = <<{0, 2, 3}, <<0, 2>>>>
  BY <1>3 DEF RowOrdered
<1>4. CASE row = <<{1, 2, 3}, <<1, 2>>>>
  BY <1>4 DEF RowOrdered
<1>5. CASE row = <<{0, 3}, <<0>>>>
  BY <1>5 DEF RowOrdered
<1>6. CASE row = <<{1, 3}, <<1>>>>
  BY <1>6 DEF RowOrdered
<1>7. CASE row = <<{2, 3}, <<2>>>>
  BY <1>7 DEF RowOrdered
<1>8. CASE row = <<{3}, <<>>>>
  BY <1>8 DEF RowOrdered
<1> QED
  BY <1>1, <1>2, <1>3, <1>4, <1>5, <1>6, <1>7, <1>8 DEF HostRows

\* The walk of a tree comes to the power layer before it comes to the hardware, and to
\* the host network before it comes to a layer of an instance (TreeDictionary.py).
THEOREM DictionaryOrdered ==
    \A a \in KnownLayerStrings : RowOrdered(a, TREE_DICTIONARY[a])
<1> SUFFICES ASSUME NEW a \in KnownLayerStrings
             PROVE  RowOrdered(a, TREE_DICTIONARY[a])
  OBVIOUS
<1> DEFINE row == CHOOSE r \in TreeRows : r[1] = a
<1>1. row \in TreeRows /\ row[1] = a
  <2>1. \E r \in TreeRows : r[1] = a
    BY DEF KnownLayerStrings
  <2> QED
    BY <2>1
<1>2. TREE_DICTIONARY[a] = row[2]
  BY DEF TREE_DICTIONARY
<1>3. RowOrdered(row[1], row[2])
  BY <1>1, InstanceRowsOrdered, ProcessRowsOrdered, GuestRowsOrdered, NetworkRowsOrdered,
     HostRowsOrdered DEF TreeRows
<1> QED
  BY <1>1, <1>2, <1>3

----------------------------------------------------------------------------
\* Among layers there is a lowest ...
LEMMA MinOfLayers ==
    ASSUME NEW S \in SUBSET (0..8), S # {}
    PROVE  Min(S) \in S /\ \A l \in S : Min(S) <= l
<1>1. \E x \in S : \A y \in S : x <= y
  <2>1. CASE \E l \in S : l \in 0..2
    BY <2>1
  <2>2. CASE (\E l \in S : l \in 3..5) /\ \A l \in S : l \notin 0..2
    BY <2>2
  <2>3. CASE \A l \in S : l \in 6..8
    <3>1. \E l \in S : TRUE
      OBVIOUS
    <3> QED
      BY <2>3, <3>1
  <2> QED
    BY <2>1, <2>2, <2>3
<1> QED
  BY <1>1 DEF Min

\* ... and a highest.
LEMMA MaxOfLayers ==
    ASSUME NEW S \in SUBSET (0..8), S # {}
    PROVE  Max(S) \in S /\ \A l \in S : l <= Max(S)
<1>1. \E x \in S : \A y \in S : x >= y
  <2>1. CASE \E l \in S : l \in 6..8
    BY <2>1
  <2>2. CASE (\E l \in S : l \in 3..5) /\ \A l \in S : l \notin 6..8
    BY <2>2
  <2>3. CASE \A l \in S : l \in 0..2
    <3>1. \E l \in S : TRUE
      OBVIOUS
    <3> QED
      BY <2>3, <3>1
  <2> QED
    BY <2>1, <2>2, <2>3
<1>2. \A l \in S : l \in Int
  OBVIOUS
<1> QED
  BY <1>1, <1>2 DEF Max
=============================================================================
