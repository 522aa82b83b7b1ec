----------------------- MODULE FaultDetectionProofs -----------------------
(***************************************************************************)
(* Proofs about FaultDetection, for every set of instances, every set of   *)
(* layer strings of the dictionary and every number of world changes.      *)
(***************************************************************************)
EXTENDS FaultDetection, LayerTreeProofs

(***************************************************************************)
(* The walk of __verify as a bisection: constant-level facts about an      *)
(* order without repetitions and the results seen so far.                  *)
(***************************************************************************)
Order(order) ==
    /\ Len(order) \in 0..6
    /\ \A i \in 1..Len(order) : order[i] \in 0..5
    /\ \A i, j \in 1..Len(order) : order[i] = order[j] => i = j

Results == [0..5 -> {"none", "health", "failed"}]

\* Among the positions of an order there is a first.
LEMMA FirstOfSide ==
    ASSUME NEW order, Order(order), NEW S \in SUBSET (1..Len(order)), S # {}
    PROVE  Min(S) \in S /\ \A j \in S : Min(S) <= j
  BY MinOfLayers DEF Order

\* What lies between a separating value and one end separates the two ends.
LEMMA SeparatesNests ==
    ASSUME NEW w \in 0..5, NEW z \in 0..5, NEW x \in 0..5, NEW y \in 0..5,
           Separates(z, x, y), Separates(w, z, x)
    PROVE  Separates(w, y, x)
  BY DEF Separates

\* A node that follows the n-th one and is on its right, say, but not in its
\* right subtree is separated from it by a node that was probed.
LEMMA ProbedSeparates ==
    ASSUME NEW order, Order(order), NEW seen \in Results, NEW n, WalkSeen(order, seen, n),
           NEW k \in 1..Len(order), k # n, seen[order[k]] = "none",
           k \notin Descendants(order, n)
    PROVE  \E z \in 1..(n - 1) :
               seen[order[z]] # "none" /\ Separates(order[z], order[k], order[n])
<1> n \in 1..Len(order) /\ Len(order) \in 0..6
  BY DEF WalkSeen, Order
<1> \A i \in 1..Len(order) : order[i] \in 0..5
  BY DEF Order
<1>1. CASE k < n
  BY <1>1 DEF WalkSeen
<1>2. CASE k > n
  <2>1. PICK z \in 1..(n - 1) : Separates(order[z], order[n], order[k])
    BY <1>2 DEF Descendants
  <2>2. CASE seen[order[z]] # "none"
    BY <2>1, <2>2 DEF Separates
  <2>3. CASE seen[order[z]] = "none"
    <3>1. PICK w \in 1..(n - 1) :
              seen[order[w]] # "none" /\ Separates(order[w], order[z], order[n])
      BY <2>3 DEF WalkSeen
    <3>2. /\ order[w] \in 0..5 /\ order[z] \in 0..5
          /\ order[k] \in 0..5 /\ order[n] \in 0..5
      BY <1>2
    <3>3. Separates(order[z], order[n], order[k]) /\ Separates(order[w], order[z], order[n])
      BY <2>1, <3>1
    <3>4. Separates(order[w], order[k], order[n])
      BY <3>2, <3>3, SeparatesNests
    <3> QED
      BY <3>1, <3>4
  <2> QED
    BY <2>2, <2>3
<1> QED
  BY <1>1, <1>2

\* Going to the right after a healthy layer keeps the walk a bisection ...
LEMMA WalkGoesUp ==
    ASSUME NEW order, Order(order), NEW seen \in Results, NEW n, WalkSeen(order, seen, n),
           RightSubtree(order, n) # {}
    PROVE  WalkSeen(order, [seen EXCEPT ![order[n]] = "health"], Min(RightSubtree(order, n)))
<1> DEFINE m == Min(RightSubtree(order, n))
           next == [seen EXCEPT ![order[n]] = "health"]
<1> n \in 1..Len(order) /\ Len(order) \in 0..6
  BY DEF WalkSeen, Order
<1> \A i \in 1..Len(order) : order[i] \in 0..5
  BY DEF Order
<1>1. m \in RightSubtree(order, n) /\ \A j \in RightSubtree(order, n) : m <= j
  <2>1. RightSubtree(order, n) \in SUBSET (1..Len(order))
    BY DEF RightSubtree, Descendants
  <2> QED
    BY <2>1, FirstOfSide
<1>2. /\ m \in (n + 1)..Len(order) /\ order[m] > order[n]
      /\ \A z \in 1..(n - 1) : ~Separates(order[z], order[n], order[m])
  BY <1>1 DEF RightSubtree, Descendants
<1> HIDE DEF m
<1>3. next \in Results /\ next[order[n]] = "health"
  BY DEF Results
<1>4. \A k \in 1..Len(order) : k # n => next[order[k]] = seen[order[k]]
  BY DEF Results, Order
<1> HIDE DEF next
<1>5. \A k \in m..Len(order) : next[order[k]] = "none"
  BY <1>2, <1>4 DEF WalkSeen
<1>6. ASSUME NEW k \in 1..(m - 1), next[order[k]] = "health"
      PROVE  order[k] < order[m]
  BY <1>2, <1>4, <1>6 DEF WalkSeen
<1>7. ASSUME NEW k \in 1..(m - 1), next[order[k]] = "failed"
      PROVE  order[k] > order[m]
  <2>1. k \in 1..(n - 1) /\ order[k] > order[n]
    BY <1>2, <1>3, <1>4, <1>7 DEF WalkSeen
  <2>2. order[k] # order[m]
    BY <1>2, <2>1 DEF Order
  <2> QED
    BY <1>2, <2>1, <2>2 DEF Separates
<1>8. ASSUME NEW k \in 1..(m - 1), next[order[k]] = "none"
      PROVE  \E z \in 1..(m - 1) :
                 next[order[z]] # "none" /\ Separates(order[z], order[k], order[m])
  <2>1. k # n /\ seen[order[k]] = "none" /\ k \in 1..Len(order)
    BY <1>2, <1>3, <1>4, <1>8
  <2>2. CASE k \in Descendants(order, n)
    <3>1. order[k] < order[n]
      <4>1. k \notin RightSubtree(order, n)
        BY <1>1, <1>2
      <4>2. order[k] # order[n]
        BY <2>1 DEF Order
      <4> QED
        BY <2>1, <2>2, <4>1, <4>2 DEF RightSubtree
    <3> QED
      BY <1>2, <1>3, <3>1 DEF Separates
  <2>3. CASE k \notin Descendants(order, n)
    <3>1. PICK z \in 1..(n - 1) :
              seen[order[z]] # "none" /\ Separates(order[z], order[k], order[n])
      BY <2>1, <2>3, ProbedSeparates
    <3>2. order[z] # order[m] /\ z \in 1..(m - 1) /\ next[order[z]] # "none"
      BY <1>2, <1>4, <3>1 DEF Order
    <3>3. Separates(order[z], order[k], order[m])
      BY <1>2, <3>1, <3>2, <2>1 DEF Separates
    <3> QED
      BY <3>2, <3>3
  <2> QED
    BY <2>2, <2>3
<1>9. m \in 1..Len(order)
  BY <1>2
<1> QED
  BY <1>5, <1>6, <1>7, <1>8, <1>9 DEF WalkSeen, m, next

\* ... and so does going to the left after a failed one.
LEMMA WalkGoesDown ==
    ASSUME NEW order, Order(order), NEW seen \in Results, NEW n, WalkSeen(order, seen, n),
           LeftSubtree(order, n) # {}
    PROVE  WalkSeen(order, [seen EXCEPT ![order[n]] = "failed"], Min(LeftSubtree(order, n)))
<1> DEFINE m == Min(LeftSubtree(order, n))
           next == [seen EXCEPT ![order[n]] = "failed"]
<1> n \in 1..Len(order) /\ Len(order) \in 0..6
  BY DEF WalkSeen, Order
<1> \A i \in 1..Len(order) : order[i] \in 0..5
  BY DEF Order
<1>1. m \in LeftSubtree(order, n) /\ \A j \in LeftSubtree(order, n) : m <= j
  <2>1. LeftSubtree(order, n) \in SUBSET (1..Len(order))
    BY DEF LeftSubtree, Descendants
  <2> QED
    BY <2>1, FirstOfSide
<1>2. /\ m \in (n + 1)..Len(order) /\ order[m] < order[n]
      /\ \A z \in 1..(n - 1) : ~Separates(order[z], order[n], order[m])
  BY <1>1 DEF LeftSubtree, Descendants
<1> HIDE DEF m
<1>3. next \in Results /\ next[order[n]] = "failed"
  BY DEF Results
<1>4. \A k \in 1..Len(order) : k # n => next[order[k]] = seen[order[k]]
  BY DEF Results, Order
<1> HIDE DEF next
<1>5. \A k \in m..Len(order) : next[order[k]] = "none"
  BY <1>2, <1>4 DEF WalkSeen
<1>6. ASSUME NEW k \in 1..(m - 1), next[order[k]] = "health"
      PROVE  order[k] < order[m]
  <2>1. k \in 1..(n - 1) /\ order[k] < order[n]
    BY <1>2, <1>3, <1>4, <1>6 DEF WalkSeen
  <2>2. order[k] # order[m]
    BY <1>2, <2>1 DEF Order
  <2> QED
    BY <1>2, <2>1, <2>2 DEF Separates
<1>7. ASSUME NEW k \in 1..(m - 1), next[order[k]] = "failed"
      PROVE  order[k] > order[m]
  BY <1>2, <1>4, <1>7 DEF WalkSeen
<1>8. ASSUME NEW k \in 1..(m - 1), next[order[k]] = "none"
      PROVE  \E z \in 1..(m - 1) :
                 next[order[z]] # "none" /\ Separates(order[z], order[k], order[m])
  <2>1. k # n /\ seen[order[k]] = "none" /\ k \in 1..Len(order)
    BY <1>2, <1>3, <1>4, <1>8
  <2>2. CASE k \in Descendants(order, n)
    <3>1. order[k] > order[n]
      <4>1. k \notin LeftSubtree(order, n)
        BY <1>1, <1>2
      <4>2. order[k] # order[n]
        BY <2>1 DEF Order
      <4> QED
        BY <2>1, <2>2, <4>1, <4>2 DEF LeftSubtree
    <3> QED
      BY <1>2, <1>3, <3>1 DEF Separates
  <2>3. CASE k \notin Descendants(order, n)
    <3>1. PICK z \in 1..(n - 1) :
              seen[order[z]] # "none" /\ Separates(order[z], order[k], order[n])
      BY <2>1, <2>3, ProbedSeparates
    <3>2. order[z] # order[m] /\ z \in 1..(m - 1) /\ next[order[z]] # "none"
      BY <1>2, <1>4, <3>1 DEF Order
    <3>3. Separates(order[z], order[k], order[m])
      BY <1>2, <3>1, <3>2, <2>1 DEF Separates
    <3> QED
      BY <3>2, <3>3
  <2> QED
    BY <2>2, <2>3
<1>9. m \in 1..Len(order)
  BY <1>2
<1> QED
  BY <1>5, <1>6, <1>7, <1>8, <1>9 DEF WalkSeen, m, next

\* When a healthy layer has nothing on its right, the next layer above it in the
\* order was seen failing ...
LEMMA NextAboveFailed ==
    ASSUME NEW order, Order(order), NEW seen \in Results, NEW n, WalkSeen(order, seen, n),
           RightSubtree(order, n) = {},
           NEW k \in 1..Len(order), order[k] > order[n],
           \A z \in 1..Len(order) : order[z] > order[n] => order[z] >= order[k]
    PROVE  seen[order[k]] = "failed"
<1> n \in 1..Len(order) /\ Len(order) \in 0..6 /\ k # n
  BY DEF WalkSeen, Order
<1> \A i \in 1..Len(order) : order[i] \in 0..5
  BY DEF Order
<1>1. k \notin Descendants(order, n)
  <2>1. k \notin RightSubtree(order, n)
    OBVIOUS
  <2> QED
    BY <2>1 DEF RightSubtree
<1>2. seen[order[k]] # "none"
  <2> SUFFICES ASSUME seen[order[k]] = "none" PROVE FALSE
    OBVIOUS
  <2>1. PICK z \in 1..(n - 1) : Separates(order[z], order[k], order[n])
    BY <1>1, ProbedSeparates
  <2> QED
    BY <2>1 DEF Separates
<1>3. k < n
  BY <1>2 DEF WalkSeen
<1> QED
  BY <1>2, <1>3 DEF WalkSeen, Results

\* ... and when a failed layer has nothing on its left, the next layer below it was
\* seen healthy.
LEMMA NextBelowHealthy ==
    ASSUME NEW order, Order(order), NEW seen \in Results, NEW n, WalkSeen(order, seen, n),
           LeftSubtree(order, n) = {},
           NEW k \in 1..Len(order), order[k] < order[n],
           \A z \in 1..Len(order) : order[z] < order[n] => order[z] <= order[k]
    PROVE  seen[order[k]] = "health"
<1> n \in 1..Len(order) /\ Len(order) \in 0..6 /\ k # n
  BY DEF WalkSeen, Order
<1> \A i \in 1..Len(order) : order[i] \in 0..5
  BY DEF Order
<1>1. k \notin Descendants(order, n)
  <2>1. k \notin LeftSubtree(order, n)
    OBVIOUS
  <2> QED
    BY <2>1 DEF LeftSubtree
<1>2. seen[order[k]] # "none"
  <2> SUFFICES ASSUME seen[order[k]] = "none" PROVE FALSE
    OBVIOUS
  <2>1. PICK z \in 1..(n - 1) : Separates(order[z], order[k], order[n])
    BY <1>1, ProbedSeparates
  <2> QED
    BY <2>1 DEF Separates
<1>3. k < n
  BY <1>2 DEF WalkSeen
<1> QED
  BY <1>2, <1>3 DEF WalkSeen, Results
----------------------------------------------------------------------------
\* The order of a known layer string is one, over its layers below the highest.
LEMMA KnownOrder ==
    ASSUME NEW a \in KnownLayerStrings
    PROVE  /\ WellFormed(a)
           /\ Order(TREE_DICTIONARY[a])
           /\ HighestOf(a) \in a /\ \A l \in a : l <= HighestOf(a)
           /\ \A i \in 1..Len(TREE_DICTIONARY[a]) :
                 TREE_DICTIONARY[a][i] \in a /\ TREE_DICTIONARY[a][i] < HighestOf(a)
           /\ \A l \in a : l # HighestOf(a) =>
                 \E i \in 1..Len(TREE_DICTIONARY[a]) : TREE_DICTIONARY[a][i] = l
<1>1. WellFormed(a)
  BY EveryLayerStringKnown
<1>2. HighestOf(a) \in {3, 6} /\ HighestOf(a) \in a /\ \A l \in a : l <= HighestOf(a)
  BY <1>1 DEF WellFormed, HighestOf, HOST_NETWORK_LAYER_NUM, INSTANCE_NETWORK_LAYER_NUM
<1>3. RowComplete(a, TREE_DICTIONARY[a])
  BY DictionaryComplete
<1> DEFINE order == TREE_DICTIONARY[a]
<1> HIDE DEF order
<1>4. ASSUME NEW i \in 1..Len(order)
      PROVE  order[i] \in a /\ order[i] \in 0..5 /\ order[i] < HighestOf(a)
  <2>1. order[i] \in a /\ order[i] # HighestOf(a)
    BY <1>3 DEF RowComplete, order
  <2>2. order[i] \in 0..6
    BY <2>1, <1>1 DEF WellFormed
  <2> QED
    BY <2>1, <2>2, <1>2
<1>5. Order(order)
  BY <1>3, <1>4 DEF RowComplete, Order, order
<1> QED
  BY <1>1, <1>2, <1>3, <1>4, <1>5 DEF RowComplete, order

\* The inductive invariant.
IInv ==
    /\ TypeOK
    /\ NetworkLayersKept
    /\ WalkOrdered
    /\ DiagnosisBracketed
    /\ RecoveryStaysInLevel

\* The layers that are watched, and the host layers among them, are known.
LEMMA WatchedKnown ==
    ASSUME TypeOK, NetworkLayersKept
    PROVE  active \in KnownLayerStrings /\ active \cap HOST_LEVEL_RANGE \in KnownLayerStrings
<1>1. active \in KnownLayerStrings /\ WellFormed(active)
  BY EveryLayerStringKnown DEF TypeOK, WorldTyped, LayersTyped
<1>2. WellFormed(active \cap HOST_LEVEL_RANGE)
  BY <1>1 DEF WellFormed, HOST_LEVEL_RANGE
<1> QED
  BY <1>1, <1>2, EveryLayerStringKnown

\* So are the protected ones with a detector less or a detector more.
LEMMA MergingKeepsKnown ==
    ASSUME TypeOK, NetworkLayersKept, NEW layers \in SUBSET protected,
           HOST_NETWORK_LAYER_NUM \in layers,
           INSTANCE_NETWORK_LAYER_NUM \in protected => INSTANCE_NETWORK_LAYER_NUM \in layers
    PROVE  layers \in KnownLayerStrings
<1>1. WellFormed(protected)
  BY LayerStringsKnown, EveryLayerStringKnown DEF TypeOK, WorldTyped, LayersTyped
<1>2. WellFormed(layers)
  BY <1>1 DEF WellFormed, HOST_NETWORK_LAYER_NUM, INSTANCE_NETWORK_LAYER_NUM
<1> QED
  BY <1>2, EveryLayerStringKnown

\* What a detection starts with.
LEMMA NothingKnown ==
    /\ Unknown \in Results /\ \A l \in 0..5 : Unknown[l] = "none"
    /\ NoNode \in 0..6
  BY DEF Unknown, Results, NoNode

\* The initial state.
LEMMA InitIInv == Init => IInv
<1> SUFFICES ASSUME Init PROVE IInv
  OBVIOUS
<1> USE DEF Init
<1>1. WellFormed(protected) /\ protected \in KnownLayerStrings
  BY LayerStringsKnown, EveryLayerStringKnown
<1>2. WellFormed(active)
  BY <1>1 DEF WellFormed, ActiveAfterSetup, GUEST_OS_LAYER_NUM
<1>3. active \in KnownLayerStrings
  BY <1>2, EveryLayerStringKnown
<1>4. TypeOK
  <2>1. WorldTyped
    BY BoundTyped DEF WorldTyped, NoFault
  <2>2. ControlTyped
    <3>1. pc \in Stages /\ status \in {"health", "recover fail"}
      BY DEF Stages
    <3>2. counter \in 1..4
      OBVIOUS
    <3>3. loop_exit \in BOOLEAN
      OBVIOUS
    <3> QED
      BY <3>1, <3>2, <3>3 DEF ControlTyped
  <2>3. LayersTyped
    BY <1>3, NothingKnown DEF LayersTyped, Results
  <2> QED
    BY <2>1, <2>2, <2>3 DEF TypeOK
<1>5. NetworkLayersKept
  BY <1>1, <1>2 DEF NetworkLayersKept, ActiveAfterSetup, WellFormed, HOST_NETWORK_LAYER_NUM,
     INSTANCE_NETWORK_LAYER_NUM, GUEST_OS_LAYER_NUM
<1> QED
  BY <1>4, <1>5 DEF IInv, WalkOrdered, DiagnosisBracketed, RecoveryStaysInLevel

----------------------------------------------------------------------------
\* A step that leaves the layers, the walk and the diagnosis alone, or ends
\* outside of __verify, only has types to keep.
LEMMA Elsewhere ==
    ASSUME IInv, TypeOK', UNCHANGED <<protected, active, recovery_list>>,
           \/ pc' \notin {"verify", "confirm"}
           \/ UNCHANGED <<pc, temp, node, results, fault>>
    PROVE  IInv'
<1>1. NetworkLayersKept' /\ RecoveryStaysInLevel'
  BY DEF IInv, NetworkLayersKept, RecoveryStaysInLevel
<1>2. CASE pc' \notin {"verify", "confirm"}
  BY <1>1, <1>2 DEF IInv, WalkOrdered, DiagnosisBracketed
<1>3. CASE UNCHANGED <<pc, temp, node, results, fault>>
  BY <1>1, <1>3 DEF IInv, WalkOrdered, Tree, DiagnosisBracketed
<1> QED
  BY <1>2, <1>3

\* Whatever happens outside of the thread.
LEMMA WorldKeepsIInv == ASSUME IInv, World \/ Stop PROVE IInv'
<1> USE DEF IInv, TypeOK, faults, entries, devices, config, control
<1>1. ASSUME WorldTyped', UNCHANGED <<config, control, active, scratch>>,
             pc' = pc \/ pc' = "exited"
      PROVE  IInv'
  <2>1. ControlTyped'
    BY <1>1 DEF ControlTyped, Stages
  <2>2. LayersTyped'
    BY <1>1 DEF LayersTyped, scratch
  <2>3. pc' \notin {"verify", "confirm"} \/ UNCHANGED <<pc, temp, node, results, fault>>
    BY <1>1 DEF scratch
  <2> QED
    BY <1>1, <2>1, <2>2, <2>3, Elsewhere DEF scratch
<1>2. ASSUME WorldChanges, hostFault' \in HOST_LEVEL_RANGE \cup {NoFault},
             vmFault' \in [Instances -> INSTANCE_LEVEL_RANGE \cup {NoFault}],
             coming' \subseteq Instances \X {4, 5}, dictionary' \subseteq Instances,
             vmState' \in [Instances -> {"healthy", "operated", "other"}],
             flag' \in [Instances -> {4, 5, NoFault}],
             bmc' \in BOOLEAN, libvirtd' \in BOOLEAN,
             connection' \in {"none", "alive", "dead"}, pc' = pc \/ pc' = "exited"
      PROVE  IInv'
  <2>1. changes' \in 0..MaxWorldChanges
    BY <1>2, BoundTyped DEF WorldChanges, WorldTyped
  <2>2. WorldTyped'
    BY <1>2, <2>1 DEF WorldChanges, WorldTyped
  <2> QED
    BY <1>1, <1>2, <2>2 DEF WorldChanges
<1> USE DEF WorldTyped
<1>3. CASE HostChanges
  BY <1>2, <1>3 DEF HostChanges
<1>4. CASE BmcChanges
  BY <1>2, <1>4 DEF BmcChanges
<1>5. CASE LibvirtdChanges
  BY <1>2, <1>5 DEF LibvirtdChanges
<1>6. ASSUME NEW i \in Instances, InstanceChanges(i) PROVE IInv'
  <2>1. coming' \subseteq Instances \X {4, 5}
    BY <1>6 DEF InstanceChanges
  <2> QED
    BY <1>2, <1>6, <2>1 DEF InstanceChanges
<1>7. ASSUME NEW i \in Instances, NEW l \in {4, 5}, Callback(i, l) PROVE IInv'
  <2>1. WorldTyped'
    BY <1>7 DEF Callback
  <2> QED
    BY <1>1, <1>7, <2>1 DEF Callback
<1>8. ASSUME NEW i \in Instances, UserOperates(i) PROVE IInv'
  BY <1>2, <1>8 DEF UserOperates
<1>9. ASSUME NEW i \in Instances, InstanceAdded(i) PROVE IInv'
  BY <1>2, <1>9 DEF InstanceAdded
<1>10. ASSUME NEW i \in Instances, InstanceRemoved(i) PROVE IInv'
  BY <1>2, <1>10 DEF InstanceRemoved
<1>11. CASE Stop
  <2>1. WorldTyped'
    BY <1>11 DEF Stop
  <2>2. ControlTyped'
    BY <1>11 DEF Stop, ControlTyped
  <2>3. LayersTyped'
    BY <1>11 DEF Stop, LayersTyped, scratch
  <2> QED
    BY <1>11, <2>1, <2>2, <2>3, Elsewhere DEF Stop, scratch
<1> QED
  BY <1>3, <1>4, <1>5, <1>6, <1>7, <1>8, <1>9, <1>10, <1>11 DEF World

\* The steps of the thread around __verify: they leave the layers alone and
\* neither begin nor end a verification.
AroundVerify ==
    \/ StartDetect \/ VerifyRaises \/ VerifyRepeats \/ Spin \/ Confirm \/ CheckRecoverable
    \/ UpdateAndSleep \/ AwaitHost \/ HostIsBack \/ KeepAwaiting \/ Exit

\* The steps around a verification keep the invariant.
LEMMA AroundKeepsIInv == ASSUME IInv, AroundVerify \/ UNCHANGED vars PROVE IInv'
<1> USE DEF IInv, TypeOK, faults, entries, devices, config, control
<1>0. UNCHANGED vars => IInv'
  BY Elsewhere DEF vars, WorldTyped, ControlTyped, LayersTyped, scratch
<1>1. CASE StartDetect
  <2>1. WorldTyped' /\ ControlTyped'
    BY <1>1 DEF StartDetect, WorldTyped, ControlTyped, Stages
  <2>2. LayersTyped'
    BY <1>1 DEF StartDetect, WorldTyped, LayersTyped
  <2> QED
    BY <1>1, <2>1, <2>2, Elsewhere DEF StartDetect
<1>2. CASE VerifyRaises
  <2>1. WorldTyped' /\ ControlTyped'
    BY <1>2 DEF VerifyRaises, Raise, WorldTyped, ControlTyped, Stages
  <2>2. LayersTyped'
    BY <1>2, NothingKnown DEF VerifyRaises, Raise, LayersTyped, Results
  <2> QED
    BY <1>2, <2>1, <2>2, Elsewhere DEF VerifyRaises, Raise
<1>3. CASE VerifyRepeats
  <2>1. WorldTyped' /\ ControlTyped'
    BY <1>3 DEF VerifyRepeats, scratch, WorldTyped, ControlTyped, Stages
  <2>2. LayersTyped'
    BY <1>3 DEF VerifyRepeats, scratch, LayersTyped
  <2> QED
    BY <1>3, <2>1, <2>2, Elsewhere DEF VerifyRepeats, scratch
<1>4. CASE Spin
  BY <1>0, <1>4 DEF Spin
<1>5. CASE Confirm
  <2>1. WorldTyped' /\ ControlTyped'
    <3>1. /\ vmState' \in [Instances -> {"healthy", "operated", "other"}]
          /\ flag' \in [Instances -> {4, 5, NoFault}]
      BY <1>5 DEF Confirm, WorldTyped, EntryAfterPing, RevertToDefault
    <3> QED
      BY <1>5, <3>1 DEF Confirm, Raise, Return, WorldTyped, ControlTyped, Stages
  <2>2. LayersTyped'
    BY <1>5, NothingKnown DEF Confirm, Raise, Return, LayersTyped, Results
  <2> QED
    BY <1>5, <2>1, <2>2, Elsewhere DEF Confirm, Raise, Return
<1>6. CASE CheckRecoverable
  <2>1. WorldTyped' /\ ControlTyped'
    BY <1>6 DEF CheckRecoverable, Return, WorldTyped, ControlTyped, Stages
  <2>2. LayersTyped'
    BY <1>6, NothingKnown DEF CheckRecoverable, Return, LayersTyped, Results
  <2> QED
    BY <1>6, <2>1, <2>2, Elsewhere DEF CheckRecoverable, Return
<1>7. CASE UpdateAndSleep
  <2>1. WorldTyped' /\ ControlTyped'
    BY <1>7 DEF UpdateAndSleep, WorldTyped, ControlTyped, Stages
  <2>2. LayersTyped'
    BY <1>7 DEF UpdateAndSleep, LayersTyped
  <2> QED
    BY <1>7, <2>1, <2>2, Elsewhere DEF UpdateAndSleep
<1>8. CASE AwaitHost
  <2>1. WorldTyped' /\ ControlTyped'
    BY <1>8 DEF AwaitHost, scratch, WorldTyped, ControlTyped, Stages
  <2>2. LayersTyped'
    BY <1>8 DEF AwaitHost, scratch, LayersTyped
  <2> QED
    BY <1>8, <2>1, <2>2, Elsewhere DEF AwaitHost, scratch
<1>9. CASE HostIsBack
  <2>1. WorldTyped' /\ ControlTyped'
    BY <1>9 DEF HostIsBack, scratch, WorldTyped, ControlTyped, Stages
  <2>2. LayersTyped'
    BY <1>9 DEF HostIsBack, scratch, LayersTyped
  <2> QED
    BY <1>9, <2>1, <2>2, Elsewhere DEF HostIsBack, scratch
<1>10. CASE KeepAwaiting
  BY <1>0, <1>10 DEF KeepAwaiting
<1>11. CASE Exit
  <2>1. WorldTyped' /\ ControlTyped'
    BY <1>11 DEF Exit, scratch, WorldTyped, ControlTyped, Stages
  <2>2. LayersTyped'
    BY <1>11 DEF Exit, scratch, LayersTyped
  <2> QED
    BY <1>11, <2>1, <2>2, Elsewhere DEF Exit, scratch
<1> QED
  BY <1>0, <1>1, <1>2, <1>3, <1>4, <1>5, <1>6, <1>7, <1>8, <1>9, <1>10, <1>11
     DEF AroundVerify
----------------------------------------------------------------------------
\* A verification begins with a tree whose root is unknown, or without a tree and
\* with a single layer to blame.
LEMMA VerifyBegins ==
    ASSUME NEW layers \in KnownLayerStrings, Verify(layers),
           layers \in {active', active' \cap HOST_LEVEL_RANGE}
    PROVE  /\ pc' \in {"verify", "confirm"}
           /\ temp' \in KnownLayerStrings /\ unchecked' \subseteq Instances
           /\ node' \in 0..6 /\ results' \in Results /\ fault' \in Layers \cup {NoLayer}
           /\ WalkOrdered' /\ DiagnosisBracketed'
<1> DEFINE order == TREE_DICTIONARY[layers]
<1>1. temp' = layers /\ unchecked' = {} /\ results' = Unknown /\ Tree' = order
  BY DEF Verify, Tree
<1>2. /\ Order(order) /\ WellFormed(layers)
      /\ HighestOf(layers) \in layers /\ \A l \in layers : l <= HighestOf(layers)
      /\ \A l \in layers : l # HighestOf(layers) => \E i \in 1..Len(order) : order[i] = l
  BY KnownOrder
<1> HIDE DEF order
<1>3. CASE Len(order) = 0
  <2>1. pc' = "confirm" /\ fault' = HighestOf(layers) /\ node' = NoNode
    BY <1>3 DEF Verify, order
  <2>2. \A l \in layers : l = HighestOf(layers)
    BY <1>2, <1>3
  <2>3. fault' \in layers /\ {l \in temp' : l < fault'} = {} /\ fault' \in 0..6
    <3>1. fault' \in layers /\ fault' \in 0..6
      BY <1>2, <2>1 DEF WellFormed
    <3>2. \A l \in temp' : l = fault'
      BY <1>1, <2>1, <2>2
    <3>3. \A l \in temp' : ~(l < fault')
      BY <3>1, <3>2
    <3> QED
      BY <3>1, <3>3
  <2>4. DiagnosisBracketed'
    BY <1>1, <2>1, <2>3 DEF DiagnosisBracketed
  <2> QED
    BY <1>1, <2>1, <2>3, <2>4, NothingKnown
       DEF WalkOrdered, Layers, HOST_LEVEL_RANGE, INSTANCE_LEVEL_RANGE
<1>4. CASE Len(order) # 0
  <2>1. pc' = "verify" /\ fault' = NoLayer /\ node' = 1
    BY <1>4 DEF Verify, order
  <2>2. WalkSeen(order, Unknown, 1)
    BY <1>2, <1>4, NothingKnown DEF WalkSeen, Order
  <2>3. WalkOrdered'
    BY <1>1, <2>1, <2>2 DEF WalkOrdered
  <2> QED
    BY <1>1, <2>1, <2>3, NothingKnown DEF DiagnosisBracketed
<1> QED
  BY <1>3, <1>4

\* The two steps that decide whether to verify.
LEMMA DetectHostKeepsIInv == ASSUME IInv, DetectHostHighest PROVE IInv'
<1>1. TypeOK /\ NetworkLayersKept /\ RecoveryStaysInLevel
  BY DEF IInv
<1>2. /\ UNCHANGED <<faults, entries, devices, changes, config, connection, control, active>>
      /\ UNCHANGED <<target, recovery_list, quiet>>
      /\ pc = "host level"
  BY DEF DetectHostHighest
<1>3. WorldTyped'
  BY <1>1, <1>2 DEF TypeOK, WorldTyped, faults, entries, devices, config
<1>4. NetworkLayersKept' /\ RecoveryStaysInLevel'
  BY <1>1, <1>2 DEF NetworkLayersKept, RecoveryStaysInLevel, config
<1>5. CASE Return(NoLayer)
  <2>1. LayersTyped' /\ ControlTyped'
    BY <1>1, <1>2, <1>5, NothingKnown
       DEF TypeOK, LayersTyped, ControlTyped, Stages, control, Return, Results
  <2> QED
    BY <1>2, <1>3, <1>5, <2>1, Elsewhere DEF TypeOK, Return, config
<1>6. CASE Verify(active \cap HOST_LEVEL_RANGE)
  <2>1. active \cap HOST_LEVEL_RANGE \in KnownLayerStrings
    BY <1>1, WatchedKnown
  <2>2. active \cap HOST_LEVEL_RANGE \in {active', active' \cap HOST_LEVEL_RANGE}
    BY <1>2
  <2>3. LayersTyped' /\ ControlTyped'
    BY <1>1, <1>2, <1>6, <2>1, <2>2, VerifyBegins
       DEF TypeOK, LayersTyped, ControlTyped, Stages, control, Results
  <2> QED
    BY <1>3, <1>4, <1>6, <2>1, <2>2, <2>3, VerifyBegins DEF IInv, TypeOK
<1> QED
  BY <1>5, <1>6 DEF DetectHostHighest

\* So does the beginning of one on the instance level.
LEMMA DetectInstanceKeepsIInv ==
    ASSUME IInv, NEW i \in Instances, DetectInstanceHighest(i) PROVE IInv'
<1>1. TypeOK /\ NetworkLayersKept /\ RecoveryStaysInLevel
  BY DEF IInv
<1>2. /\ UNCHANGED <<faults, coming, devices, changes, config, connection, control, active>>
      /\ UNCHANGED <<recovery_list, quiet>>
      /\ pc = "instance level"
  BY DEF DetectInstanceHighest
<1>3. WorldTyped'
  <2>1. /\ vmState' \in [Instances -> {"healthy", "operated", "other"}]
        /\ flag' \in [Instances -> {4, 5, NoFault}]
    BY <1>1 DEF DetectInstanceHighest, TypeOK, WorldTyped, EntryAfterPing, RevertToDefault
  <2> QED
    BY <1>1, <1>2, <2>1 DEF TypeOK, WorldTyped, faults, entries, devices, config
<1>4. NetworkLayersKept' /\ RecoveryStaysInLevel'
  BY <1>1, <1>2 DEF NetworkLayersKept, RecoveryStaysInLevel, config
<1>5. \/ Verify(active) /\ target' \in Instances \cup {NoInstance}
      \/ unchecked' = unchecked \ {i} /\ UNCHANGED <<pc, temp, target, node, results, fault>>
      \/ Return(NoLayer) /\ UNCHANGED target
  BY <1>1 DEF DetectInstanceHighest, TypeOK, LayersTyped
<1>6. CASE Verify(active) /\ target' \in Instances \cup {NoInstance}
  <2>1. active \in KnownLayerStrings
    BY <1>1, WatchedKnown
  <2>2. active \in {active', active' \cap HOST_LEVEL_RANGE}
    BY <1>2
  <2>3. LayersTyped' /\ ControlTyped'
    BY <1>1, <1>2, <1>6, <2>1, <2>2, VerifyBegins
       DEF TypeOK, LayersTyped, ControlTyped, Stages, control, Results
  <2> QED
    BY <1>3, <1>4, <1>6, <2>1, <2>2, <2>3, VerifyBegins DEF IInv, TypeOK
<1>7. CASE unchecked' = unchecked \ {i} /\ UNCHANGED <<pc, temp, target, node, results, fault>>
  <2>1. LayersTyped' /\ ControlTyped'
    BY <1>1, <1>2, <1>7 DEF TypeOK, LayersTyped, ControlTyped, control
  <2> QED
    BY <1>2, <1>3, <1>7, <2>1, Elsewhere DEF TypeOK, config
<1>8. CASE Return(NoLayer) /\ UNCHANGED target
  <2>1. LayersTyped' /\ ControlTyped'
    BY <1>1, <1>2, <1>8, NothingKnown
       DEF TypeOK, LayersTyped, ControlTyped, Stages, control, Return, Results
  <2> QED
    BY <1>2, <1>3, <1>8, <2>1, Elsewhere DEF TypeOK, Return, config
<1> QED
  BY <1>5, <1>6, <1>7, <1>8
----------------------------------------------------------------------------
\* What holds whenever __verify is about to probe a layer.
LEMMA AtNode ==
    ASSUME IInv, pc = "verify"
    PROVE  /\ temp \in KnownLayerStrings /\ WellFormed(temp) /\ temp \subseteq active
           /\ \A l \in active : l <= HighestOf(temp) => l \in temp
           /\ Order(Tree) /\ results \in Results /\ WalkSeen(Tree, results, node)
           /\ node \in 1..Len(Tree) /\ Len(Tree) \in 0..6
           /\ HighestOf(temp) \in temp /\ HighestOf(temp) \in 0..6
           /\ \A l \in temp : l \in 0..6 /\ l <= HighestOf(temp)
           /\ \A k \in 1..Len(Tree) :
                 Tree[k] \in temp /\ Tree[k] \in 0..5 /\ Tree[k] < HighestOf(temp)
           /\ \A l \in temp : l # HighestOf(temp) => \E k \in 1..Len(Tree) : Tree[k] = l
<1>1. temp \in {active, active \cap HOST_LEVEL_RANGE} /\ WalkSeen(Tree, results, node)
  BY DEF IInv, WalkOrdered
<1>2. temp \in KnownLayerStrings
  BY <1>1, WatchedKnown DEF IInv
<1>3. /\ WellFormed(temp) /\ Order(Tree)
      /\ HighestOf(temp) \in temp /\ \A l \in temp : l <= HighestOf(temp)
      /\ \A k \in 1..Len(Tree) : Tree[k] \in temp /\ Tree[k] < HighestOf(temp)
      /\ \A l \in temp : l # HighestOf(temp) => \E k \in 1..Len(Tree) : Tree[k] = l
  BY <1>2, KnownOrder DEF Tree
<1>4. results \in Results
  BY DEF IInv, TypeOK, LayersTyped, Results
<1>5. \A l \in active : l <= HighestOf(temp) => l \in temp
  <2>1. CASE temp = active
    BY <2>1
  <2>2. CASE temp = active \cap HOST_LEVEL_RANGE
    <3>1. HighestOf(temp) = 3
      BY <2>2 DEF HighestOf, INSTANCE_NETWORK_LAYER_NUM, HOST_NETWORK_LAYER_NUM,
         HOST_LEVEL_RANGE
    <3>2. \A l \in active : l \in 0..6
      BY EveryLayerStringKnown DEF IInv, TypeOK, LayersTyped, WellFormed
    <3> QED
      BY <2>2, <3>1, <3>2 DEF HOST_LEVEL_RANGE
  <2> QED
    BY <1>1, <2>1, <2>2
<1>6. node \in 1..Len(Tree) /\ Len(Tree) \in 0..6 /\ \A k \in 1..Len(Tree) : Tree[k] \in 0..5
  BY <1>1, <1>3 DEF WalkSeen, Order
<1>7. temp \subseteq active
  BY <1>1
<1>8. HighestOf(temp) \in 0..6 /\ \A l \in temp : l \in 0..6
  BY <1>3 DEF WellFormed
<1> QED
  BY <1>1, <1>2, <1>3, <1>4, <1>5, <1>6, <1>7, <1>8

\* A healthy layer: the walk goes up, or the next active layer above is blamed.
LEMMA VerifyHealthyKeepsIInv == ASSUME IInv, VerifyHealthy PROVE IInv'
<1> DEFINE up == RightSubtree(Tree, node)
           above == {l \in active : l > Tree[node]}
<1>1. TypeOK /\ NetworkLayersKept /\ RecoveryStaysInLevel
  BY DEF IInv
<1>2. /\ pc = "verify" /\ results' = [results EXCEPT ![Tree[node]] = "health"]
      /\ UNCHANGED <<faults, entries, devices, changes, config, connection, control>>
      /\ UNCHANGED <<active, temp, unchecked, target, recovery_list, quiet>>
  BY DEF VerifyHealthy, VerifiedLayer
<1>3. WorldTyped' /\ NetworkLayersKept' /\ RecoveryStaysInLevel'
  BY <1>1, <1>2 DEF TypeOK, WorldTyped, NetworkLayersKept, RecoveryStaysInLevel, faults,
     entries, devices, config
<1>4. Tree' = Tree /\ results' \in Results
  BY <1>2, AtNode DEF Tree, Results
<1>5. CASE up # {}
  <2>1. node' = Min(up) /\ UNCHANGED <<pc, fault>>
    BY <1>5 DEF VerifyHealthy
  <2>2. WalkSeen(Tree, results', node')
    BY <1>2, <1>5, <2>1, AtNode, WalkGoesUp
  <2>3. node' \in 0..6
    <3>1. PICK n \in 0..6 : n = Len(Tree)
      BY <1>2, AtNode
    <3>2. node' \in 1..n
      BY <2>2, <3>1 DEF WalkSeen
    <3> QED
      BY <3>2
  <2>4. LayersTyped' /\ ControlTyped'
    BY <1>1, <1>2, <1>4, <2>1, <2>3
       DEF TypeOK, LayersTyped, ControlTyped, control, Results
  <2>5. WalkOrdered'
    BY <1>2, <1>4, <2>2 DEF IInv, WalkOrdered
  <2> QED
    BY <1>2, <1>3, <2>1, <2>4, <2>5 DEF IInv, TypeOK, DiagnosisBracketed
<1>6. CASE up = {}
  <2>1. pc' = "confirm" /\ fault' = Min(above) /\ node' = NoNode
    BY <1>6 DEF VerifyHealthy, Diagnose, get_higher_active_layer_num, VerifiedLayer
  <2>2. fault' \in active /\ fault' > Tree[node] /\ fault' \in 0..6
        /\ \A l \in active : l > Tree[node] => fault' <= l
    <3>1. above \in SUBSET (0..8)
      BY <1>1, EveryLayerStringKnown DEF TypeOK, LayersTyped, WellFormed
    <3>2. HighestOf(temp) \in above
      BY <1>2, AtNode
    <3> QED
      BY <2>1, <3>1, <3>2, MinOfLayers, EveryLayerStringKnown
         DEF IInv, TypeOK, LayersTyped, WellFormed
  <2>3. fault' \in temp /\ fault' <= HighestOf(temp)
    BY <1>2, <2>2, AtNode
  <2>4. fault' # HighestOf(temp) => results'[fault'] = "failed"
    <3> SUFFICES ASSUME fault' # HighestOf(temp) PROVE results'[fault'] = "failed"
      OBVIOUS
    <3>1. PICK k \in 1..Len(Tree) : Tree[k] = fault'
      BY <1>2, <2>3, AtNode
    <3>2. \A z \in 1..Len(Tree) : Tree[z] > Tree[node] => Tree[z] >= Tree[k]
      BY <1>2, <2>2, <3>1, AtNode
    <3>3. results[Tree[k]] = "failed"
      <4>1. Order(Tree) /\ results \in Results /\ WalkSeen(Tree, results, node)
        BY <1>2, AtNode
      <4>2. RightSubtree(Tree, node) = {} /\ Tree[k] > Tree[node]
        BY <1>6, <2>2, <3>1
      <4> QED
        BY <3>1, <3>2, <4>1, <4>2, NextAboveFailed
    <3> QED
      BY <1>2, <2>2, <3>1, <3>3, AtNode DEF Results
  <2>5. Max({l \in temp : l < fault'}) = Tree[node] /\ results'[Tree[node]] = "health"
    <3> DEFINE below == {l \in temp : l < fault'}
    <3>1. Tree[node] \in below
      BY <1>2, <2>2, AtNode
    <3>2. \A l \in below : l <= Tree[node]
      BY <1>2, <2>2, AtNode
    <3>3. below \in SUBSET (0..8)
      BY <1>2, AtNode
    <3> HIDE DEF below
    <3>4. Max(below) \in below /\ Tree[node] <= Max(below) /\ Max(below) <= Tree[node]
      BY <3>1, <3>2, <3>3, MaxOfLayers
    <3>5. Max(below) \in 0..8 /\ Tree[node] \in 0..8
      BY <3>1, <3>3, <3>4
    <3>6. Max(below) = Tree[node]
      BY <3>4, <3>5
    <3> QED
      BY <1>2, <3>6, AtNode DEF Results, below
  <2>6. DiagnosisBracketed'
    BY <1>2, <2>1, <2>3, <2>4, <2>5 DEF DiagnosisBracketed
  <2>7. LayersTyped'
    BY <1>1, <1>2, <1>4, <2>1, <2>2, NothingKnown
       DEF TypeOK, LayersTyped, Results, Layers, HOST_LEVEL_RANGE, INSTANCE_LEVEL_RANGE
  <2>8. ControlTyped'
    BY <1>1, <1>2, <2>1 DEF TypeOK, ControlTyped, Stages, control
  <2> QED
    BY <1>3, <2>1, <2>6, <2>7, <2>8 DEF IInv, TypeOK, WalkOrdered
<1> QED
  BY <1>5, <1>6

\* A failed layer: the walk goes down, or the layer itself is blamed.
LEMMA VerifyFailedKeepsIInv == ASSUME IInv, VerifyFailed PROVE IInv'
<1> DEFINE down == LeftSubtree(Tree, node)
<1>1. TypeOK /\ NetworkLayersKept /\ RecoveryStaysInLevel
  BY DEF IInv
<1>2. /\ pc = "verify" /\ results' = [results EXCEPT ![Tree[node]] = "failed"]
      /\ UNCHANGED <<faults, entries, devices, changes, config, connection, control>>
      /\ UNCHANGED <<active, temp, unchecked, target, recovery_list, quiet>>
  BY DEF VerifyFailed, VerifiedLayer
<1>3. WorldTyped' /\ NetworkLayersKept' /\ RecoveryStaysInLevel'
  BY <1>1, <1>2 DEF TypeOK, WorldTyped, NetworkLayersKept, RecoveryStaysInLevel, faults,
     entries, devices, config
<1>4. Tree' = Tree /\ results' \in Results
  BY <1>2, AtNode DEF Tree, Results
<1>5. CASE down # {}
  <2>1. node' = Min(down) /\ UNCHANGED <<pc, fault>>
    BY <1>5 DEF VerifyFailed
  <2>2. WalkSeen(Tree, results', node')
    BY <1>2, <1>5, <2>1, AtNode, WalkGoesDown
  <2>3. node' \in 0..6
    <3>1. PICK n \in 0..6 : n = Len(Tree)
      BY <1>2, AtNode
    <3>2. node' \in 1..n
      BY <2>2, <3>1 DEF WalkSeen
    <3> QED
      BY <3>2
  <2>4. LayersTyped' /\ ControlTyped'
    BY <1>1, <1>2, <1>4, <2>1, <2>3
       DEF TypeOK, LayersTyped, ControlTyped, control, Results
  <2>5. WalkOrdered'
    BY <1>2, <1>4, <2>2 DEF IInv, WalkOrdered
  <2> QED
    BY <1>2, <1>3, <2>1, <2>4, <2>5 DEF IInv, TypeOK, DiagnosisBracketed
<1>6. CASE down = {}
  <2>1. pc' = "confirm" /\ fault' = Tree[node] /\ node' = NoNode
    BY <1>6 DEF VerifyFailed, Diagnose, VerifiedLayer
  <2>2. fault' \in temp /\ fault' \in 0..5 /\ fault' < HighestOf(temp)
        /\ results'[fault'] = "failed"
    BY <1>2, <2>1, AtNode DEF Results
  <2> DEFINE below == {l \in temp : l < fault'}
  <2>3. ASSUME below # {} PROVE results'[Max(below)] = "health"
    <3>1. below \in SUBSET (0..8)
      BY <1>2, AtNode
    <3> HIDE DEF below
    <3>2. Max(below) \in below /\ \A l \in below : l <= Max(below)
      BY <2>3, <3>1, MaxOfLayers
    <3> USE DEF below
    <3>3. Max(below) \in temp /\ Max(below) < Tree[node]
      BY <2>1, <3>2
    <3> HIDE DEF below
    <3>4. PICK k \in 1..Len(Tree) : Tree[k] = Max(below)
      <4>1. Max(below) # HighestOf(temp)
        BY <1>2, <3>3, AtNode
      <4> QED
        BY <1>2, <3>3, <4>1, AtNode
    <3>5. \A z \in 1..Len(Tree) : Tree[z] < Tree[node] => Tree[z] <= Tree[k]
      BY <1>2, <2>1, <3>2, <3>4, AtNode DEF below
    <3>6. results[Tree[k]] = "health"
      <4>1. Tree[k] < Tree[node]
        BY <3>3, <3>4
      <4> QED
        BY <1>2, <1>6, <3>5, <4>1, AtNode, NextBelowHealthy
    <3> QED
      BY <1>2, <3>3, <3>4, <3>6, AtNode DEF Results
  <2>4. DiagnosisBracketed'
    BY <1>2, <2>1, <2>2, <2>3 DEF DiagnosisBracketed
  <2>5. LayersTyped'
    BY <1>1, <1>2, <1>4, <2>1, <2>2, NothingKnown
       DEF TypeOK, LayersTyped, Results, Layers, HOST_LEVEL_RANGE, INSTANCE_LEVEL_RANGE
  <2>6. ControlTyped'
    BY <1>1, <1>2, <2>1 DEF TypeOK, ControlTyped, Stages, control
  <2> QED
    BY <1>3, <2>1, <2>4, <2>5, <2>6 DEF IInv, TypeOK, WalkOrdered
<1> QED
  BY <1>5, <1>6

\* A failed detector: its layer is merged, and is never a network layer.
LEMMA VerifyDisablesKeepsIInv == ASSUME IInv, VerifyDisables PROVE IInv'
<1>1. TypeOK /\ NetworkLayersKept /\ RecoveryStaysInLevel
  BY DEF IInv
<1>2. /\ pc = "verify" /\ active' = active \ {Tree[node]} /\ Verify(temp \ {Tree[node]})
      /\ UNCHANGED <<faults, entries, devices, changes, config, connection, control>>
      /\ UNCHANGED <<target, recovery_list, quiet>>
  BY DEF VerifyDisables, VerifiedLayer
<1>3. Tree[node] \notin {3, 6}
  <2>1. Detect(3, target) # "detector failed"
    BY DEF Detect, check_network_status, Seen
  <2>2. Tree[node] \in 0..5 /\ Detect(Tree[node], target) = "detector failed"
    BY <1>2, AtNode DEF VerifyDisables, Verified, VerifiedLayer
  <2>3. Tree[node] # 3
    BY <2>1, <2>2, Zenon
  <2>4. Tree[node] # 6
    BY <1>2, AtNode
  <2> QED
    BY <2>3, <2>4
<1>4. NetworkLayersKept'
  BY <1>1, <1>2, <1>3 DEF NetworkLayersKept, config, HOST_NETWORK_LAYER_NUM,
     INSTANCE_NETWORK_LAYER_NUM
<1>5. WorldTyped' /\ RecoveryStaysInLevel'
  BY <1>1, <1>2 DEF TypeOK, WorldTyped, RecoveryStaysInLevel, faults, entries, devices, config
<1>6. active' \in KnownLayerStrings
  BY <1>1, <1>2, <1>4, MergingKeepsKnown DEF NetworkLayersKept, config
<1>7. temp \ {Tree[node]} \in KnownLayerStrings
  <2>1. WellFormed(temp \ {Tree[node]})
    BY <1>2, <1>3, AtNode DEF WellFormed
  <2> QED
    BY <2>1, EveryLayerStringKnown
<1>8. temp \ {Tree[node]} \in {active', active' \cap HOST_LEVEL_RANGE}
  BY <1>2 DEF IInv, WalkOrdered
<1>9. LayersTyped' /\ ControlTyped'
  BY <1>1, <1>2, <1>6, <1>7, <1>8, VerifyBegins
     DEF TypeOK, LayersTyped, ControlTyped, Stages, control, Results
<1> QED
  BY <1>2, <1>4, <1>5, <1>7, <1>8, <1>9, VerifyBegins DEF IInv, TypeOK
----------------------------------------------------------------------------
\* A recovery list spans from above the next active layer to the diagnosed one, and
\* the host network layer is active: it stays within one level.
LEMMA RecoveryListInLevel ==
    ASSUME NEW layers \in KnownLayerStrings, NEW l \in Layers
    PROVE  \/ get_recovery_list(layers, l) \subseteq HOST_LEVEL_RANGE
           \/ get_recovery_list(layers, l) \subseteq INSTANCE_LEVEL_RANGE
<1> DEFINE below == {m \in layers : m < l}
<1> USE DEF Layers, HOST_LEVEL_RANGE, INSTANCE_LEVEL_RANGE
<1>1. WellFormed(layers)
  BY EveryLayerStringKnown
<1>2. below \in SUBSET (0..8)
  <2>1. \A m \in layers : m \in 0..8
    BY <1>1 DEF WellFormed
  <2> QED
    BY <2>1
<1>3. get_recovery_list(layers, l) = IF below = {} THEN 0..l ELSE (Max(below) + 1)..l
  BY DEF get_recovery_list
<1>4. CASE l \in 4..6
  <2>1. 3 \in below
    BY <1>1, <1>4 DEF WellFormed
  <2> HIDE DEF below
  <2>2. Max(below) \in 3..8
    <3>1. Max(below) \in below /\ 3 <= Max(below)
      BY <1>2, <2>1, MaxOfLayers
    <3>2. Max(below) \in 0..8
      BY <1>2, <3>1
    <3> QED
      BY <3>1, <3>2
  <2>3. get_recovery_list(layers, l) = (Max(below) + 1)..l
    BY <1>3, <2>1
  <2> QED
    BY <1>4, <2>2, <2>3
<1>5. CASE l \in 0..3
  <2> HIDE DEF below
  <2>1. CASE below = {}
    BY <1>3, <1>5, <2>1
  <2>2. CASE below # {}
    <3>1. Max(below) \in 0..8
      BY <1>2, <2>2, MaxOfLayers
    <3> QED
      BY <1>3, <1>5, <2>2, <3>1
  <2> QED
    BY <2>1, <2>2
<1> QED
  BY <1>4, <1>5

\* The recheck of the merged layers, and the recovery list.
LEMMA CountDetectionKeepsIInv == ASSUME IInv, CountDetection PROVE IInv'
<1>1. TypeOK /\ NetworkLayersKept /\ RecoveryStaysInLevel
  BY DEF IInv
<1>2. /\ pc = "returned" /\ pc' \in {"update", "recover"}
      /\ UNCHANGED <<faults, entries, devices, changes, config, status, loop_exit>>
      /\ UNCHANGED <<temp, unchecked, target, node, results, fault, quiet>>
  BY DEF CountDetection
<1>3. active \subseteq active' /\ active' \subseteq protected'
  BY <1>1, <1>2 DEF CountDetection, Reenabled, NetworkLayersKept, config
<1>4. NetworkLayersKept' /\ active' \in KnownLayerStrings
  <2>1. NetworkLayersKept'
    BY <1>1, <1>2, <1>3 DEF NetworkLayersKept, config
  <2>2. protected' = protected
    BY <1>2 DEF config
  <2> QED
    BY <1>1, <1>3, <2>1, <2>2, MergingKeepsKnown DEF NetworkLayersKept
<1>5. WorldTyped'
  <2>1. connection' \in {"none", "alive", "dead"}
    BY <1>1 DEF CountDetection, ConnectionAfterRegistering, TypeOK, WorldTyped
  <2> QED
    BY <1>1, <1>2, <2>1 DEF TypeOK, WorldTyped, faults, entries, devices, config
<1>6. ControlTyped'
  <2>1. counter' \in 1..4
    <3>1. counter \in 1..4
      BY <1>1 DEF TypeOK, ControlTyped
    <3>2. (counter < 4 /\ counter' = counter + 1) \/ counter' = 1
      BY DEF CountDetection
    <3> QED
      BY <3>1, <3>2
  <2> QED
    BY <1>1, <1>2, <2>1 DEF TypeOK, ControlTyped, Stages
<1>7. RecoveryStaysInLevel' /\ recovery_list' \subseteq Layers
  <2>1. CASE fault = NoLayer
    BY <1>1, <2>1 DEF CountDetection, RecoveryStaysInLevel, TypeOK, LayersTyped
  <2>2. CASE fault # NoLayer
    <3>1. recovery_list' = get_recovery_list(active', fault) /\ fault \in Layers
      BY <1>1, <2>2 DEF CountDetection, TypeOK, LayersTyped
    <3>2. RecoveryStaysInLevel'
      BY <1>4, <3>1, RecoveryListInLevel DEF RecoveryStaysInLevel
    <3> QED
      BY <3>2 DEF RecoveryStaysInLevel, Layers
  <2> QED
    BY <2>1, <2>2
<1>8. LayersTyped'
  BY <1>1, <1>2, <1>4, <1>7 DEF TypeOK, LayersTyped
<1> QED
  BY <1>2, <1>4, <1>5, <1>6, <1>7, <1>8 DEF IInv, TypeOK, WalkOrdered, DiagnosisBracketed

\* The controller's answers.
LEMMA RecoveryKeepsIInv == ASSUME IInv, RecoverySucceeds \/ RecoveryFails PROVE IInv'
<1>1. TypeOK /\ NetworkLayersKept /\ RecoveryStaysInLevel
  BY DEF IInv
<1>2. /\ UNCHANGED <<coming, devices, changes, config, counter, loop_exit>>
      /\ UNCHANGED <<dictionary, temp, unchecked, target, node, results, fault, quiet>>
      /\ pc' \in {"update", "recover"} /\ recovery_list' \subseteq recovery_list
  BY DEF RecoverySucceeds, RecoveryFails, faults
<1>3. WorldTyped'
  <2>1. /\ hostFault' \in HOST_LEVEL_RANGE \cup {NoFault}
        /\ vmFault' \in [Instances -> INSTANCE_LEVEL_RANGE \cup {NoFault}]
        /\ vmState' \in [Instances -> {"healthy", "operated", "other"}]
        /\ flag' \in [Instances -> {4, 5, NoFault}]
        /\ connection' \in {"none", "alive", "dead"}
    <3> USE <1>1 DEF TypeOK, WorldTyped
    <3>1. CASE RecoverySucceeds /\ fault \in HOST_LEVEL_RANGE
      BY <3>1 DEF RecoverySucceeds, ConnectionAfterSetup, ConnectionAfterRegistering
    <3>2. CASE RecoverySucceeds /\ fault \notin HOST_LEVEL_RANGE
      <4>1. target \in Instances => vmFault[target] \in INSTANCE_LEVEL_RANGE \cup {NoFault}
        OBVIOUS
      <4>2. vmFault' \in [Instances -> INSTANCE_LEVEL_RANGE \cup {NoFault}]
        <5>1. PICK l \in {vmFault[target], NoFault} : vmFault' = [vmFault EXCEPT ![target] = l]
          BY <3>2 DEF RecoverySucceeds
        <5> QED
          BY <4>1, <5>1
      <4>3. /\ vmState' \in [Instances -> {"healthy", "operated", "other"}]
            /\ flag' \in [Instances -> {4, 5, NoFault}]
        BY <3>2 DEF RecoverySucceeds, RevertToDefault
      <4> QED
        BY <3>2, <4>2, <4>3 DEF RecoverySucceeds
    <3>3. CASE RecoveryFails
      BY <3>3 DEF RecoveryFails, faults
    <3> QED
      BY <3>1, <3>2, <3>3
  <2> QED
    BY <1>1, <1>2, <2>1 DEF TypeOK, WorldTyped, devices, config
<1>4. ControlTyped'
  <2>1. status' \in {"health", "recover fail"}
    BY <1>1 DEF RecoverySucceeds, RecoveryFails, TypeOK, ControlTyped
  <2> QED
    BY <1>1, <1>2, <2>1 DEF TypeOK, ControlTyped, Stages
<1>5. active' = active \/ active' = ActiveAfterSetup(active, CanConnect)
  BY DEF RecoverySucceeds, RecoveryFails
<1>6. NetworkLayersKept'
  BY <1>1, <1>2, <1>5 DEF NetworkLayersKept, ActiveAfterSetup, config,
     HOST_NETWORK_LAYER_NUM, INSTANCE_NETWORK_LAYER_NUM, GUEST_OS_LAYER_NUM
<1>7. active' \in KnownLayerStrings
  <2>1. protected' = protected
    BY <1>2 DEF config
  <2> QED
    BY <1>1, <1>6, <2>1, MergingKeepsKnown DEF NetworkLayersKept
<1>8. RecoveryStaysInLevel' /\ LayersTyped'
  BY <1>1, <1>2, <1>7 DEF RecoveryStaysInLevel, TypeOK, LayersTyped
<1> QED
  BY <1>2, <1>3, <1>4, <1>6, <1>8 DEF IInv, TypeOK, WalkOrdered, DiagnosisBracketed

\* Every step keeps the inductive invariant.
LEMMA NextKeepsIInv == ASSUME IInv, [Next]_vars PROVE IInv'
<1>1. CASE AroundVerify \/ UNCHANGED vars
  BY <1>1, AroundKeepsIInv
<1>2. CASE World \/ Stop
  BY <1>2, WorldKeepsIInv
<1>3. CASE DetectHostHighest
  BY <1>3, DetectHostKeepsIInv
<1>4. ASSUME NEW i \in Instances, DetectInstanceHighest(i) PROVE IInv'
  BY <1>4, DetectInstanceKeepsIInv
<1>5. CASE VerifyHealthy
  BY <1>5, VerifyHealthyKeepsIInv
<1>6. CASE VerifyFailed
  BY <1>6, VerifyFailedKeepsIInv
<1>7. CASE VerifyDisables
  BY <1>7, VerifyDisablesKeepsIInv
<1>8. CASE CountDetection
  BY <1>8, CountDetectionKeepsIInv
<1>9. CASE RecoverySucceeds \/ RecoveryFails
  BY <1>9, RecoveryKeepsIInv
<1> QED
  BY <1>1, <1>2, <1>3, <1>4, <1>5, <1>6, <1>7, <1>8, <1>9 DEF Next, Thread, AroundVerify
----------------------------------------------------------------------------
\* The inductive invariant holds throughout.
THEOREM Invariance == Spec => []IInv
  BY InitIInv, NextKeepsIInv, PTL DEF Spec

\* Every variable keeps its type; in particular the layers that are verified always
\* have a row in the tree dictionary.
THEOREM TypeCorrect == Spec => []TypeOK
<1>1. IInv => TypeOK
  BY DEF IInv
<1> QED
  BY Invariance, <1>1, PTL

\* The network layers are never merged, whatever detectors fail and return.
THEOREM NetworkLayersStay == Spec => []NetworkLayersKept
<1>1. IInv => NetworkLayersKept
  BY DEF IInv
<1> QED
  BY Invariance, <1>1, PTL

\* The walk of __verify is a bisection, whatever the probes answer.
THEOREM WalkIsBisection == Spec => []WalkOrdered
<1>1. IInv => WalkOrdered
  BY DEF IInv
<1> QED
  BY Invariance, <1>1, PTL

\* Whatever changes while the tree is walked, the layer __verify blames was seen
\* failing and the next active layer below it healthy.
THEOREM DiagnosisIsBracketed == Spec => []DiagnosisBracketed
<1>1. IInv => DiagnosisBracketed
  BY DEF IInv
<1> QED
  BY Invariance, <1>1, PTL

\* A recovery stays within the host level or within the instance level.
THEOREM RecoveryIsOfOneLevel == Spec => []RecoveryStaysInLevel
<1>1. IInv => RecoveryStaysInLevel
  BY DEF IInv
<1> QED
  BY Invariance, <1>1, PTL
----------------------------------------------------------------------------
(***************************************************************************)
(* What is seen when nothing changes.                                      *)
(***************************************************************************)
\* The results that have been collected tell a failed layer from a healthy one.
ResultsTrue ==
    \A l \in 0..5 : /\ results[l] = "failed" => FailedLayer <= l
                    /\ results[l] = "health" => l < FailedLayer

\* While nothing changes, a verification only begins when there is a fault below the
\* highest layer verified, and its results are true.
Sighted ==
    /\ pc = "instance level" =>
           /\ INSTANCE_NETWORK_LAYER_NUM \in active
           /\ quiet => unchecked \subseteq dictionary
    /\ pc \in {"verify", "confirm"} /\ quiet =>
           /\ temp \in {active, active \cap HOST_LEVEL_RANGE}
           /\ FailedLayer <= HighestOf(temp)
           /\ ~PowerFaultHidden => ResultsTrue

\* A node that has been passed on the way up was healthy, or another between it and the
\* next one was.
LEMMA HealthyBelow ==
    ASSUME NEW order, Order(order), NEW seen \in Results, NEW n, WalkSeen(order, seen, n),
           NEW j \in 1..(n - 1), order[j] < order[n]
    PROVE  \E z \in 1..(n - 1) : /\ seen[order[z]] = "health" /\ order[z] \in 0..5
                                 /\ order[j] <= order[z] /\ order[z] < order[n]
<1>1. n \in 1..Len(order) /\ Len(order) \in 0..6 /\ \A i \in 1..Len(order) : order[i] \in 0..5
  BY DEF WalkSeen, Order
<1>2. \A z \in 1..(n - 1) : order[z] \in 0..5 /\ seen[order[z]] \in {"none", "health", "failed"}
  BY <1>1 DEF Results
<1>3. \A z \in 1..(n - 1) : order[z] < order[n] => seen[order[z]] # "failed"
  BY <1>1, <1>2 DEF WalkSeen
<1>4. CASE seen[order[j]] # "none"
  BY <1>2, <1>3, <1>4
<1>5. CASE seen[order[j]] = "none"
  <2>1. PICK z \in 1..(n - 1) :
            seen[order[z]] # "none" /\ Separates(order[z], order[j], order[n])
    BY <1>5 DEF WalkSeen
  <2>2. order[j] < order[z] /\ order[z] < order[n]
    BY <1>1, <1>2, <2>1 DEF Separates
  <2> QED
    BY <1>2, <1>3, <2>1, <2>2
<1> QED
  BY <1>4, <1>5

\* The failed layer is one of the host, or of the instance that is verified, or none.
LEMMA FailedLayerTyped ==
    ASSUME TypeOK
    PROVE  /\ hostFault \in {0, 1, 2, 3, 7}
           /\ hostFault # 7 => FailedLayer = hostFault
           /\ hostFault = 7 => FailedLayer \in {4, 5, 6, 7}
           /\ hostFault = 7 /\ target \in Instances =>
                 FailedLayer = IF flag[target] # 7 THEN flag[target] ELSE 6
<1>1. hostFault \in {0, 1, 2, 3, 7} /\ \A i \in Instances : flag[i] \in {4, 5, 7}
  BY DEF TypeOK, WorldTyped, HOST_LEVEL_RANGE, NoFault
<1>2. target \in Instances \cup {NoInstance}
  BY DEF TypeOK, LayersTyped
<1> QED
  BY <1>1, <1>2, NoInstanceIsNone DEF FailedLayer, NoFault, INSTANCE_NETWORK_LAYER_NUM

\* What a probe says is true, when the results so far are and the power layer does not
\* hide behind the hardware layer: the hardware detector takes a node without power for
\* a healthy one, and libvirt an instance on a failed host, but the walk has been to the
\* power layer and to the host network before it asks them.
LEMMA ProbeTrue ==
    ASSUME IInv, pc = "verify", ResultsTrue, ~PowerFaultHidden
    PROVE  /\ Verified = "failed" => FailedLayer <= Tree[node]
           /\ Verified = "health" => Tree[node] < FailedLayer
<1>1. TypeOK
  BY DEF IInv
<1> DEFINE l == Tree[node]
<1>2. /\ Order(Tree) /\ results \in Results /\ WalkSeen(Tree, results, node)
      /\ node \in 1..Len(Tree) /\ l \in temp /\ l \in 0..5 /\ temp \subseteq active
      /\ \A k \in active : k <= HighestOf(temp) => k \in temp
      /\ temp \in KnownLayerStrings /\ HighestOf(temp) \in 0..6 /\ l < HighestOf(temp)
  BY AtNode
<1>3. RowOrdered(temp, Tree)
  BY <1>2, DictionaryOrdered DEF Tree
<1>4. ASSUME NEW j \in 1..(node - 1), Tree[j] < l PROVE Tree[j] < FailedLayer
  <2>1. PICK z \in 1..(node - 1) : /\ results[Tree[z]] = "health" /\ Tree[z] \in 0..5
                                   /\ Tree[j] <= Tree[z] /\ Tree[z] < Tree[node]
    BY <1>2, <1>4, HealthyBelow
  <2>2. Tree[z] < FailedLayer
    BY <2>1 DEF ResultsTrue
  <2>3. Tree[j] \in 0..5
    BY <1>2, <1>4 DEF Order
  <2>4. FailedLayer \in 0..7
    BY <1>1, FailedLayerTyped
  <2> QED
    BY <2>1, <2>2, <2>3, <2>4
<1>5. l = 1 => hostFault # 0
  <2> SUFFICES ASSUME l = 1, hostFault = 0 PROVE FALSE
    OBVIOUS
  <2>1. 1 \in active
    BY <1>2
  <2>2. 0 \in active
    BY <2>1 DEF PowerFaultHidden
  <2>3. 0 \in temp
    BY <1>2, <2>2
  <2>4. PICK j \in 1..(node - 1) : Tree[j] = 0
    BY <1>2, <1>3, <2>3 DEF RowOrdered
  <2>5. 0 < FailedLayer
    BY <1>4, <2>4
  <2> QED
    BY <1>1, <2>5, FailedLayerTyped
<1>6. l \in {4, 5} => hostFault = 7
  <2> SUFFICES ASSUME l \in {4, 5} PROVE hostFault = 7
    OBVIOUS
  <2>1. PICK j \in 1..(node - 1) : Tree[j] = 3
    BY <1>2, <1>3 DEF RowOrdered
  <2>2. 3 < FailedLayer
    BY <1>4, <2>1
  <2> QED
    BY <1>1, <2>2, FailedLayerTyped
<1>7. Verified = Detect(l, target)
  BY DEF Verified, VerifiedLayer
<1> HIDE DEF l
<1> USE DEF Seen
<1>8. CASE l = 0
  <2>1. Verified \in {"failed", "health"} => Verified = Seen(hostFault = 0)
    <3>1. Detect(0, target) = check_power_status
      BY DEF Detect
    <3>2. Verified = check_power_status
      BY <1>7, <1>8, <3>1
    <3> QED
      BY <3>2 DEF check_power_status
  <2> QED
    BY <1>1, <1>8, <2>1, FailedLayerTyped DEF l
<1>9. CASE l = 1
  <2>1. Verified \in {"failed", "health"} => Verified = Seen(hostFault = 1)
    <3>1. Detect(1, target) = check_hardware_status
      BY DEF Detect
    <3>2. Verified = check_hardware_status
      BY <1>7, <1>9, <3>1
    <3> QED
      BY <3>2 DEF check_hardware_status
  <2> QED
    BY <1>1, <1>5, <1>9, <2>1, FailedLayerTyped DEF l
<1>10. CASE l = 2
  <2>1. Verified \in {"failed", "health"} => Verified = Seen(hostFault <= 2)
    <3>1. Detect(2, target) = check_os_status
      BY DEF Detect
    <3>2. Verified = check_os_status
      BY <1>7, <1>10, <3>1
    <3> QED
      BY <3>2 DEF check_os_status
  <2> QED
    BY <1>1, <1>10, <2>1, FailedLayerTyped DEF l
<1>11. CASE l = 3
  <2>1. Verified = Seen(hostFault <= 3)
    BY <1>7, <1>11 DEF Detect, check_network_status
  <2> QED
    BY <1>1, <1>11, <2>1, FailedLayerTyped DEF l
<1>12. CASE l \in {4, 5}
  <2>1. Verified = InstanceFlag(l, target)
    BY <1>7, <1>12 DEF Detect
  <2>2. Verified \in {"failed", "health"} =>
            target \in Instances /\ Verified = Seen(flag[target] <= l)
    BY <1>1, <2>1 DEF InstanceFlag, TypeOK, WorldTyped
  <2>3. target \in Instances => flag[target] \in {4, 5, 7}
    BY <1>1 DEF TypeOK, WorldTyped, NoFault
  <2>4. Verified \in {"failed", "health"} =>
            FailedLayer = IF flag[target] # 7 THEN flag[target] ELSE 6
    BY <1>1, <1>6, <1>12, <2>2, FailedLayerTyped
  <2> QED
    BY <1>12, <2>2, <2>3, <2>4 DEF l
<1> QED
  BY <1>2, <1>8, <1>9, <1>10, <1>11, <1>12 DEF l

\* A verification that begins on a fault begins without results.
LEMMA VerifyIsSighted ==
    ASSUME NEW layers, Verify(layers), layers \in {active', active' \cap HOST_LEVEL_RANGE},
           quiet' => FailedLayer' <= HighestOf(layers)
    PROVE  Sighted'
<1>1. temp' = layers /\ results' = Unknown /\ pc' \in {"verify", "confirm"}
  BY DEF Verify
<1>2. ResultsTrue'
  BY <1>1 DEF ResultsTrue, Unknown
<1> QED
  BY <1>1, <1>2 DEF Sighted

\* A probe whose result is kept.
LEMMA ProbeIsSighted ==
    ASSUME IInv, Sighted, VerifyHealthy \/ VerifyFailed PROVE Sighted'
<1>1. /\ pc = "verify" /\ pc' \in {"verify", "confirm"}
      /\ UNCHANGED <<hostFault, flag, active, temp, target, quiet>>
      /\ \/ Verified = "health" /\ results' = [results EXCEPT ![Tree[node]] = "health"]
         \/ Verified = "failed" /\ results' = [results EXCEPT ![Tree[node]] = "failed"]
  BY DEF VerifyHealthy, VerifyFailed, Diagnose, VerifiedLayer, faults, entries
<1>2. FailedLayer' = FailedLayer /\ PowerFaultHidden' = PowerFaultHidden
  BY <1>1 DEF FailedLayer, PowerFaultHidden
<1>3. ASSUME quiet, ~PowerFaultHidden PROVE ResultsTrue'
  <2>1. ResultsTrue
    BY <1>1, <1>3 DEF Sighted
  <2>2. /\ Verified = "failed" => FailedLayer <= Tree[node]
        /\ Verified = "health" => Tree[node] < FailedLayer
    BY <1>1, <1>3, <2>1, ProbeTrue
  <2>3. results \in Results /\ Tree[node] \in 0..5
    BY <1>1, AtNode
  <2> QED
    BY <1>1, <1>2, <2>1, <2>2, <2>3 DEF ResultsTrue, Results
<1> QED
  BY <1>1, <1>2, <1>3 DEF Sighted

\* A detection starts.
LEMMA StartIsSighted ==
    ASSUME IInv, Sighted,
           DetectHostHighest \/ \E i \in Instances : DetectInstanceHighest(i)
    PROVE  Sighted'
<1>1. TypeOK /\ TypeOK'
  BY NextKeepsIInv DEF IInv, Next, Thread
<1>2. CASE DetectHostHighest
  <2>1. UNCHANGED <<active, hostFault, target, quiet>>
    BY <1>2 DEF DetectHostHighest, faults
  <2>2. CASE Return(NoLayer)
    BY <2>2 DEF Return, Sighted
  <2>3. CASE check_network_status # "health" /\ Verify(active \cap HOST_LEVEL_RANGE)
    <3>1. hostFault' <= 3
      BY <2>1, <2>3 DEF check_network_status, Seen
    <3>2. FailedLayer' <= 3
      <4>1. hostFault' \in {0, 1, 2, 3, 7}
        BY <1>1, <2>1, FailedLayerTyped
      <4>2. hostFault' # NoFault
        BY <3>1, <4>1 DEF NoFault
      <4> QED
        BY <3>1, <4>2 DEF FailedLayer
    <3>3. HighestOf(active \cap HOST_LEVEL_RANGE) = 3
      BY DEF HighestOf, HOST_LEVEL_RANGE, INSTANCE_NETWORK_LAYER_NUM, HOST_NETWORK_LAYER_NUM
    <3> QED
      BY <2>1, <2>3, <3>2, <3>3, VerifyIsSighted
  <2> QED
    BY <1>2, <2>2, <2>3 DEF DetectHostHighest
<1>3. ASSUME NEW i \in Instances, DetectInstanceHighest(i) PROVE Sighted'
  <2>1. /\ UNCHANGED <<active, hostFault, dictionary, quiet>>
        /\ pc = "instance level" /\ i \in unchecked
    BY <1>3 DEF DetectInstanceHighest, faults
  <2>2. HighestOf(active) = 6
    BY <2>1 DEF Sighted, HighestOf, INSTANCE_NETWORK_LAYER_NUM
  <2>3. CASE check_instance_network_failure(i) = "failed"
    <3>1. Verify(active) /\ target' = i /\ ~PingAnswered(i)
      BY <1>3, <2>3 DEF DetectInstanceHighest, check_instance_network_failure, Seen
    <3>2. FailedLayer' <= 6
      <4>1. hostFault \in {0, 1, 2, 3, 7}
        BY <1>1, FailedLayerTyped
      <4>2. flag'[i] \in {4, 5, 7}
        BY <1>1 DEF TypeOK, WorldTyped, NoFault
      <4>3. FailedLayer' = IF hostFault # 7 THEN hostFault
                           ELSE IF flag'[i] # 7 THEN flag'[i] ELSE 6
        BY <2>1, <3>1, NoInstanceIsNone DEF FailedLayer, NoFault, INSTANCE_NETWORK_LAYER_NUM
      <4> QED
        BY <4>1, <4>2, <4>3
    <3> QED
      BY <2>1, <2>2, <3>1, <3>2, VerifyIsSighted
  <2>4. CASE check_instance_network_failure(i) # "failed" /\ unchecked # {i}
    <3>1. UNCHANGED pc /\ unchecked' \subseteq unchecked
      BY <1>3, <2>4 DEF DetectInstanceHighest
    <3> QED
      BY <2>1, <3>1 DEF Sighted
  <2>5. CASE check_instance_network_failure(i) = "health" /\ unchecked = {i}
    <3>1. Return(NoLayer)
      BY <1>3, <2>5 DEF DetectInstanceHighest
    <3> QED
      BY <3>1 DEF Return, Sighted
  <2>6. CASE check_instance_network_failure(i) \notin {"failed", "health"} /\ unchecked = {i}
    <3>1. ~quiet
      BY <2>1, <2>6 DEF check_instance_network_failure, Seen, Sighted
    <3>2. Verify(active)
      BY <1>3, <2>6 DEF DetectInstanceHighest
    <3> QED
      BY <2>1, <3>1, <3>2, VerifyIsSighted
  <2> QED
    BY <2>3, <2>4, <2>5, <2>6
<1> QED
  BY <1>2, <1>3

\* A detector fails: what is left to verify is what is left to watch, and the highest
\* layer, which has no detector, is among it.
LEMMA DisablesIsSighted == ASSUME IInv, Sighted, VerifyDisables PROVE Sighted'
<1>1. /\ pc = "verify" /\ active' = active \ {Tree[node]} /\ Verify(temp \ {Tree[node]})
      /\ UNCHANGED <<hostFault, flag, target, quiet>>
  BY DEF VerifyDisables, VerifiedLayer, faults, entries
<1>2. temp \in {active, active \cap HOST_LEVEL_RANGE} /\ Tree[node] \in 0..5
  BY <1>1, AtNode DEF IInv, WalkOrdered
<1>3. temp \ {Tree[node]} \in {active', active' \cap HOST_LEVEL_RANGE}
  BY <1>1, <1>2
<1>4. HighestOf(temp \ {Tree[node]}) = HighestOf(temp)
  BY <1>2 DEF HighestOf, INSTANCE_NETWORK_LAYER_NUM
<1>5. FailedLayer' = FailedLayer
  BY <1>1 DEF FailedLayer
<1>6. quiet => FailedLayer <= HighestOf(temp)
  BY <1>1 DEF Sighted
<1> QED
  BY <1>1, <1>3, <1>4, <1>5, <1>6, VerifyIsSighted

\* Every other step changes the world or is not about a verification.
LEMMA NextIsSighted == ASSUME IInv, Sighted, [Next]_vars PROVE Sighted'
<1>1. ASSUME pc' \notin {"instance level", "verify", "confirm"} PROVE Sighted'
  BY <1>1 DEF Sighted
<1>2. ASSUME UNCHANGED <<faults, flag, active, pc, temp, unchecked, target, results, quiet>>
      PROVE  Sighted'
  <2>1. FailedLayer' = FailedLayer /\ PowerFaultHidden' = PowerFaultHidden
    BY <1>2 DEF FailedLayer, PowerFaultHidden, faults
  <2>2. ResultsTrue' = ResultsTrue
    BY <1>2, <2>1 DEF ResultsTrue
  <2> QED
    BY <1>2, <2>1, <2>2 DEF Sighted, faults
<1>3. CASE World
  <2>1. ~quiet' /\ (pc' = pc \/ pc' = "exited") /\ UNCHANGED active
    BY <1>3 DEF World, WorldChanges, HostChanges, BmcChanges, LibvirtdChanges,
       InstanceChanges, Callback, UserOperates, InstanceAdded, InstanceRemoved
  <2> QED
    BY <2>1 DEF Sighted
<1>4. CASE Stop \/ Spin \/ KeepAwaiting \/ UNCHANGED vars
  BY <1>2, <1>4 DEF Stop, Spin, KeepAwaiting, vars, scratch, entries
<1>5. CASE StartDetect
  BY <1>5 DEF StartDetect, Sighted, faults
<1>6. CASE DetectHostHighest \/ \E i \in Instances : DetectInstanceHighest(i)
  BY <1>6, StartIsSighted
<1>7. CASE VerifyHealthy \/ VerifyFailed
  BY <1>7, ProbeIsSighted
<1>8. CASE VerifyDisables
  BY <1>8, DisablesIsSighted
<1>9. CASE VerifyRaises \/ VerifyRepeats \/ Confirm \/ CheckRecoverable
  BY <1>1, <1>9 DEF VerifyRaises, VerifyRepeats, Raise, Return, Confirm, CheckRecoverable
<1>10. CASE CountDetection \/ RecoverySucceeds \/ RecoveryFails \/ UpdateAndSleep
  BY <1>1, <1>10 DEF CountDetection, RecoverySucceeds, RecoveryFails, UpdateAndSleep
<1>11. CASE AwaitHost \/ HostIsBack \/ Exit
  BY <1>1, <1>11 DEF AwaitHost, HostIsBack, Exit
<1> QED
  BY <1>3, <1>4, <1>5, <1>6, <1>7, <1>8, <1>9, <1>10, <1>11 DEF Next, Thread

\* The results are true, and bracket the failed layer between the diagnosed one and the
\* next below it.
LEMMA SightedIsExact == ASSUME IInv, Sighted PROVE DiagnosisExact
<1> SUFFICES ASSUME pc = "confirm", quiet, ~PowerFaultHidden
             PROVE  fault = Min({l \in active : FailedLayer <= l})
  BY DEF DiagnosisExact
<1> DEFINE S == {l \in active : FailedLayer <= l}
           below == {l \in temp : l < fault}
<1>1. /\ temp \in {active, active \cap HOST_LEVEL_RANGE} /\ ResultsTrue
      /\ FailedLayer <= HighestOf(temp)
  BY DEF Sighted
<1>2. /\ fault \in temp /\ (fault # HighestOf(temp) => results[fault] = "failed")
      /\ below # {} => results[Max(below)] = "health"
  BY DEF IInv, DiagnosisBracketed
<1>3. TypeOK /\ \A l \in active : l \in 0..6
  BY EveryLayerStringKnown DEF IInv, TypeOK, LayersTyped, WellFormed
<1>4. FailedLayer \in 0..7
  BY <1>3, FailedLayerTyped
<1>5. temp \in KnownLayerStrings
  BY <1>1, WatchedKnown DEF IInv
<1>6. HighestOf(temp) \in temp /\ \A l \in temp : l <= HighestOf(temp)
  BY <1>5, KnownOrder
<1>7. fault \in 0..6 /\ fault \in active /\ HighestOf(temp) \in 0..6
  BY <1>1, <1>2, <1>3, <1>6
<1>8. FailedLayer <= fault
  <2>1. fault # HighestOf(temp) => fault \in 0..5
    BY <1>2, <1>6, <1>7
  <2> QED
    BY <1>1, <1>2, <2>1 DEF ResultsTrue
<1>9. ASSUME NEW l \in active, l < fault PROVE l < FailedLayer
  <2>1. l \in temp
    BY <1>1, <1>2, <1>3, <1>9 DEF HOST_LEVEL_RANGE
  <2>2. below \in SUBSET (0..8) /\ l \in below
    BY <1>1, <1>3, <1>9, <2>1
  <2>3. Max(below) \in below /\ l <= Max(below)
    BY <2>2, MaxOfLayers
  <2>4. results[Max(below)] = "health"
    BY <1>2, <2>2
  <2>5. Max(below) < fault /\ Max(below) \in 0..8
    BY <2>2, <2>3
  <2> HIDE DEF below
  <2>6. Max(below) \in 0..5
    BY <1>7, <2>5
  <2>7. Max(below) < FailedLayer
    BY <1>1, <2>4, <2>6 DEF ResultsTrue
  <2> QED
    BY <1>3, <1>4, <1>9, <2>3, <2>6, <2>7
<1>10. S \in SUBSET (0..8) /\ fault \in S
  <2>1. S \subseteq active /\ fault \in S
    BY <1>7, <1>8
  <2> HIDE DEF S
  <2> QED
    BY <1>3, <2>1
<1> HIDE DEF S
<1>11. Min(S) \in S /\ Min(S) <= fault /\ Min(S) \in 0..8
  BY <1>10, MinOfLayers
<1>12. ~(Min(S) < fault)
  BY <1>3, <1>4, <1>9, <1>11 DEF S
<1>13. fault = Min(S)
  BY <1>7, <1>11, <1>12
<1> QED
  BY <1>13 DEF S

\* When neither the world nor what the callbacks have reported of it changes while it is at
\* work, __verify blames the layer that failed or, inside an instance, the one reported as
\* failed, merged upwards into the lowest layer whose detector works; but for a node
\* without power whose power layer is not watched and whose hardware layer is.
THEOREM DiagnosisIsExact == Spec => []DiagnosisExact
<1>1. Init => Sighted
  BY DEF Init, Sighted
<1>2. IInv /\ Sighted /\ [Next]_vars => Sighted'
  BY NextIsSighted
<1>3. IInv /\ Sighted => DiagnosisExact
  BY SightedIsExact
<1> QED
  BY Invariance, <1>1, <1>2, <1>3, PTL DEF Spec
=============================================================================
