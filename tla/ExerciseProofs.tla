---- MODULE ExerciseProofs ----
(* The programs without concurrency of their own, for all inputs: where the
   previous pointers of lab 3's list lead, although the next pointers may lose
   nodes or run in a ring, and which list it is until an insertion departs from
   what is promised; that sort prints what the file holds, in order, and its
   quicksort stays in the array and only exchanges elements; what snooze, nforks
   and findserver report; and that head writes the first lines of its input
   whatever blocks read() cuts it into. *)
EXTENDS Exercises, TLAPS, FiniteSetTheorems, WellFoundedInduction, SequenceTheorems

-----------------------------------------------------------------------------
(* Induction on the natural numbers.                                       *)

\* A set of natural numbers has a least element, so that a set with 0 and the
\* successor of each number in it contains them all.
LEMMA LeastNatural ==
    ASSUME NEW T \in SUBSET Nat, T # {}
    PROVE  \E x \in T : \A y \in T : x <= y
<1> DEFINE R == {ss \in Nat \X Nat : ss[1] < ss[2]}
<1>1. IsWellFoundedOn(R, Nat) /\ T \subseteq Nat
  BY NatLessThanWellFounded DEF OpToRel
<1>2. \A y, x \in Nat : y < x => <<y, x>> \in R
  OBVIOUS
<1> HIDE DEF R
<1>3. PICK x \in T : \A y \in T : <<y, x>> \notin R
  BY <1>1, WFMin
<1>4. \A y \in T : x <= y
  <2> TAKE y \in T
  <2>1. x \in Nat /\ y \in Nat /\ ~(y < x)
    BY <1>2, <1>3
  <2> QED BY <2>1
<1> QED BY <1>4

\* A set that contains 0 and the successor of each number in it contains all.
LEMMA InductionOnSets ==
    ASSUME NEW S, 0 \in S, \A n \in Nat : n \in S => n + 1 \in S
    PROVE  Nat \subseteq S
<1> SUFFICES ASSUME Nat \ S # {} PROVE FALSE
  OBVIOUS
<1>1. PICK x \in Nat \ S : \A y \in Nat \ S : x <= y
  BY LeastNatural
<1>2. x - 1 \in Nat /\ (x - 1) + 1 = x /\ ~(x <= x - 1)
  OBVIOUS
<1>3. x - 1 \in S
  BY <1>1, <1>2
<1> QED BY <1>2, <1>3

-----------------------------------------------------------------------------
(* Lab 3's list: its types and its order.                                  *)


ListTypes ==
    /\ data \in Seq(Nat)
    /\ made \in 0..Len(data)
    /\ head \in 0..Len(data) /\ tail \in 0..Len(data)
    /\ next \in [Nodes -> 0..Len(data)] /\ prev \in [Nodes -> 0..Len(data)]
    /\ ptr1 \in 0..Len(data) /\ ptr2 \in 0..Len(data)
    /\ listPc \in {"insert", "loop", "print", "free", "done"}
    /\ freed \in Seq(Nodes)

\* No data is greater than the tail's and below the head's.
HeadBelowTail ==
    listPc \in {"insert", "loop", "print"} =>
        /\ freed = <<>>
        /\ head = NULL <=> tail = NULL
        /\ head # NULL => data[head] <= data[tail]

\* The loop of insert_in_order(): ptr2 follows ptr1, and n is not below the head.
LoopPair ==
    listPc = "loop" =>
        /\ head # NULL /\ made # 0 /\ ptr1 # NULL
        /\ ptr2 = next[ptr1]
        /\ data[head] <= data[made]

PrevBelow == \A n \in Nodes : prev[n] # NULL => data[prev[n]] < data[n]

\* free_list() goes down: what is freed is above what is freed later.
FreedDescend ==
    /\ \A m, j \in DOMAIN freed : m < j => data[freed[j]] < data[freed[m]]
    /\ tail # NULL => \A m \in DOMAIN freed : data[tail] < data[freed[m]]

ListInv == ListTypes /\ HeadBelowTail /\ LoopPair /\ PrevBelow /\ FreedDescend

LEMMA ListInitially == ListInit(Inputs, "print") => ListInv
<1> SUFFICES ASSUME ListInit(Inputs, "print") PROVE ListInv
  OBVIOUS
<1>1. data \in Seq(Nat)
  BY InputsAssumption DEF ListInit
<1>2. Len(data) \in Nat
  BY <1>1
<1> QED BY <1>1, <1>2 DEF ListInit, ListInv, ListTypes, HeadBelowTail, LoopPair, PrevBelow, FreedDescend, NULL, Nodes

\* An insertion that has set head, tail and prev leaves everything else in order.
LEMMA InsertionKeepsOrder ==
    ASSUME ListInv, listPc \in {"insert", "loop"}, Inserted,
           data' = data, freed' = freed, made' \in 1..Len(data),
           head' \in Nodes, tail' \in Nodes, data[head'] <= data[tail'],
           next' \in [Nodes -> 0..Len(data)], prev' \in [Nodes -> 0..Len(data)],
           \A n \in Nodes : prev'[n] # NULL => data[prev'[n]] < data[n]
    PROVE  ListInv'
<1>1. ListTypes'
  BY DEF ListInv, ListTypes, Inserted, Nodes, NULL
<1>2. HeadBelowTail'
  BY DEF ListInv, HeadBelowTail, Inserted, Nodes, NULL
<1>3. LoopPair'
  BY DEF LoopPair, Inserted
<1>4. PrevBelow'
  BY DEF PrevBelow, Nodes
<1>5. FreedDescend'
  BY DEF ListInv, HeadBelowTail, FreedDescend
<1> QED BY <1>1, <1>2, <1>3, <1>4, <1>5 DEF ListInv

LEMMA ListStepKeeps == ListInv /\ [ListNext]_listVars => ListInv'
<1> SUFFICES ASSUME ListInv, [ListNext]_listVars PROVE ListInv'
  OBVIOUS
<1>t. ListTypes /\ Len(data) \in Nat
  BY DEF ListInv, ListTypes
<1>1. CASE InsertFirst
  <2>1. made' \in 1..Len(data) /\ head' = made' /\ tail' = made' /\ prev' = prev /\ next' = next
    BY <1>1, <1>t DEF InsertFirst, ListTypes
  <2>2. data[made'] \in Nat
    BY <1>t, <2>1 DEF ListTypes
  <2>3. \A n \in Nodes : prev'[n] # NULL => data[prev'[n]] < data[n]
    BY <2>1 DEF ListInv, PrevBelow
  <2> QED
    BY <1>1, <1>t, <2>1, <2>2, <2>3, InsertionKeepsOrder DEF InsertFirst, ListTypes, Nodes
<1>2. CASE InsertHead
  <2>1. /\ made' \in 1..Len(data) /\ head' = made' /\ tail' = tail
        /\ tail \in Nodes /\ head \in Nodes
        /\ prev' = [prev EXCEPT ![tail] = made'] /\ next' = [next EXCEPT ![made'] = tail]
        /\ data[made'] < data[head] /\ data[head] <= data[tail]
    BY <1>2, <1>t DEF InsertHead, ListTypes, ListInv, HeadBelowTail, Nodes, NULL
  <2>2. data[made'] \in Nat /\ data[head] \in Nat /\ data[tail] \in Nat
    BY <1>t, <2>1 DEF ListTypes, Nodes
  <2>3. \A n \in Nodes : prev'[n] # NULL => data[prev'[n]] < data[n]
    <3>1. data[made'] < data[tail]
      BY <2>1, <2>2
    <3>2. \A n \in Nodes : prev'[n] = IF n = tail THEN made' ELSE prev[n]
      BY <1>t, <2>1 DEF ListTypes
    <3> QED BY <3>1, <3>2 DEF ListInv, PrevBelow
  <2>4. next' \in [Nodes -> 0..Len(data)] /\ prev' \in [Nodes -> 0..Len(data)]
    BY <1>t, <2>1 DEF ListTypes, Nodes
  <2> QED
    BY <1>2, <1>t, <2>1, <2>2, <2>3, <2>4, InsertionKeepsOrder DEF InsertHead, Nodes
<1>3. CASE StartLoop
  <2>1. head \in Nodes /\ made' \in 1..Len(data) /\ data[head] <= data[made']
    BY <1>3, <1>t DEF StartLoop, ListTypes, Nodes, NULL
  <2>2. next[head] \in 0..Len(data)
    BY <1>t, <2>1 DEF ListTypes
  <2>3. /\ listPc = "insert" /\ listPc' = "loop" /\ ptr1' = head /\ ptr2' = next[head]
        /\ UNCHANGED <<data, head, tail, next, prev, freed>>
    BY <1>3 DEF StartLoop, links
  <2>4. ListTypes'
    BY <1>t, <2>1, <2>2, <2>3 DEF ListTypes, Nodes
  <2>5. HeadBelowTail' /\ LoopPair'
    BY <2>1, <2>3 DEF ListInv, HeadBelowTail, LoopPair, Nodes, NULL
  <2>6. PrevBelow' /\ FreedDescend'
    BY <2>3 DEF ListInv, PrevBelow, FreedDescend, Nodes
  <2> QED BY <2>4, <2>5, <2>6 DEF ListInv
<1>l. ASSUME listPc = "loop"
      PROVE  /\ made \in Nodes /\ head \in Nodes /\ tail \in Nodes /\ ptr1 \in Nodes
             /\ ptr2 = next[ptr1] /\ ptr2 \in 0..Len(data)
             /\ data[head] <= data[made] /\ data[head] <= data[tail]
             /\ data[made] \in Nat /\ data[ptr1] \in Nat
             /\ (ptr2 # NULL => ptr2 \in Nodes /\ data[ptr2] \in Nat)
  BY <1>t, <1>l DEF ListInv, ListTypes, HeadBelowTail, LoopPair, Nodes, NULL
<1>4. CASE InsertAfterEqual
  <2>1. /\ ptr2 \in Nodes /\ data[made] < data[ptr2]
        /\ prev' = [prev EXCEPT ![ptr2] = made]
        /\ next' = [next EXCEPT ![ptr1] = made, ![made] = ptr1]
    BY <1>4, <1>l DEF InsertAfterEqual
  <2>2. \A n \in Nodes : prev'[n] # NULL => data[prev'[n]] < data[n]
    BY <1>4, <1>l, <1>t, <2>1 DEF InsertAfterEqual, ListInv, PrevBelow, ListTypes
  <2>3. next' \in [Nodes -> 0..Len(data)] /\ prev' \in [Nodes -> 0..Len(data)]
    BY <1>4, <1>l, <1>t, <2>1 DEF InsertAfterEqual, ListTypes, Nodes
  <2> QED
    BY <1>4, <1>l, <1>t, <2>2, <2>3, InsertionKeepsOrder DEF InsertAfterEqual, Nodes
<1>5. CASE InsertBetween
  <2>1. /\ ptr2 \in Nodes /\ data[ptr1] < data[made] /\ data[made] < data[ptr2]
        /\ prev' = [prev EXCEPT ![ptr2] = made, ![made] = ptr1]
        /\ next' = [next EXCEPT ![ptr1] = made, ![made] = ptr2]
    BY <1>5, <1>l DEF InsertBetween
  <2>2. \A n \in Nodes : prev'[n] # NULL => data[prev'[n]] < data[n]
    BY <1>5, <1>l, <1>t, <2>1 DEF InsertBetween, ListInv, PrevBelow, ListTypes
  <2>3. next' \in [Nodes -> 0..Len(data)] /\ prev' \in [Nodes -> 0..Len(data)]
    BY <1>5, <1>l, <1>t, <2>1 DEF InsertBetween, ListTypes, Nodes
  <2> QED
    BY <1>5, <1>l, <1>t, <2>2, <2>3, InsertionKeepsOrder DEF InsertBetween, Nodes
<1>6. CASE NextPair
  <2>1. ptr1' = ptr2 /\ ptr2 \in Nodes /\ ptr2' = next[ptr2] /\ next[ptr2] \in 0..Len(data)
    BY <1>6, <1>l, <1>t DEF NextPair, ListTypes
  <2> QED
    BY <1>6, <1>t, <2>1
    DEF NextPair, links, ListInv, ListTypes, HeadBelowTail, LoopPair, PrevBelow, FreedDescend, Nodes, NULL
<1>7. CASE InsertLast
  <2>1. CASE data[made] > data[ptr1]
    <3>1. /\ prev' = [prev EXCEPT ![made] = ptr1] /\ next' = [next EXCEPT ![ptr1] = made]
          /\ tail' = made /\ head' = head /\ made' = made
      BY <1>7, <2>1 DEF InsertLast
    <3>2. \A n \in Nodes : prev'[n] # NULL => data[prev'[n]] < data[n]
      BY <1>7, <1>l, <1>t, <2>1, <3>1 DEF InsertLast, ListInv, PrevBelow, ListTypes
    <3>3. next' \in [Nodes -> 0..Len(data)] /\ prev' \in [Nodes -> 0..Len(data)]
      BY <1>7, <1>l, <1>t, <3>1 DEF InsertLast, ListTypes, Nodes
    <3> QED
      BY <1>7, <1>l, <1>t, <3>1, <3>2, <3>3, InsertionKeepsOrder DEF InsertLast, Nodes
  <2>2. CASE ~(data[made] > data[ptr1])
    <3>1. next' = next /\ prev' = prev /\ tail' = tail /\ head' = head /\ made' = made
      BY <1>7, <2>2 DEF InsertLast
    <3>2. \A n \in Nodes : prev'[n] # NULL => data[prev'[n]] < data[n]
      BY <3>1 DEF ListInv, PrevBelow
    <3> QED
      BY <1>7, <1>l, <1>t, <3>1, <3>2, InsertionKeepsOrder DEF InsertLast, ListTypes, Nodes
  <2> QED BY <2>1, <2>2
<1>8. CASE PrintNode
  <2>1. ptr1' \in 0..Len(data)
    <3>1. ptr1 \in Nodes /\ ptr1' = next[ptr1]
      BY <1>8, <1>t DEF PrintNode, ListTypes, Nodes, NULL
    <3> QED BY <1>t, <3>1 DEF ListTypes
  <2> QED
    BY <1>8, <1>t, <2>1
    DEF PrintNode, links, ListInv, ListTypes, HeadBelowTail, LoopPair, PrevBelow, FreedDescend, Nodes, NULL
<1>9. CASE Printed
  BY <1>9, <1>t
  DEF Printed, links, ListInv, ListTypes, HeadBelowTail, LoopPair, PrevBelow, FreedDescend, Nodes, NULL
<1>10. CASE FreeTail
  <2>1. tail \in Nodes /\ tail' = prev[tail] /\ freed' = Append(freed, tail) /\ freed \in Seq(Nodes)
    BY <1>10, <1>t DEF FreeTail, ListTypes, Nodes, NULL
  <2>2. prev[tail] \in 0..Len(data) /\ (prev[tail] # NULL => data[prev[tail]] < data[tail])
    BY <1>t, <2>1 DEF ListInv, PrevBelow, ListTypes
  <2>3. \A n \in Nodes : data[n] \in Nat
    BY <1>t DEF ListTypes, Nodes
  <2>4. \A m \in DOMAIN freed' : \/ m \in DOMAIN freed /\ freed'[m] = freed[m] /\ freed[m] \in Nodes
                                 \/ m = Len(freed) + 1 /\ freed'[m] = tail
    BY <2>1
  <2>5. FreedDescend'
    <3>1. \A m, j \in DOMAIN freed' : m < j => data[freed'[j]] < data[freed'[m]]
      BY <2>1, <2>4 DEF ListInv, FreedDescend, NULL, Nodes
    <3>2. prev[tail] # NULL => \A m \in DOMAIN freed' : data[prev[tail]] < data[freed'[m]]
      BY <2>1, <2>2, <2>3, <2>4 DEF ListInv, FreedDescend, NULL, Nodes
    <3> QED BY <1>10, <2>1, <3>1, <3>2 DEF FreeTail, FreedDescend
  <2>6. ListTypes'
    BY <1>10, <1>t, <2>1, <2>2 DEF FreeTail, ListTypes, Nodes
  <2>7. listPc = "free" /\ listPc' = "free" /\ data' = data /\ prev' = prev
    BY <1>10 DEF FreeTail
  <2>8. HeadBelowTail' /\ LoopPair'
    BY <2>7 DEF HeadBelowTail, LoopPair
  <2>9. PrevBelow'
    BY <2>7 DEF ListInv, PrevBelow, Nodes
  <2> QED BY <2>5, <2>6, <2>8, <2>9 DEF ListInv
<1>11. CASE Freed
  BY <1>11, <1>t
  DEF Freed, links, ListInv, ListTypes, HeadBelowTail, LoopPair, PrevBelow, FreedDescend, Nodes, NULL
<1>12. CASE UNCHANGED listVars
  BY <1>12, <1>t
  DEF listVars, ListInv, ListTypes, HeadBelowTail, LoopPair, PrevBelow, FreedDescend, Nodes, NULL
<1> QED
  BY <1>1, <1>2, <1>3, <1>4, <1>5, <1>6, <1>7, <1>8, <1>9, <1>10, <1>11, <1>12 DEF ListNext

\* "This will check if your previous pointers have been set up correctly"
\* (linked_list.h:92): whatever is inserted, prev leads to smaller data, and
\* free_list() never frees a node twice.
THEOREM PrevAlwaysDescends == ListSpec => []PrevDescends
<1>1. ListInv => PrevDescends
  <2> SUFFICES ASSUME ListInv PROVE PrevDescends
    OBVIOUS
  <2>1. ASSUME NEW m \in DOMAIN freed, NEW j \in DOMAIN freed, freed[m] = freed[j] PROVE m = j
    <3>1. m \in Nat /\ j \in Nat /\ data[freed[m]] \in Nat
      BY <2>1 DEF ListInv, ListTypes, Nodes
    <3>2. ~(m < j) /\ ~(j < m)
      BY <2>1, <3>1 DEF ListInv, FreedDescend
    <3> QED BY <3>1, <3>2
  <2>2. IsInjective(freed)
    BY <2>1 DEF IsInjective
  <2> QED BY <2>2 DEF ListInv, PrevBelow, PrevDescends
<1> QED BY <1>1, ListInitially, ListStepKeeps, PTL DEF ListSpec

-----------------------------------------------------------------------------
(* Lab 3's list: what it is until an insertion departs from the comment.    *)

ListsFrom(h, m) == h = [k \in 0..m |-> IF k = 0 THEN <<>> ELSE Put(h[k - 1], k)]

LEMMA ListsExist == ASSUME NEW m \in Nat PROVE \E h : ListsFrom(h, m)
<1> DEFINE S == {n \in Nat : \E h : ListsFrom(h, n)}
<1>1. 0 \in S
  <2>1. \A k \in 0..0 : k = 0
    OBVIOUS
  <2>2. [k \in 0..0 |-> <<>>] = [k \in 0..0 |-> IF k = 0 THEN <<>> ELSE Put([q \in 0..0 |-> <<>>][k - 1], k)]
    BY <2>1
  <2>3. ListsFrom([k \in 0..0 |-> <<>>], 0)
    BY <2>2 DEF ListsFrom
  <2> QED BY <2>3
<1>2. \A n \in Nat : n \in S => n + 1 \in S
  <2> SUFFICES ASSUME NEW n \in Nat, n \in S PROVE \E h : ListsFrom(h, n + 1)
    OBVIOUS
  <2>1. PICK h : ListsFrom(h, n)
    OBVIOUS
  <2>2. \A k \in 0..n : h[k] = IF k = 0 THEN <<>> ELSE Put(h[k - 1], k)
    BY <2>1 DEF ListsFrom
  <2> DEFINE g == [k \in 0..n + 1 |-> IF k = n + 1 THEN Put(h[k - 1], k) ELSE h[k]]
  <2>3. \A k \in 0..n + 1 : g[k] = IF k = 0 THEN <<>> ELSE Put(g[k - 1], k)
    <3> TAKE k \in 0..n + 1
    <3>1. CASE k = 0
      BY <2>2, <3>1
    <3>2. CASE k # 0
      <4>1. k - 1 \in 0..n /\ k - 1 # n + 1 /\ (k # n + 1 => k \in 0..n)
        BY <3>2
      <4>2. g[k - 1] = h[k - 1]
        BY <4>1
      <4>3. g[k] = Put(h[k - 1], k)
        BY <2>2, <3>2, <4>1
      <4> QED BY <3>2, <4>2, <4>3
    <3> QED BY <3>1, <3>2
  <2>4. ListsFrom(g, n + 1)
    <3>1. g = [k \in 0..n + 1 |-> g[k]]
      OBVIOUS
    <3> HIDE DEF g
    <3> QED BY <2>3, <3>1 DEF ListsFrom
  <2> QED BY <2>4
<1> HIDE DEF S
<1>3. m \in S
  BY <1>1, <1>2, InductionOnSets
<1> QED BY <1>3 DEF S

LEMMA ExpectedUnfolds ==
    ASSUME data \in Seq(Nat)
    PROVE  \A k \in 0..Len(data) : Expected[k] = IF k = 0 THEN <<>> ELSE Put(Expected[k - 1], k)
<1>1. PICK h : ListsFrom(h, Len(data))
  <2>1. Len(data) \in Nat
    OBVIOUS
  <2> QED BY <2>1, ListsExist
<1>2. Expected = CHOOSE g : ListsFrom(g, Len(data))
  BY DEF Expected, ListsFrom
<1>3. ListsFrom(Expected, Len(data))
  BY <1>1, <1>2
<1> QED BY <1>3 DEF ListsFrom

LEMMA ExpectedStays == ASSUME data' = data PROVE Expected' = Expected
  BY DEF Expected, Put, Place

\* A list in order, of the first k nodes.
InOrder(nodes, k) ==
    /\ nodes \in Seq(1..k)
    /\ \A p, q \in DOMAIN nodes : p < q => data[nodes[p]] < data[nodes[q]]

LEMMA PlaceIs ==
    ASSUME NEW n, NEW nodes, NEW j \in 0..Len(nodes), Len(nodes) \in Nat, DOMAIN nodes = 1..Len(nodes),
           \A p \in DOMAIN nodes : p <= j <=> data[nodes[p]] <= data[n]
    PROVE  Place(nodes, n) = j
<1> DEFINE Right(k) == \A p \in DOMAIN nodes : p <= k <=> data[nodes[p]] <= data[n]
<1>1. \A k \in 0..Len(nodes) : Right(k) => k = j
  <2> SUFFICES ASSUME NEW k \in 0..Len(nodes), Right(k) PROVE k = j
    OBVIOUS
  <2>1. ~(j < k)
    <3> SUFFICES ASSUME j < k PROVE FALSE
      OBVIOUS
    <3>1. k \in DOMAIN nodes /\ k <= k /\ ~(k <= j)
      OBVIOUS
    <3> QED BY <3>1
  <2>2. ~(k < j)
    <3> SUFFICES ASSUME k < j PROVE FALSE
      OBVIOUS
    <3>1. j \in DOMAIN nodes /\ j <= j /\ ~(j <= k)
      OBVIOUS
    <3> QED BY <3>1
  <2> QED BY <2>1, <2>2
<1>2. Right(j)
  OBVIOUS
<1> HIDE DEF Right
<1>3. (CHOOSE k \in 0..Len(nodes) : Right(k)) = j
  BY <1>1, <1>2
<1> QED BY <1>3 DEF Place, Right

LEMMA InOrderMeans ==
    ASSUME data \in Seq(Nat), NEW k \in 0..Len(data) - 1, NEW nodes, InOrder(nodes, k)
    PROVE  /\ nodes \in Seq(1..k) /\ Len(nodes) \in Nat /\ DOMAIN nodes = 1..Len(nodes) /\ Len(data) \in Nat /\ k \in Nat
           /\ \A p \in 1..Len(nodes) : nodes[p] \in 1..k
           /\ \A p, q \in 1..Len(nodes) : p < q => data[nodes[p]] < data[nodes[q]]
           /\ data[k + 1] \in Nat /\ \A p \in 1..Len(nodes) : data[nodes[p]] \in Nat
<1>1. Len(data) \in Nat /\ k \in Nat /\ \A n \in 1..Len(data) : data[n] \in Nat
  OBVIOUS
<1>2. nodes \in Seq(1..k) /\ \A p, q \in DOMAIN nodes : p < q => data[nodes[p]] < data[nodes[q]]
  BY DEF InOrder
<1>3. Len(nodes) \in Nat /\ DOMAIN nodes = 1..Len(nodes)
  BY <1>2
<1>4. \A p \in 1..Len(nodes) : nodes[p] \in 1..k
  BY <1>2, <1>3
<1>5. \A p \in 1..Len(nodes) : data[nodes[p]] \in Nat
  BY <1>1, <1>4
<1>6. data[k + 1] \in Nat
  BY <1>1
<1> QED BY <1>1, <1>2, <1>3, <1>4, <1>5, <1>6

LEMMA InsertAtProperties ==
    ASSUME NEW S, NEW nodes \in Seq(S), NEW j \in 0..Len(nodes), NEW e \in S
    PROVE  /\ InsertAt(nodes, j + 1, e) \in Seq(S)
           /\ Len(InsertAt(nodes, j + 1, e)) = Len(nodes) + 1
           /\ \A p \in 1..Len(nodes) + 1 :
                InsertAt(nodes, j + 1, e)[p] = IF p <= j THEN nodes[p] ELSE IF p = j + 1 THEN e ELSE nodes[p - 1]
<1> DEFINE low == SubSeq(nodes, 1, j)
           high == SubSeq(nodes, j + 1, Len(nodes))
           front == low \o <<e>>
<1>1. Len(nodes) \in Nat /\ j \in Int /\ j + 1 \in Int /\ 1 \in Int /\ Len(nodes) \in Int /\ 0 <= j /\ j <= Len(nodes)
  OBVIOUS
<1>2. low \in Seq(S) /\ Len(low) = j /\ \A p \in 1..j : low[p] = nodes[p]
  <2>1. \A p \in 1..j : nodes[p] \in S
    BY <1>1
  <2>2. /\ low \in Seq(S) /\ Len(low) = IF 1 <= j THEN j - 1 + 1 ELSE 0
        /\ \A p \in 1..j - 1 + 1 : low[p] = nodes[1 + p - 1]
    BY <1>1, <2>1, SubSeqProperties
  <2> HIDE DEF low
  <2>3. \A p \in 1..j : low[p] = nodes[p]
    <3> TAKE p \in 1..j
    <3>1. p \in 1..j - 1 + 1 /\ 1 + p - 1 = p
      BY <1>1
    <3> QED BY <2>2, <3>1
  <2> QED BY <1>1, <2>2, <2>3
<1>3. high \in Seq(S) /\ Len(high) = Len(nodes) - j /\ \A p \in 1..Len(nodes) - j : high[p] = nodes[j + p]
  <2>1. \A p \in j + 1..Len(nodes) : nodes[p] \in S
    BY <1>1
  <2>2. /\ high \in Seq(S) /\ Len(high) = IF j + 1 <= Len(nodes) THEN Len(nodes) - (j + 1) + 1 ELSE 0
        /\ \A p \in 1..Len(nodes) - (j + 1) + 1 : high[p] = nodes[(j + 1) + p - 1]
    BY <1>1, <2>1, SubSeqProperties
  <2> HIDE DEF high
  <2>3. \A p \in 1..Len(nodes) - j : high[p] = nodes[j + p]
    <3> TAKE p \in 1..Len(nodes) - j
    <3>1. p \in 1..Len(nodes) - (j + 1) + 1 /\ (j + 1) + p - 1 = j + p
      BY <1>1
    <3> QED BY <2>2, <3>1
  <2> QED BY <1>1, <2>2, <2>3
<1>4. InsertAt(nodes, j + 1, e) = front \o high
  <2>1. (j + 1) - 1 = j
    BY <1>1
  <2> QED BY <2>1 DEF InsertAt
<1> HIDE DEF low, high
<1>5. <<e>> \in Seq(S) /\ Len(<<e>>) = 1 /\ <<e>>[1] = e
  OBVIOUS
<1>6. /\ front \in Seq(S) /\ Len(front) = j + 1
      /\ \A p \in 1..j + 1 : front[p] = IF p <= j THEN low[p] ELSE <<e>>[p - j]
  BY <1>2, <1>5, ConcatProperties
<1> HIDE DEF front
<1>7. /\ front \o high \in Seq(S) /\ Len(front \o high) = (j + 1) + (Len(nodes) - j)
      /\ \A p \in 1..(j + 1) + (Len(nodes) - j) : (front \o high)[p] = IF p <= j + 1 THEN front[p] ELSE high[p - (j + 1)]
  <2>1. /\ front \o high \in Seq(S) /\ Len(front \o high) = Len(front) + Len(high)
        /\ \A p \in 1..Len(front) + Len(high) :
             (front \o high)[p] = IF p <= Len(front) THEN front[p] ELSE high[p - Len(front)]
    BY <1>3, <1>6, ConcatProperties
  <2>2. Len(front) = j + 1 /\ Len(high) = Len(nodes) - j
    BY <1>3, <1>6
  <2> QED BY <2>1, <2>2
<1>8. (j + 1) + (Len(nodes) - j) = Len(nodes) + 1
  BY <1>1
<1>9. ASSUME NEW p \in 1..Len(nodes) + 1
      PROVE  (front \o high)[p] = IF p <= j THEN nodes[p] ELSE IF p = j + 1 THEN e ELSE nodes[p - 1]
  <2>1. (front \o high)[p] = IF p <= j + 1 THEN front[p] ELSE high[p - (j + 1)]
    BY <1>7, <1>8
  <2>2. CASE p <= j
    <3>1. p \in 1..j /\ p \in 1..j + 1 /\ p <= j + 1
      BY <1>1, <2>2
    <3> QED BY <1>2, <1>6, <2>1, <2>2, <3>1
  <2>3. CASE p = j + 1
    <3>1. p \in 1..j + 1 /\ p <= j + 1 /\ ~(p <= j) /\ p - j = 1
      BY <1>1, <2>3
    <3> QED BY <1>5, <1>6, <2>1, <2>3, <3>1
  <2>4. CASE p > j + 1
    <3>1. ~(p <= j + 1) /\ ~(p <= j) /\ p # j + 1 /\ p - (j + 1) \in 1..Len(nodes) - j /\ j + (p - (j + 1)) = p - 1
      BY <1>1, <2>4
    <3>2. high[p - (j + 1)] = nodes[p - 1]
      BY <1>3, <3>1
    <3> QED BY <2>1, <3>1, <3>2
  <2>5. p <= j \/ p = j + 1 \/ p > j + 1
    BY <1>1
  <2> QED BY <2>2, <2>3, <2>4, <2>5
<1> QED BY <1>4, <1>7, <1>8, <1>9

\* What a node is put between, and where the others are then.
LEMMA PutBetween ==
    ASSUME data \in Seq(Nat), NEW k \in 0..Len(data) - 1, NEW nodes, InOrder(nodes, k),
           NEW j \in 1..Len(nodes), data[nodes[j]] < data[k + 1],
           j < Len(nodes) => data[k + 1] < data[nodes[j + 1]]
    PROVE  /\ Put(nodes, k + 1) = InsertAt(nodes, j + 1, k + 1)
           /\ Len(Put(nodes, k + 1)) = Len(nodes) + 1
           /\ \A p \in 1..Len(nodes) + 1 :
                Put(nodes, k + 1)[p] = IF p <= j THEN nodes[p] ELSE IF p = j + 1 THEN k + 1 ELSE nodes[p - 1]
           /\ InOrder(Put(nodes, k + 1), k + 1)
<1>1. /\ nodes \in Seq(1..k) /\ Len(nodes) \in Nat /\ DOMAIN nodes = 1..Len(nodes) /\ Len(data) \in Nat /\ k \in Nat
      /\ \A p \in 1..Len(nodes) : nodes[p] \in 1..k
      /\ \A p, q \in 1..Len(nodes) : p < q => data[nodes[p]] < data[nodes[q]]
  BY InOrderMeans
<1>2. data[k + 1] \in Nat /\ \A p \in 1..Len(nodes) : data[nodes[p]] \in Nat
  BY InOrderMeans
<1>2a. j \in Nat
  BY <1>1
<1>3. \A p \in 1..Len(nodes) : p <= j => data[nodes[p]] < data[k + 1]
  <2> SUFFICES ASSUME NEW p \in 1..Len(nodes), p <= j PROVE data[nodes[p]] < data[k + 1]
    OBVIOUS
  <2>1. p = j \/ data[nodes[p]] < data[nodes[j]]
    BY <1>1
  <2> QED BY <1>2, <2>1
<1>4. \A p \in 1..Len(nodes) : p > j => data[k + 1] < data[nodes[p]]
  <2> SUFFICES ASSUME NEW p \in 1..Len(nodes), p > j PROVE data[k + 1] < data[nodes[p]]
    OBVIOUS
  <2>1. j + 1 \in 1..Len(nodes) /\ j < Len(nodes) /\ (p = j + 1 \/ j + 1 < p)
    BY <1>1
  <2>2. data[k + 1] < data[nodes[j + 1]]
    BY <2>1
  <2>3. CASE j + 1 < p
    <3>1. data[nodes[j + 1]] < data[nodes[p]]
      BY <1>1, <2>1, <2>3
    <3>2. data[nodes[j + 1]] \in Nat /\ data[nodes[p]] \in Nat
      BY <1>2, <2>1
    <3>3. data[k + 1] \in Nat
      BY <1>2
    <3> QED BY <2>2, <3>1, <3>2, <3>3
  <2> QED BY <2>1, <2>2, <2>3
<1>5. Place(nodes, k + 1) = j
  <2>1. \A p \in DOMAIN nodes : p <= j <=> data[nodes[p]] <= data[k + 1]
    BY <1>1, <1>2, <1>3, <1>4
  <2>2. j \in 0..Len(nodes)
    BY <1>1, <1>2a
  <2> QED BY <1>1, <2>1, <2>2, PlaceIs
<1>6. Put(nodes, k + 1) = InsertAt(nodes, j + 1, k + 1)
  BY <1>5 DEF Put
<1> DEFINE new == InsertAt(nodes, j + 1, k + 1)
<1>7. /\ new \in Seq(1..k + 1) /\ Len(new) = Len(nodes) + 1
      /\ \A p \in 1..Len(nodes) + 1 :
           new[p] = IF p <= j THEN nodes[p] ELSE IF p = j + 1 THEN k + 1 ELSE nodes[p - 1]
  <2> DEFINE T == 1..k + 1
             n == k + 1
  <2>1. nodes \in Seq(T) /\ n \in T /\ j \in 0..Len(nodes)
    BY <1>1, <1>2a
  <2> HIDE DEF T, n, new
  <2>2. /\ InsertAt(nodes, j + 1, n) \in Seq(T)
        /\ Len(InsertAt(nodes, j + 1, n)) = Len(nodes) + 1
        /\ \A p \in 1..Len(nodes) + 1 :
             InsertAt(nodes, j + 1, n)[p] = IF p <= j THEN nodes[p] ELSE IF p = j + 1 THEN n ELSE nodes[p - 1]
    BY <2>1, InsertAtProperties
  <2> QED BY <2>2 DEF new, n, T
<1>8. InOrder(new, k + 1)
  <2> HIDE DEF new
  <2>1. DOMAIN new = 1..Len(nodes) + 1
    BY <1>7
  <2>2. ASSUME NEW p \in 1..Len(nodes) + 1, NEW q \in 1..Len(nodes) + 1, p < q
        PROVE  data[new[p]] < data[new[q]]
    <3>0. Len(nodes) \in Nat /\ j \in Nat /\ j <= Len(nodes)
      BY <1>1, <1>2a
    <3>p. /\ p <= j => p \in 1..Len(nodes) /\ new[p] = nodes[p]
          /\ p = j + 1 => new[p] = k + 1
          /\ p > j + 1 => p - 1 \in 1..Len(nodes) /\ new[p] = nodes[p - 1]
      <4>1. new[p] = IF p <= j THEN nodes[p] ELSE IF p = j + 1 THEN k + 1 ELSE nodes[p - 1]
        BY <1>7
      <4>2. (p <= j => p \in 1..Len(nodes)) /\ (p = j + 1 => ~(p <= j)) /\ (p > j + 1 => ~(p <= j) /\ p # j + 1 /\ p - 1 \in 1..Len(nodes))
        BY <3>0
      <4> QED BY <4>1, <4>2
    <3>q. /\ q <= j => q \in 1..Len(nodes) /\ new[q] = nodes[q]
          /\ q = j + 1 => new[q] = k + 1
          /\ q > j + 1 => q - 1 \in 1..Len(nodes) /\ new[q] = nodes[q - 1] /\ q - 1 > j
      <4>1. new[q] = IF q <= j THEN nodes[q] ELSE IF q = j + 1 THEN k + 1 ELSE nodes[q - 1]
        BY <1>7
      <4>2. /\ q <= j => q \in 1..Len(nodes)
            /\ q = j + 1 => ~(q <= j)
            /\ q > j + 1 => ~(q <= j) /\ q # j + 1 /\ q - 1 \in 1..Len(nodes) /\ q - 1 > j
        BY <3>0
      <4> QED BY <4>1, <4>2
    <3>1. CASE q <= j
      <4>1. p \in 1..Len(nodes) /\ q \in 1..Len(nodes) /\ new[p] = nodes[p] /\ new[q] = nodes[q]
        BY <2>2, <3>0, <3>p, <3>q, <3>1
      <4> QED BY <1>1, <2>2, <4>1
    <3>2. CASE q = j + 1
      <4>1. p <= j
        BY <2>2, <3>0, <3>2
      <4>2. p \in 1..Len(nodes) /\ new[p] = nodes[p] /\ new[q] = k + 1
        BY <3>p, <3>q, <3>2, <4>1
      <4> QED BY <1>3, <4>1, <4>2
    <3>3. CASE q > j + 1
      <4>1. CASE p <= j
        <5>1. p < q - 1
          BY <3>3, <4>1
        <5> QED BY <1>1, <3>p, <3>q, <3>3, <4>1, <5>1
      <4>2. CASE p = j + 1
        BY <1>4, <3>p, <3>q, <3>3, <4>2
      <4>3. CASE p > j + 1
        <5>1. p - 1 < q - 1
          BY <2>2
        <5> QED BY <1>1, <3>p, <3>q, <3>3, <4>3, <5>1
      <4> QED BY <1>1, <4>1, <4>2, <4>3
    <3> QED BY <1>1, <3>1, <3>2, <3>3
  <2> QED BY <1>7, <2>1, <2>2 DEF InOrder
<1>9. Put(nodes, k + 1) = new
  BY <1>6
<1> HIDE DEF new
<1>10. /\ Len(Put(nodes, k + 1)) = Len(nodes) + 1
       /\ \A p \in 1..Len(nodes) + 1 :
            Put(nodes, k + 1)[p] = IF p <= j THEN nodes[p] ELSE IF p = j + 1 THEN k + 1 ELSE nodes[p - 1]
  BY <1>7, <1>9
<1>11. InOrder(Put(nodes, k + 1), k + 1)
  BY <1>8, <1>9
<1> QED BY <1>6, <1>10, <1>11

LEMMA InsertAtFront ==
    ASSUME NEW S, NEW nodes \in Seq(S), NEW e \in S
    PROVE  /\ InsertAt(nodes, 0 + 1, e) \in Seq(S)
           /\ Len(InsertAt(nodes, 0 + 1, e)) = Len(nodes) + 1
           /\ InsertAt(nodes, 0 + 1, e)[1] = e
           /\ \A p \in 1..Len(nodes) : InsertAt(nodes, 0 + 1, e)[p + 1] = nodes[p]
<1> DEFINE j == 0
           new == InsertAt(nodes, j + 1, e)
<1>1. j \in 0..Len(nodes) /\ Len(nodes) \in Nat
  OBVIOUS
<1> HIDE DEF j
<1>2. /\ new \in Seq(S)
      /\ Len(new) = Len(nodes) + 1
      /\ \A p \in 1..Len(nodes) + 1 : new[p] = IF p <= j THEN nodes[p] ELSE IF p = j + 1 THEN e ELSE nodes[p - 1]
  BY <1>1, InsertAtProperties
<1> HIDE DEF new
<1>3. new[1] = e /\ \A p \in 1..Len(nodes) : new[p + 1] = nodes[p]
  BY <1>1, <1>2 DEF j
<1> QED BY <1>2, <1>3 DEF new, j

LEMMA PutFirst == ASSUME NEW n PROVE Put(<<>>, n) = <<n>>
<1> DEFINE none == <<>>
           new == InsertAt(none, 0 + 1, n)
<1>1. none \in Seq({n}) /\ Len(none) = 0 /\ DOMAIN none = 1..Len(none) /\ 0 \in 0..Len(none)
  OBVIOUS
<1>2. Place(none, n) = 0
  <2> HIDE DEF none
  <2>1. \A p \in DOMAIN none : p <= 0 <=> data[none[p]] <= data[n]
    BY <1>1
  <2> QED BY <1>1, <2>1, PlaceIs
<1>3. Put(none, n) = new
  BY <1>2 DEF Put
<1>4. new \in Seq({n}) /\ Len(new) = 1 /\ new[1] = n
  <2> DEFINE T == {n}
  <2>1. n \in T /\ Len(none) + 1 = 1 /\ none \in Seq(T)
    BY <1>1
  <2> HIDE DEF none, T
  <2>2. new \in Seq(T) /\ Len(new) = Len(none) + 1 /\ new[1] = n
    BY <2>1, InsertAtFront
  <2> HIDE DEF new
  <2> QED BY <2>1, <2>2 DEF T
<1> HIDE DEF new
<1>5. new = <<n>>
  BY <1>4
<1> QED BY <1>3, <1>5

\* A new head before the only node.
LEMMA PutBefore ==
    ASSUME data \in Seq(Nat), NEW k \in 0..Len(data) - 1, NEW nodes, InOrder(nodes, k), Len(nodes) = 1,
           data[k + 1] < data[nodes[1]]
    PROVE  /\ Put(nodes, k + 1) = <<k + 1, nodes[1]>>
           /\ InOrder(Put(nodes, k + 1), k + 1)
<1>1. /\ nodes \in Seq(1..k) /\ DOMAIN nodes = 1..Len(nodes) /\ Len(data) \in Nat /\ k \in Nat
      /\ nodes[1] \in 1..k
  <2>1. /\ nodes \in Seq(1..k) /\ Len(nodes) \in Nat /\ DOMAIN nodes = 1..Len(nodes) /\ Len(data) \in Nat /\ k \in Nat
        /\ \A p \in 1..Len(nodes) : nodes[p] \in 1..k
    BY InOrderMeans
  <2> QED BY <2>1
<1>2. data[k + 1] \in Nat /\ data[nodes[1]] \in Nat
  <2>1. data[k + 1] \in Nat /\ \A p \in 1..Len(nodes) : data[nodes[p]] \in Nat
    BY InOrderMeans
  <2> QED BY <2>1
<1>3. Place(nodes, k + 1) = 0
  <2>1. \A p \in DOMAIN nodes : p = 1 /\ ~(p <= 0) /\ ~(data[nodes[p]] <= data[k + 1])
    BY <1>1, <1>2
  <2>2. \A p \in DOMAIN nodes : p <= 0 <=> data[nodes[p]] <= data[k + 1]
    BY <2>1
  <2>3. 0 \in 0..Len(nodes) /\ Len(nodes) \in Nat
    OBVIOUS
  <2> QED BY <1>1, <2>2, <2>3, PlaceIs
<1> DEFINE new == InsertAt(nodes, 0 + 1, k + 1)
<1>4. Put(nodes, k + 1) = new
  BY <1>3 DEF Put
<1>5. new \in Seq(1..k + 1) /\ Len(new) = 2 /\ new[1] = k + 1 /\ new[2] = nodes[1]
  <2> DEFINE T == 1..k + 1
             n == k + 1
  <2>1. nodes \in Seq(T) /\ n \in T /\ 1 \in 1..Len(nodes)
    BY <1>1
  <2> HIDE DEF T, n, new
  <2>2. /\ InsertAt(nodes, 0 + 1, n) \in Seq(T)
        /\ Len(InsertAt(nodes, 0 + 1, n)) = Len(nodes) + 1
        /\ InsertAt(nodes, 0 + 1, n)[1] = n
        /\ \A p \in 1..Len(nodes) : InsertAt(nodes, 0 + 1, n)[p + 1] = nodes[p]
    BY <2>1, InsertAtFront
  <2>3. /\ new \in Seq(T) /\ Len(new) = Len(nodes) + 1 /\ new[1] = n
        /\ \A p \in 1..Len(nodes) : new[p + 1] = nodes[p]
    BY <2>2 DEF new, n
  <2>4. Len(new) = 2 /\ new[1 + 1] = nodes[1]
    BY <2>1, <2>3
  <2> QED BY <2>3, <2>4 DEF n, T
<1> HIDE DEF new
<1>6. new = <<k + 1, nodes[1]>>
  BY <1>5
<1>7. InOrder(new, k + 1)
  <2>1. DOMAIN new = 1..2
    BY <1>5
  <2>2. ASSUME NEW p \in DOMAIN new, NEW q \in DOMAIN new, p < q PROVE data[new[p]] < data[new[q]]
    <3>1. p = 1 /\ q = 2
      BY <2>1, <2>2
    <3> QED BY <1>5, <3>1
  <2> QED BY <1>5, <2>2 DEF InOrder
<1> QED BY <1>4, <1>6, <1>7

\* The links are, both ways, the list nodes.
LinksAre(first, last, nx, pv, nodes) ==
    /\ nodes # <<>>
    /\ first = nodes[1] /\ last = nodes[Len(nodes)]
    /\ nx[nodes[Len(nodes)]] = NULL /\ pv[nodes[1]] = NULL
    /\ \A p \in 1..Len(nodes) - 1 : nx[nodes[p]] = nodes[p + 1] /\ pv[nodes[p + 1]] = nodes[p]

\* The loop looks at neighbours, and what is inserted is not below the first.
AtPair(nodes) ==
    \E j \in DOMAIN nodes :
        /\ ptr1 = nodes[j] /\ data[nodes[j]] <= data[made]
        /\ ptr2 = IF j < Len(nodes) THEN nodes[j + 1] ELSE NULL

Whole == \A k \in 1..num_nodes : ~Departs(k)

\* Nodes that are not in the list yet have no links.
Unlinked(nx, pv, k) == \A n \in Nodes : n > k => nx[n] = NULL /\ pv[n] = NULL

ShapeInv ==
    listPc \in {"insert", "loop", "print"} =>
        /\ num_nodes \in Nat /\ made = IF listPc = "loop" THEN num_nodes + 1 ELSE num_nodes
        /\ Whole =>
             /\ Unlinked(next, prev, num_nodes)
             /\ InOrder(Expected[num_nodes], num_nodes)
             /\ IF num_nodes = 0 THEN head = NULL
                ELSE LinksAre(head, tail, next, prev, Expected[num_nodes])
             /\ listPc = "loop" => AtPair(Expected[num_nodes])

LEMMA ShapeInitially == ListInit(Inputs, "print") => ShapeInv
<1> SUFFICES ASSUME ListInit(Inputs, "print") PROVE ShapeInv
  OBVIOUS
<1>1. data \in Seq(Nat)
  BY InputsAssumption DEF ListInit
<1>2. Len(data) \in Nat
  BY <1>1
<1>3. Expected[0] = <<>>
  <2>1. 0 \in 0..Len(data)
    BY <1>2
  <2> QED BY <1>1, <2>1, ExpectedUnfolds
<1>4. InOrder(<<>>, 0)
  BY DEF InOrder
<1>5. Unlinked(next, prev, 0)
  BY DEF ListInit, Unlinked, Nodes
<1> QED BY <1>3, <1>4, <1>5 DEF ListInit, ShapeInv, NULL

\* An insertion keeps the shape if it puts the node where Put says.
LEMMA InsertionKeepsShape ==
    ASSUME ListTypes, ListTypes', num_nodes \in Nat, made' = num_nodes + 1, made' \in Nodes,
           data' = data, Inserted,
           Whole /\ ~Departs(num_nodes + 1) =>
              /\ Unlinked(next', prev', num_nodes + 1)
              /\ InOrder(Put(Expected[num_nodes], num_nodes + 1), num_nodes + 1)
              /\ LinksAre(head', tail', next', prev', Put(Expected[num_nodes], num_nodes + 1))
    PROVE  ShapeInv'
<1>1. num_nodes' = num_nodes + 1 /\ listPc' = "print"
  BY DEF Inserted
<1>2. Expected' = Expected
  BY ExpectedStays
<1>3. Expected[num_nodes + 1] = Put(Expected[num_nodes], num_nodes + 1)
  <2>1. data \in Seq(Nat) /\ Len(data) \in Nat
    BY DEF ListTypes
  <2>2. num_nodes + 1 \in 0..Len(data) /\ num_nodes + 1 # 0 /\ (num_nodes + 1) - 1 = num_nodes
    BY <2>1 DEF Nodes
  <2>3. Expected[num_nodes + 1] = Put(Expected[(num_nodes + 1) - 1], num_nodes + 1)
    BY <2>1, <2>2, ExpectedUnfolds
  <2> QED BY <2>2, <2>3
<1>4. Whole' => Whole /\ ~Departs(num_nodes + 1)
  <2> SUFFICES ASSUME Whole' PROVE Whole /\ ~Departs(num_nodes + 1)
    OBVIOUS
  <2>1. \A k \in 1..num_nodes + 1 : ~Departs(k)
    BY <1>1, <1>2 DEF Whole, Departs
  <2> QED BY <2>1 DEF Whole
<1>5. Whole' =>
        /\ Unlinked(next, prev, num_nodes)'
        /\ InOrder(Expected[num_nodes], num_nodes)'
        /\ LinksAre(head, tail, next, prev, Expected[num_nodes])'
  <2> SUFFICES ASSUME Whole' PROVE 
        /\ Unlinked(next, prev, num_nodes)'
        /\ InOrder(Expected[num_nodes], num_nodes)'
        /\ LinksAre(head, tail, next, prev, Expected[num_nodes])'
    OBVIOUS
  <2>1. /\ Unlinked(next', prev', num_nodes + 1)
        /\ InOrder(Expected[num_nodes + 1], num_nodes + 1)
        /\ LinksAre(head', tail', next', prev', Expected[num_nodes + 1])
    BY <1>3, <1>4
  <2>2. Unlinked(next, prev, num_nodes)'
    BY <1>1, <2>1 DEF Unlinked, Nodes
  <2>3. InOrder(Expected[num_nodes], num_nodes)'
    BY <1>1, <1>2, <2>1 DEF InOrder
  <2>4. LinksAre(head, tail, next, prev, Expected[num_nodes])'
    BY <1>1, <1>2, <2>1 DEF LinksAre
  <2> QED BY <2>2, <2>3, <2>4
<1> QED BY <1>1, <1>5 DEF ShapeInv

LEMMA ShapeStepKeeps == ListInv /\ ListInv' /\ ShapeInv /\ [ListNext]_listVars => ShapeInv'
<1> SUFFICES ASSUME ListInv, ListInv', ShapeInv, [ListNext]_listVars PROVE ShapeInv'
  OBVIOUS
<1> DEFINE L == Expected[num_nodes]
           n == num_nodes + 1
<1>t. /\ ListTypes /\ ListTypes' /\ data \in Seq(Nat) /\ Len(data) \in Nat /\ DOMAIN data = 1..Len(data) /\ Nodes = 1..Len(data)
      /\ next \in [Nodes -> 0..Len(data)] /\ prev \in [Nodes -> 0..Len(data)] /\ made \in 0..Len(data)
  BY DEF ListInv, ListTypes, Nodes
\* What an insertion starts from, when nothing is broken.
<1>s. ASSUME listPc \in {"insert", "loop"}, made' \in Nodes, made' = n, Whole
      PROVE  /\ num_nodes \in 0..Len(data) - 1 /\ n \in Nodes /\ data[n] \in Nat
             /\ Unlinked(next, prev, num_nodes) /\ InOrder(L, num_nodes)
             /\ (num_nodes = 0 => head = NULL)
             /\ num_nodes # 0 => LinksAre(head, tail, next, prev, L)
             /\ L \in Seq(1..num_nodes) /\ Len(L) \in Nat /\ DOMAIN L = 1..Len(L)
             /\ \A p \in 1..Len(L) : L[p] \in 1..num_nodes /\ L[p] \in Nodes /\ data[L[p]] \in Nat
             /\ \A p, q \in 1..Len(L) : p < q => data[L[p]] < data[L[q]]
  <2>1. num_nodes \in 0..Len(data) - 1 /\ n \in Nodes /\ data[n] \in Nat
    BY <1>t, <1>s DEF ShapeInv
  <2>2. /\ Unlinked(next, prev, num_nodes) /\ InOrder(L, num_nodes)
        /\ IF num_nodes = 0 THEN head = NULL ELSE LinksAre(head, tail, next, prev, L)
    BY <1>s DEF ShapeInv
  <2> HIDE DEF L
  <2>3. /\ L \in Seq(1..num_nodes) /\ Len(L) \in Nat /\ DOMAIN L = 1..Len(L)
        /\ \A p \in 1..Len(L) : L[p] \in 1..num_nodes
        /\ \A p, q \in 1..Len(L) : p < q => data[L[p]] < data[L[q]]
        /\ \A p \in 1..Len(L) : data[L[p]] \in Nat
    BY <1>t, <2>1, <2>2, InOrderMeans
  <2>4. \A p \in 1..Len(L) : L[p] \in Nodes
    BY <1>t, <2>1, <2>3
  <2> QED BY <2>1, <2>2, <2>3, <2>4
\* No node is in the list twice.
<1>d. ASSUME listPc \in {"insert", "loop"}, made' \in Nodes, made' = n, Whole
      PROVE  \A p, q \in 1..Len(L) : L[p] = L[q] => p = q
  <2> HIDE DEF L, n
  <2> TAKE p, q \in 1..Len(L)
  <2>1. /\ p \in Nat /\ q \in Nat /\ data[L[p]] \in Nat /\ data[L[q]] \in Nat
        /\ p < q => data[L[p]] < data[L[q]]
        /\ q < p => data[L[q]] < data[L[p]]
    BY <1>s, <1>d
  <2> QED BY <2>1
<1>f. ASSUME listPc \in {"insert", "loop"}, Inserted, made' \in Nodes, made' = n, data' = data,
             Whole /\ ~Departs(n) => /\ Unlinked(next', prev', n) /\ InOrder(Put(L, n), n)
                                      /\ LinksAre(head', tail', next', prev', Put(L, n))
      PROVE  ShapeInv'
  <2>1. num_nodes \in Nat
    BY <1>f DEF ShapeInv
  <2> QED BY <1>t, <1>f, <2>1, InsertionKeepsShape
<1>1. CASE InsertFirst
  <2>1. /\ listPc = "insert" /\ made = num_nodes /\ made' = n /\ made' \in Nodes /\ data' = data /\ Inserted
        /\ head = NULL /\ head' = made' /\ tail' = made' /\ next' = next /\ prev' = prev
    BY <1>1, <1>t DEF InsertFirst, ShapeInv
  <2>2. ASSUME Whole
        PROVE  /\ Unlinked(next', prev', n) /\ InOrder(Put(L, n), n)
               /\ LinksAre(head', tail', next', prev', Put(L, n))
    <3>1. num_nodes = 0
      <4>1. ASSUME num_nodes # 0 PROVE FALSE
        <5>1. LinksAre(head, tail, next, prev, L) /\ Len(L) \in Nat /\ L \in Seq(1..num_nodes)
              /\ \A p \in 1..Len(L) : L[p] \in 1..num_nodes
          BY <2>1, <2>2, <1>s, <4>1
        <5> HIDE DEF L
        <5>2. L # <<>> /\ head = L[1] /\ 1 \in 1..Len(L)
          BY <5>1 DEF LinksAre
        <5> QED BY <2>1, <5>1, <5>2 DEF NULL
      <4> QED BY <4>1
    <3>2. L = <<>>
      <4>1. L \in Seq(1..0)
        BY <2>1, <2>2, <1>s, <3>1
      <4> HIDE DEF L
      <4> QED BY <4>1
    <3>3. Put(L, n) = <<n>> /\ n = 1
      BY <3>1, <3>2, PutFirst
    <3>4. InOrder(<<n>>, n)
      BY <3>3 DEF InOrder
    <3>5. Unlinked(next, prev, num_nodes) /\ n \in Nodes
      BY <2>1, <2>2, <1>s
    <3>6. LinksAre(n, n, next, prev, <<n>>)
      BY <3>1, <3>3, <3>5 DEF LinksAre, Unlinked
    <3>7. Unlinked(next, prev, n)
      BY <1>t, <3>1, <3>5 DEF Unlinked
    <3> QED BY <2>1, <3>3, <3>4, <3>6, <3>7
  <2> QED BY <2>1, <2>2, <1>f
<1>2. CASE InsertHead
  <2>1. /\ listPc = "insert" /\ made = num_nodes /\ made' = n /\ made' \in Nodes /\ data' = data /\ Inserted
        /\ head # NULL /\ data[n] < data[head] /\ head' = n /\ tail' = tail
        /\ next' = [next EXCEPT ![n] = tail] /\ prev' = [prev EXCEPT ![tail] = n]
    BY <1>2, <1>t DEF InsertHead, ShapeInv
  <2>2. ASSUME Whole, ~Departs(n)
        PROVE  /\ Unlinked(next', prev', n) /\ InOrder(Put(L, n), n)
               /\ LinksAre(head', tail', next', prev', Put(L, n))
    <3>1. num_nodes # 0
      BY <2>1, <2>2, <1>s
    <3>2. /\ num_nodes \in 0..Len(data) - 1 /\ InOrder(L, num_nodes) /\ Unlinked(next, prev, num_nodes)
          /\ LinksAre(head, tail, next, prev, L) /\ Len(L) \in Nat /\ L \in Seq(1..num_nodes) /\ n \in Nodes
          /\ \A p \in 1..Len(L) : L[p] \in 1..num_nodes /\ L[p] \in Nodes
      BY <2>1, <2>2, <3>1, <1>s
    <3>a. ~(Len(L) > 1 /\ data[n] < data[L[1]])
      <4>1. n - 1 = num_nodes
        BY <3>2
      <4> QED BY <2>2, <4>1 DEF Departs
    <3> DEFINE last == L[Len(L)]
    <3> HIDE DEF L
    <3>b. Len(L) = 1
      <4>1. L # <<>> /\ data[n] < data[L[1]]
        BY <2>1, <3>2 DEF LinksAre
      <4>2. ~(Len(L) > 1) /\ Len(L) # 0 /\ Len(L) \in Nat
        BY <3>2, <3>a, <4>1
      <4>3. \A m \in Nat : ~(m > 1) /\ m # 0 => m = 1
        OBVIOUS
      <4> QED BY <4>2, <4>3
    <3>3. L # <<>> /\ head = L[1] /\ tail = last /\ next[last] = NULL /\ last \in 1..num_nodes /\ last \in Nodes /\ last # n
      <4>1. L # <<>> /\ head = L[1] /\ tail = last /\ next[last] = NULL
        BY <3>2 DEF LinksAre
      <4>2. Len(L) \in 1..Len(L)
        BY <3>2, <4>1
      <4> QED BY <3>2, <4>1, <4>2
    <3>4. Put(L, n) = <<n, last>> /\ InOrder(Put(L, n), n)
      BY <1>t, <2>1, <3>2, <3>3, <3>b, PutBefore
    <3> HIDE DEF last
    <3>5. next[n] = NULL /\ prev[n] = NULL
      BY <3>2 DEF Unlinked
    <3>6. next'[last] = NULL /\ next'[n] = last /\ prev'[n] = NULL /\ prev'[last] = n
      BY <1>t, <2>1, <3>2, <3>3, <3>5
    <3>7. LinksAre(n, last, next', prev', <<n, last>>)
      BY <3>6 DEF LinksAre
    <3>8. Unlinked(next', prev', n)
      BY <1>t, <2>1, <3>2, <3>3 DEF Unlinked
    <3> QED BY <2>1, <3>3, <3>4, <3>7, <3>8
  <2> QED BY <2>1, <2>2, <1>f
<1>3. CASE StartLoop
  <2>1. /\ listPc = "insert" /\ listPc' = "loop" /\ made = num_nodes /\ made' = n /\ made' \in Nodes /\ head # NULL
        /\ data[n] >= data[head] /\ ptr1' = head /\ ptr2' = next[head] /\ num_nodes \in Nat
        /\ UNCHANGED <<data, head, tail, next, prev, num_nodes>>
    BY <1>3, <1>t DEF StartLoop, ShapeInv, links
  <2>2. ASSUME Whole PROVE AtPair(L)'
    <3>1. num_nodes # 0
      BY <2>1, <2>2, <1>s
    <3>2. /\ LinksAre(head, tail, next, prev, L) /\ Len(L) \in Nat /\ DOMAIN L = 1..Len(L) /\ L \in Seq(1..num_nodes)
          /\ \A p \in 1..Len(L) : data[L[p]] \in Nat
          /\ data[n] \in Nat
      BY <2>1, <2>2, <3>1, <1>s
    <3>3. L' = L
      BY <2>1, ExpectedStays
    <3> HIDE DEF L, n
    <3>4. L # <<>> /\ 1 \in DOMAIN L
      BY <3>2 DEF LinksAre
    <3>5. head = L[1] /\ next[L[Len(L)]] = NULL /\ \A p \in 1..Len(L) - 1 : next[L[p]] = L[p + 1]
      BY <3>2 DEF LinksAre
    <3>6. next[L[1]] = IF 1 < Len(L) THEN L[1 + 1] ELSE NULL
      <4>1. CASE 1 < Len(L)
        BY <3>2, <3>5, <4>1
      <4>2. CASE ~(1 < Len(L))
        <5>1. Len(L) = 1
          BY <3>2, <3>4, <4>2
        <5> QED BY <3>5, <5>1
      <4> QED BY <4>1, <4>2
    <3>7. data[L[1]] <= data[n]
      BY <2>1, <3>2, <3>4, <3>5
    <3> QED BY <2>1, <3>3, <3>4, <3>5, <3>6, <3>7 DEF AtPair, NULL
  <2>3. Whole' => Whole
    BY <2>1, ExpectedStays DEF Whole, Departs
  <2>4. ASSUME Whole
        PROVE  /\ Unlinked(next, prev, num_nodes)' /\ InOrder(L, num_nodes)'
               /\ (IF num_nodes = 0 THEN head = NULL ELSE LinksAre(head, tail, next, prev, L))'
    <3>1. /\ Unlinked(next, prev, num_nodes) /\ InOrder(L, num_nodes)
          /\ IF num_nodes = 0 THEN head = NULL ELSE LinksAre(head, tail, next, prev, L)
      BY <2>1, <2>4 DEF ShapeInv
    <3>2. L' = L
      BY <2>1, ExpectedStays
    <3> HIDE DEF L
    <3> QED BY <2>1, <3>1, <3>2 DEF Unlinked, InOrder, LinksAre, Nodes, NULL
  <2> QED BY <2>1, <2>2, <2>3, <2>4 DEF ShapeInv
\* Where the loop stands.
<1>p. ASSUME listPc = "loop", made' = made, Whole
      PROVE  /\ made = n /\ made' = n /\ n \in Nodes /\ made' \in Nodes /\ num_nodes # 0
             /\ L # <<>> /\ head = L[1] /\ tail = L[Len(L)] /\ next[L[Len(L)]] = NULL /\ prev[L[1]] = NULL
             /\ \A p \in 1..Len(L) - 1 : next[L[p]] = L[p + 1] /\ prev[L[p + 1]] = L[p]
             /\ next[n] = NULL /\ prev[n] = NULL
             /\ AtPair(L)
  <2>1. made = n /\ made # 0 /\ head # NULL
    BY <1>p DEF ListInv, LoopPair, ShapeInv
  <2>2. made' = n /\ n \in Nodes /\ made' \in Nodes
    BY <1>p, <1>t, <2>1
  <2>3. num_nodes \in Nat
    BY <1>p DEF ShapeInv
  <2>4. num_nodes # 0 /\ Unlinked(next, prev, num_nodes) /\ LinksAre(head, tail, next, prev, L) /\ AtPair(L)
    BY <1>p, <2>1 DEF ShapeInv
  <2> HIDE DEF L
  <2>5. next[n] = NULL /\ prev[n] = NULL
    BY <2>2, <2>3, <2>4 DEF Unlinked
  <2> QED BY <2>1, <2>2, <2>4, <2>5 DEF LinksAre
<1>4. CASE InsertAfterEqual
  <2>1. /\ listPc = "loop" /\ made' = made /\ data' = data /\ Inserted /\ ptr2 # NULL
        /\ data[made] = data[ptr1] /\ data[made] < data[ptr2]
    BY <1>4 DEF InsertAfterEqual
  <2>2. made = n /\ made \in Nodes
    BY <1>t, <2>1 DEF ListInv, LoopPair, ShapeInv
  <2>3. ASSUME Whole PROVE Departs(n)
    <3>1. /\ AtPair(L) /\ Len(L) \in Nat /\ DOMAIN L = 1..Len(L) /\ \A p \in 1..Len(L) : data[L[p]] \in Nat
          /\ \A p, q \in 1..Len(L) : p < q => data[L[p]] < data[L[q]]
          /\ num_nodes \in 0..Len(data) - 1
      BY <2>1, <2>2, <2>3, <1>p, <1>s
    <3>2. n - 1 = num_nodes /\ Expected[n - 1] = L
      BY <3>1
    <3> HIDE DEF L
    <3>3. PICK j \in 1..Len(L) : ptr1 = L[j] /\ ptr2 = IF j < Len(L) THEN L[j + 1] ELSE NULL
      BY <3>1 DEF AtPair
    <3>4. data[L[j]] = data[n]
      BY <2>1, <2>2, <3>3
    <3> QED BY <3>1, <3>2, <3>4 DEF Departs
  <2> QED BY <2>1, <2>2, <2>3, <1>f
<1>5. CASE InsertBetween
  <2>1. /\ listPc = "loop" /\ made' = made /\ data' = data /\ Inserted /\ ptr2 # NULL /\ head' = head /\ tail' = tail
        /\ data[ptr1] < data[made] /\ data[made] < data[ptr2]
        /\ next' = [next EXCEPT ![ptr1] = made, ![made] = ptr2]
        /\ prev' = [prev EXCEPT ![ptr2] = made, ![made] = ptr1]
    BY <1>5 DEF InsertBetween
  <2>2. made = n /\ made \in Nodes
    BY <1>t, <2>1 DEF ListInv, LoopPair, ShapeInv
  <2>3. ASSUME Whole
        PROVE  /\ Unlinked(next', prev', n) /\ InOrder(Put(L, n), n)
               /\ LinksAre(head', tail', next', prev', Put(L, n))
    <3>1. /\ AtPair(L) /\ Len(L) \in Nat /\ DOMAIN L = 1..Len(L) /\ \A p \in 1..Len(L) : L[p] \in 1..num_nodes /\ L[p] \in Nodes
          /\ num_nodes \in 0..Len(data) - 1 /\ InOrder(L, num_nodes) /\ Unlinked(next, prev, num_nodes)
          /\ \A p, q \in 1..Len(L) : L[p] = L[q] => p = q
      BY <2>1, <2>2, <2>3, <1>p, <1>s, <1>d
    <3>2. /\ L # <<>> /\ head = L[1] /\ tail = L[Len(L)] /\ next[L[Len(L)]] = NULL /\ prev[L[1]] = NULL
          /\ \A p \in 1..Len(L) - 1 : next[L[p]] = L[p + 1] /\ prev[L[p + 1]] = L[p]
      BY <2>1, <2>3, <1>p
    <3> HIDE DEF L
    <3>3. PICK j \in 1..Len(L) : ptr1 = L[j] /\ ptr2 = IF j < Len(L) THEN L[j + 1] ELSE NULL
      BY <3>1 DEF AtPair
    <3>4. j < Len(L) /\ ptr2 = L[j + 1] /\ j \in Nat /\ 0 < j /\ j + 1 \in 1..Len(L)
      BY <2>1, <3>1, <3>3
    <3> DEFINE new == Put(L, n)
    <3>5. /\ Len(new) = Len(L) + 1 /\ InOrder(new, n)
          /\ \A p \in 1..Len(L) + 1 : new[p] = IF p <= j THEN L[p] ELSE IF p = j + 1 THEN n ELSE L[p - 1]
      <4>1. data[L[j]] < data[n] /\ (j < Len(L) => data[n] < data[L[j + 1]])
        BY <2>1, <2>2, <3>3, <3>4
      <4>2. /\ Put(L, num_nodes + 1) = InsertAt(L, j + 1, num_nodes + 1)
            /\ Len(Put(L, num_nodes + 1)) = Len(L) + 1
            /\ \A p \in 1..Len(L) + 1 :
                 Put(L, num_nodes + 1)[p] = IF p <= j THEN L[p] ELSE IF p = j + 1 THEN num_nodes + 1 ELSE L[p - 1]
            /\ InOrder(Put(L, num_nodes + 1), num_nodes + 1)
        BY <1>t, <3>1, <4>1, PutBetween
      <4> QED BY <4>2
    <3>6. \A p \in 1..Len(L) : L[p] # n
      <4>1. num_nodes \in Nat
        BY <3>1
      <4> QED BY <3>1, <4>1
    <3> HIDE DEF new
    <3>7. \A m \in Nodes : /\ next'[m] = IF m = n THEN L[j + 1] ELSE IF m = L[j] THEN n ELSE next[m]
                           /\ prev'[m] = IF m = n THEN L[j] ELSE IF m = L[j + 1] THEN n ELSE prev[m]
      BY <1>t, <2>1, <2>2, <3>1, <3>3, <3>4, <3>6
    <3>8. Unlinked(next', prev', n)
      <4> SUFFICES ASSUME NEW m \in Nodes, m > n PROVE next'[m] = NULL /\ prev'[m] = NULL
        BY DEF Unlinked
      <4>1. num_nodes \in Nat /\ m \in Nat /\ m > num_nodes /\ m # n
        BY <1>t, <3>1
      <4>2. L[j] # m /\ L[j + 1] # m
        BY <3>1, <3>4, <4>1
      <4> QED BY <3>1, <3>7, <4>1, <4>2 DEF Unlinked
    <3>9. new # <<>> /\ head' = new[1] /\ tail' = new[Len(new)]
      <4>1. new # <<>>
        BY <3>1, <3>5
      <4>2. 1 \in 1..Len(L) + 1 /\ 1 <= j /\ Len(L) + 1 \in 1..Len(L) + 1
            /\ ~(Len(L) + 1 <= j) /\ Len(L) + 1 # j + 1 /\ (Len(L) + 1) - 1 = Len(L)
        BY <3>1, <3>4
      <4>3. new[1] = L[1] /\ new[Len(L) + 1] = L[Len(L)]
        BY <3>5, <4>2
      <4> QED BY <2>1, <3>2, <3>5, <4>1, <4>3
    <3>10. next'[new[Len(new)]] = NULL /\ prev'[new[1]] = NULL
      <4>0. Len(L) \in Nat /\ j < Len(L) /\ j \in Nat /\ 0 < j
        BY <3>1, <3>4
      <4>1. 1 \in 1..Len(L) /\ Len(L) \in 1..Len(L) /\ Len(L) # j /\ 1 # j + 1
        BY <4>0
      <4>2. L[Len(L)] # L[j] /\ L[1] # L[j + 1] /\ L[Len(L)] # n /\ L[1] # n
        BY <3>1, <3>4, <3>6, <4>1
      <4>3. new[Len(new)] = L[Len(L)] /\ new[1] = L[1]
        BY <2>1, <3>2, <3>9
      <4>4. next'[L[Len(L)]] = next[L[Len(L)]] /\ prev'[L[1]] = prev[L[1]]
        BY <3>1, <3>7, <4>1, <4>2
      <4> QED BY <3>2, <4>3, <4>4
    <3>11. ASSUME NEW p \in 1..Len(new) - 1 PROVE next'[new[p]] = new[p + 1] /\ prev'[new[p + 1]] = new[p]
      <4>1. p \in 1..Len(L) + 1 /\ p + 1 \in 1..Len(L) + 1 /\ p \in 1..Len(L)
        BY <3>1, <3>5
      <4>2. /\ new[p] = IF p <= j THEN L[p] ELSE IF p = j + 1 THEN n ELSE L[p - 1]
            /\ new[p + 1] = IF p + 1 <= j THEN L[p + 1] ELSE IF p + 1 = j + 1 THEN n ELSE L[(p + 1) - 1]
        BY <3>5, <4>1
      <4>3. CASE p < j
        <5>1. p \in 1..Len(L) /\ p + 1 \in 1..Len(L) /\ p \in 1..Len(L) - 1 /\ p # j /\ p + 1 # j + 1 /\ p <= j /\ p + 1 <= j
          BY <3>1, <3>4, <4>3
        <5>2. new[p] = L[p] /\ new[p + 1] = L[p + 1] /\ L[p] # L[j] /\ L[p + 1] # L[j + 1] /\ L[p] # n /\ L[p + 1] # n
          BY <3>1, <3>4, <3>6, <4>2, <5>1
        <5>3. next[L[p]] = L[p + 1] /\ prev[L[p + 1]] = L[p]
          BY <3>2, <5>1
        <5>4. next'[L[p]] = next[L[p]] /\ prev'[L[p + 1]] = prev[L[p + 1]]
          BY <3>1, <3>7, <5>1, <5>2
        <5> QED BY <5>2, <5>3, <5>4
      <4>4. CASE p = j
        <5>1. p <= j /\ ~(p + 1 <= j)
          BY <3>4, <4>4
        <5>2. new[p] = L[j] /\ new[p + 1] = n /\ L[j] # n
          BY <3>6, <4>2, <4>4, <5>1
        <5> QED BY <2>2, <3>1, <3>7, <5>2
      <4>5. CASE p = j + 1
        <5>1. ~(p <= j) /\ ~(p + 1 <= j) /\ p + 1 # j + 1 /\ (p + 1) - 1 = j + 1
          BY <3>4, <4>5
        <5>2. new[p] = n /\ new[p + 1] = L[j + 1] /\ L[j + 1] # n
          BY <3>4, <3>6, <4>2, <4>5, <5>1
        <5> QED BY <2>2, <3>1, <3>4, <3>7, <5>2
      <4>6. CASE p > j + 1
        <5>1. ~(p <= j) /\ p # j + 1 /\ ~(p + 1 <= j) /\ p + 1 # j + 1 /\ (p + 1) - 1 = p
              /\ p - 1 \in 1..Len(L) - 1 /\ (p - 1) + 1 = p /\ p - 1 # j /\ p # j + 1 /\ p - 1 \in 1..Len(L)
          BY <3>1, <3>4, <4>1, <4>6
        <5>2. new[p] = L[p - 1] /\ new[p + 1] = L[p] /\ L[p - 1] # L[j] /\ L[p] # L[j + 1] /\ L[p - 1] # n /\ L[p] # n
          BY <3>1, <3>4, <3>6, <4>1, <4>2, <5>1
        <5>3. next[L[p - 1]] = L[p] /\ prev[L[p]] = L[p - 1]
          BY <3>2, <5>1
        <5>4. next'[L[p - 1]] = next[L[p - 1]] /\ prev'[L[p]] = prev[L[p]]
          BY <3>1, <3>7, <4>1, <5>1, <5>2
        <5> QED BY <5>2, <5>3, <5>4
      <4>7. p < j \/ p = j \/ p = j + 1 \/ p > j + 1
        BY <3>4, <4>1
      <4> QED BY <4>3, <4>4, <4>5, <4>6, <4>7
    <3>12. LinksAre(head', tail', next', prev', new)
      BY <3>9, <3>10, <3>11 DEF LinksAre
    <3> QED BY <3>5, <3>8, <3>12 DEF new
  <2> QED BY <2>1, <2>2, <2>3, <1>f
<1>6. CASE NextPair
  <2>1. /\ listPc = "loop" /\ listPc' = "loop" /\ ptr2 # NULL /\ num_nodes \in Nat /\ made = n
        /\ ~(data[ptr1] <= data[made] /\ data[made] < data[ptr2])
        /\ ptr1' = next[ptr1] /\ ptr2' = next[ptr2]
        /\ UNCHANGED <<data, made, head, tail, next, prev, num_nodes>>
    BY <1>6 DEF NextPair, ShapeInv, links
  <2>2. ASSUME Whole PROVE AtPair(L)'
    <3>1. /\ AtPair(L) /\ Len(L) \in Nat /\ DOMAIN L = 1..Len(L) /\ \A p \in 1..Len(L) : data[L[p]] \in Nat
          /\ data[made] \in Nat /\ next[L[Len(L)]] = NULL /\ \A p \in 1..Len(L) - 1 : next[L[p]] = L[p + 1]
      BY <2>1, <2>2, <1>p, <1>s
    <3>2. L' = L
      BY <2>1, ExpectedStays
    <3> HIDE DEF L, n
    <3>3. PICK j \in 1..Len(L) : ptr1 = L[j] /\ data[L[j]] <= data[made] /\ ptr2 = IF j < Len(L) THEN L[j + 1] ELSE NULL
      BY <3>1 DEF AtPair
    <3>4. j < Len(L) /\ ptr2 = L[j + 1] /\ j + 1 \in 1..Len(L) /\ j \in 1..Len(L) - 1
      BY <2>1, <3>1, <3>3
    <3>5. data[L[j + 1]] <= data[made]
      <4>1. data[L[j + 1]] \in Nat
        BY <3>1, <3>4
      <4> QED BY <2>1, <3>1, <3>3, <3>4, <4>1
    <3>6. ptr1' = L[j + 1]
      BY <2>1, <3>1, <3>3, <3>4
    <3>7. ptr2' = IF j + 1 < Len(L) THEN L[(j + 1) + 1] ELSE NULL
      <4>1. CASE j + 1 < Len(L)
        <5>1. j + 1 \in 1..Len(L) - 1
          BY <3>1, <3>4, <4>1
        <5> QED BY <2>1, <3>1, <3>4, <4>1, <5>1
      <4>2. CASE ~(j + 1 < Len(L))
        <5>1. j + 1 = Len(L)
          BY <3>1, <3>4, <4>2
        <5> QED BY <2>1, <3>1, <3>4, <5>1
      <4> QED BY <4>1, <4>2
    <3> QED BY <2>1, <3>1, <3>2, <3>4, <3>5, <3>6, <3>7 DEF AtPair, NULL
  <2>3. Whole' => Whole
    BY <2>1, ExpectedStays DEF Whole, Departs
  <2>4. ASSUME Whole
        PROVE  /\ Unlinked(next, prev, num_nodes)' /\ InOrder(L, num_nodes)'
               /\ (IF num_nodes = 0 THEN head = NULL ELSE LinksAre(head, tail, next, prev, L))'
    <3>1. /\ Unlinked(next, prev, num_nodes) /\ InOrder(L, num_nodes)
          /\ IF num_nodes = 0 THEN head = NULL ELSE LinksAre(head, tail, next, prev, L)
      BY <2>1, <2>4 DEF ShapeInv
    <3>2. L' = L
      BY <2>1, ExpectedStays
    <3> HIDE DEF L
    <3> QED BY <2>1, <3>1, <3>2 DEF Unlinked, InOrder, LinksAre, Nodes, NULL
  <2> QED BY <2>1, <2>2, <2>3, <2>4 DEF ShapeInv
<1>7. CASE InsertLast
  <2>1. /\ listPc = "loop" /\ made' = made /\ data' = data /\ Inserted /\ ptr2 = NULL /\ head' = head
        /\ IF data[made] > data[ptr1]
           THEN /\ next' = [next EXCEPT ![ptr1] = made]
                /\ prev' = [prev EXCEPT ![made] = ptr1]
                /\ tail' = made
           ELSE next' = next /\ prev' = prev /\ tail' = tail
    BY <1>7 DEF InsertLast
  <2>2. made = n /\ made \in Nodes
    BY <1>t, <2>1 DEF ListInv, LoopPair, ShapeInv
  <2>3. ASSUME Whole, ~Departs(n)
        PROVE  /\ Unlinked(next', prev', n) /\ InOrder(Put(L, n), n)
               /\ LinksAre(head', tail', next', prev', Put(L, n))
    <3>1. /\ AtPair(L) /\ Len(L) \in Nat /\ DOMAIN L = 1..Len(L) /\ \A p \in 1..Len(L) : L[p] \in 1..num_nodes /\ L[p] \in Nodes
          /\ num_nodes \in 0..Len(data) - 1 /\ InOrder(L, num_nodes) /\ Unlinked(next, prev, num_nodes)
          /\ \A p, q \in 1..Len(L) : L[p] = L[q] => p = q
          /\ \A p \in 1..Len(L) : data[L[p]] \in Nat
          /\ data[n] \in Nat
      BY <2>1, <2>2, <2>3, <1>p, <1>s, <1>d
    <3>2. /\ L # <<>> /\ head = L[1] /\ tail = L[Len(L)] /\ next[L[Len(L)]] = NULL /\ prev[L[1]] = NULL
          /\ \A p \in 1..Len(L) - 1 : next[L[p]] = L[p + 1] /\ prev[L[p + 1]] = L[p]
          /\ next[n] = NULL
      BY <2>1, <2>3, <1>p
    <3>a. \A p \in 1..Len(L) : data[L[p]] # data[n]
      <4>1. n - 1 = num_nodes
        BY <3>1
      <4> QED BY <2>3, <3>1, <4>1 DEF Departs
    <3> HIDE DEF L
    <3>3. PICK j \in 1..Len(L) : ptr1 = L[j] /\ data[L[j]] <= data[made] /\ ptr2 = IF j < Len(L) THEN L[j + 1] ELSE NULL
      BY <3>1 DEF AtPair
    <3>4. j = Len(L) /\ 0 < Len(L) /\ num_nodes \in Nat
      <4>0. Len(L) \in Nat /\ num_nodes \in Nat
        BY <3>1
      <4>1. ASSUME j < Len(L) PROVE FALSE
        <5>1. j + 1 \in 1..Len(L)
          BY <3>1, <4>1
        <5>2. L[j + 1] \in Nodes /\ ptr2 = L[j + 1]
          BY <3>1, <3>3, <4>1, <5>1
        <5> QED BY <1>t, <2>1, <5>2 DEF NULL
      <4> QED BY <4>0, <4>1
    <3> DEFINE last == L[Len(L)]
    <3>5. ptr1 = last /\ last \in Nodes /\ last \in 1..num_nodes /\ last # n /\ data[last] \in Nat /\ data[last] <= data[n]
          /\ Len(L) \in 1..Len(L)
      BY <2>2, <3>1, <3>3, <3>4
    <3>6. CASE data[made] > data[ptr1]
      <4> DEFINE new == Put(L, n)
      <4>1. /\ Len(new) = Len(L) + 1 /\ InOrder(new, n)
            /\ \A p \in 1..Len(L) + 1 : new[p] = IF p <= Len(L) THEN L[p] ELSE IF p = Len(L) + 1 THEN n ELSE L[p - 1]
        <5>1. data[L[j]] < data[num_nodes + 1] /\ (j < Len(L) => data[num_nodes + 1] < data[L[j + 1]])
          BY <2>2, <3>1, <3>4, <3>5, <3>6
        <5>2. /\ Put(L, num_nodes + 1) = InsertAt(L, j + 1, num_nodes + 1)
              /\ Len(Put(L, num_nodes + 1)) = Len(L) + 1
              /\ \A p \in 1..Len(L) + 1 :
                   Put(L, num_nodes + 1)[p] = IF p <= j THEN L[p] ELSE IF p = j + 1 THEN num_nodes + 1 ELSE L[p - 1]
              /\ InOrder(Put(L, num_nodes + 1), num_nodes + 1)
          BY <1>t, <3>1, <5>1, PutBetween
        <5> QED BY <3>4, <5>2
      <4>0. Len(L) \in Nat
        BY <3>1
      <4>2. /\ \A p \in 1..Len(L) : new[p] = L[p]
            /\ new[Len(L) + 1] = n
        <5>1. \A p \in 1..Len(L) : p \in 1..Len(L) + 1 /\ p <= Len(L)
          BY <4>0
        <5>2. Len(L) + 1 \in 1..Len(L) + 1 /\ ~(Len(L) + 1 <= Len(L))
          BY <4>0
        <5> HIDE DEF new
        <5> QED BY <4>1, <5>1, <5>2
      <4> HIDE DEF new, last
      <4>3. \A m \in Nodes : /\ next'[m] = IF m = last THEN n ELSE next[m]
                             /\ prev'[m] = IF m = n THEN last ELSE prev[m]
        BY <1>t, <2>1, <2>2, <3>5, <3>6
      <4>4. tail' = n
        BY <2>1, <2>2, <3>6
      <4>5. Unlinked(next', prev', n)
        <5> SUFFICES ASSUME NEW m \in Nodes, m > n PROVE next'[m] = NULL /\ prev'[m] = NULL
          BY DEF Unlinked
        <5>1. m \in Nat /\ m > num_nodes /\ m # n /\ m # last
          BY <1>t, <3>4, <3>5
        <5> QED BY <3>1, <4>3, <5>1 DEF Unlinked
      <4>6. new # <<>> /\ head' = new[1] /\ tail' = new[Len(new)]
        <5>1. 1 \in 1..Len(L)
          BY <3>1, <3>4
        <5>2. new # <<>>
          BY <3>1, <4>1
        <5> QED BY <2>1, <3>2, <4>1, <4>2, <4>4, <5>1, <5>2
      <4>7. next'[new[Len(new)]] = NULL /\ prev'[new[1]] = NULL
        <5>1. new[Len(new)] = n /\ new[1] = L[1] /\ 1 \in 1..Len(L)
          BY <3>1, <3>4, <4>1, <4>2
        <5>2. L[1] # n /\ L[1] \in Nodes
          BY <3>1, <3>4, <5>1
        <5>3. next'[n] = next[n] /\ prev'[L[1]] = prev[L[1]]
          BY <2>2, <3>5, <4>3, <5>2
        <5> QED BY <3>2, <5>1, <5>3
      <4>8. ASSUME NEW p \in 1..Len(new) - 1 PROVE next'[new[p]] = new[p + 1] /\ prev'[new[p + 1]] = new[p]
        <5>1. p \in 1..Len(L) /\ new[p] = L[p] /\ L[p] \in Nodes /\ L[p] # n
          BY <3>1, <3>4, <4>1, <4>2
        <5>2. CASE p = Len(L)
          <6>1. new[p] = last /\ new[p + 1] = n
            BY <4>2, <5>1, <5>2 DEF last
          <6> QED BY <2>2, <3>5, <4>3, <6>1
        <5>3. CASE p # Len(L)
          <6>1. p \in 1..Len(L) - 1 /\ p + 1 \in 1..Len(L) /\ Len(L) \in 1..Len(L)
            BY <4>0, <5>1, <5>3
          <6>2. new[p + 1] = L[p + 1] /\ L[p + 1] \in Nodes /\ L[p + 1] # n /\ L[p] # last
            <7>1. L[p] # L[Len(L)]
              BY <3>1, <5>1, <5>3, <6>1
            <7>2. L[p + 1] # n
              BY <3>1, <3>4, <6>1
            <7> QED BY <3>1, <4>2, <6>1, <7>1, <7>2 DEF last
          <6>3. next'[L[p]] = next[L[p]] /\ prev'[L[p + 1]] = prev[L[p + 1]]
            BY <4>3, <5>1, <6>2
          <6>4. next[L[p]] = L[p + 1] /\ prev[L[p + 1]] = L[p]
            BY <3>2, <6>1
          <6> QED BY <5>1, <6>2, <6>3, <6>4
        <5> QED BY <5>2, <5>3
      <4>9. LinksAre(head', tail', next', prev', new)
        BY <4>6, <4>7, <4>8 DEF LinksAre
      <4> QED BY <4>1, <4>5, <4>9 DEF new
    <3>7. CASE ~(data[made] > data[ptr1])
      <4>1. data[n] = data[L[Len(L)]]
        BY <2>2, <3>1, <3>5, <3>7
      <4> QED BY <3>5, <3>a, <4>1
    <3> QED BY <3>6, <3>7
  <2> QED BY <2>1, <2>2, <2>3, <1>f
\* The other steps change neither the links nor what is counted.
<1>e. ASSUME UNCHANGED <<data, made, head, tail, next, prev, num_nodes>>, listPc \in {"insert", "print"}, listPc' \in {"insert", "print", "free"}
      PROVE  ShapeInv'
  <2>1. L' = L
    BY <1>e, ExpectedStays
  <2>2. Whole' => Whole
    BY <1>e, ExpectedStays DEF Whole, Departs
  <2>3. /\ num_nodes \in Nat /\ made = num_nodes
        /\ Whole => /\ Unlinked(next, prev, num_nodes) /\ InOrder(L, num_nodes)
                    /\ IF num_nodes = 0 THEN head = NULL ELSE LinksAre(head, tail, next, prev, L)
    BY <1>e DEF ShapeInv
  <2> HIDE DEF L
  <2>4. ASSUME Whole
        PROVE  /\ Unlinked(next, prev, num_nodes)' /\ InOrder(L, num_nodes)'
               /\ (IF num_nodes = 0 THEN head = NULL ELSE LinksAre(head, tail, next, prev, L))'
    BY <1>e, <2>1, <2>3, <2>4 DEF Unlinked, InOrder, LinksAre, Nodes, NULL
  <2> QED BY <1>e, <2>2, <2>3, <2>4 DEF ShapeInv, L
<1>8. CASE PrintNode
  BY <1>8, <1>e DEF PrintNode, links
<1>9. CASE Printed
  BY <1>9, <1>e DEF Printed, links
<1>10. CASE FreeTail
  BY <1>10 DEF FreeTail, ShapeInv
<1>11. CASE Freed
  BY <1>11 DEF Freed, ShapeInv
<1>12. CASE UNCHANGED listVars
  <2>1. UNCHANGED <<data, made, head, tail, next, prev, num_nodes, ptr1, ptr2, listPc>>
    BY <1>12 DEF listVars
  <2>2. L' = L
    BY <2>1, ExpectedStays
  <2>3. Whole' => Whole
    BY <2>1, ExpectedStays DEF Whole, Departs
  <2>4. ASSUME listPc \in {"insert", "loop", "print"}
        PROVE  /\ num_nodes \in Nat /\ made = IF listPc = "loop" THEN num_nodes + 1 ELSE num_nodes
               /\ Whole => /\ Unlinked(next, prev, num_nodes) /\ InOrder(L, num_nodes)
                           /\ IF num_nodes = 0 THEN head = NULL ELSE LinksAre(head, tail, next, prev, L)
                           /\ listPc = "loop" => AtPair(L)
    BY <2>4 DEF ShapeInv
  <2> HIDE DEF L
  <2>5. ASSUME listPc \in {"insert", "loop", "print"}, Whole
        PROVE  /\ Unlinked(next, prev, num_nodes)' /\ InOrder(L, num_nodes)'
               /\ (IF num_nodes = 0 THEN head = NULL ELSE LinksAre(head, tail, next, prev, L))'
               /\ (listPc = "loop" => AtPair(L))'
    BY <2>1, <2>2, <2>4, <2>5 DEF Unlinked, InOrder, LinksAre, AtPair, Nodes, NULL
  <2> QED BY <2>1, <2>3, <2>4, <2>5 DEF ShapeInv, L
<1> QED
  BY <1>1, <1>2, <1>3, <1>4, <1>5, <1>6, <1>7, <1>8, <1>9, <1>10, <1>11, <1>12 DEF ListNext

\* Until an insertion departs from the comment of insert_in_order()
\* (linked_list.h:18-24), print_list() and free_list() see the list that the
\* comment promises, both ways, and num_nodes counts its nodes, for every
\* sequence of insertions.
THEOREM ListAlwaysAsExpected == ListSpec => []ListAsExpected
<1>1. ShapeInv => ListAsExpected
  <2> SUFFICES ASSUME ShapeInv, listPc \in {"insert", "print"}, made > 0, ~Departed
               PROVE  num_nodes = made /\ InOrderBothWays
    BY DEF ListAsExpected
  <2>1. num_nodes \in Nat /\ num_nodes = made
    BY DEF ShapeInv
  <2>2. Whole
    BY <2>1 DEF Whole, Departed
  <2>3. LinksAre(head, tail, next, prev, Expected[made])
    BY <2>1, <2>2 DEF ShapeInv
  <2> QED BY <2>1, <2>3 DEF LinksAre, InOrderBothWays, FollowsNext, FollowsPrev, Last
<1>2. ListInv /\ ShapeInv /\ [ListNext]_listVars => ListInv' /\ ShapeInv'
  BY ListStepKeeps, ShapeStepKeeps
<1> QED BY <1>1, <1>2, ListInitially, ShapeInitially, PTL DEF ListSpec

-----------------------------------------------------------------------------
(* Quicksort.                                                              *)


\* A line, or a piece of one.
Strings == Seq(Nat)

\* The comparison of two strings, character by character.
LEMMA StrLessIs ==
    ASSUME NEW a \in Seq(Nat), NEW b \in Seq(Nat)
    PROVE  StrLess(a, b) <=>
             \E k \in 0..Len(a) :
                /\ k < Len(b) /\ (\A c \in 1..k : a[c] = b[c])
                /\ k = Len(a) \/ a[k + 1] < b[k + 1]
<1>1. Len(a) \in Nat /\ Len(b) \in Nat
  OBVIOUS
<1>2. ASSUME NEW k \in 0..Len(a), k < Len(b)
      PROVE  IsPrefix(SubSeq(a, 1, k), b) <=> \A c \in 1..k : a[c] = b[c]
  <2> DEFINE u == SubSeq(a, 1, k)
             v == SubSeq(b, 1, k)
  <2>1. u \in Seq(Nat) /\ Len(u) = k /\ \A c \in 1..k : u[c] = a[c]
    <3>1. \A c \in 1..k : a[c] \in Nat
      BY <1>1
    <3>2. k - 1 + 1 = k /\ k \in Int /\ (IF 1 <= k THEN k - 1 + 1 ELSE 0) = k
      BY <1>1
    <3>3. /\ u \in Seq(Nat) /\ Len(u) = IF 1 <= k THEN k - 1 + 1 ELSE 0
          /\ \A c \in 1..k - 1 + 1 : u[c] = a[1 + c - 1]
      BY <3>1, <3>2, SubSeqProperties
    <3> HIDE DEF u
    <3> QED BY <1>1, <3>2, <3>3
  <2>2. v \in Seq(Nat) /\ Len(v) = k /\ \A c \in 1..k : v[c] = b[c]
    <3>1. \A c \in 1..k : b[c] \in Nat
      BY <1>1, <1>2
    <3>2. k - 1 + 1 = k /\ k \in Int /\ (IF 1 <= k THEN k - 1 + 1 ELSE 0) = k
      BY <1>1
    <3>3. /\ v \in Seq(Nat) /\ Len(v) = IF 1 <= k THEN k - 1 + 1 ELSE 0
          /\ \A c \in 1..k - 1 + 1 : v[c] = b[1 + c - 1]
      BY <3>1, <3>2, SubSeqProperties
    <3> HIDE DEF v
    <3> QED BY <1>1, <3>2, <3>3
  <2>3. IsPrefix(u, b) <=> u = v
    <3>1. SubSeq(u, 1, Len(u)) = u
      BY <2>1, SubSeqFull
    <3> HIDE DEF u
    <3>2. IsPrefix(u, b) <=> Len(u) <= Len(b) /\ SubSeq(u, 1, Len(u)) = SubSeq(b, 1, Len(u))
      BY DEF IsPrefix
    <3>3. Len(u) <= Len(b)
      BY <1>1, <1>2, <2>1
    <3> QED BY <2>1, <3>1, <3>2, <3>3
  <2> HIDE DEF u, v
  <2>4. u = v <=> \A c \in 1..k : u[c] = v[c]
    BY <2>1, <2>2, SeqEqual
  <2>5. IsPrefix(u, b) <=> \A c \in 1..k : a[c] = b[c]
    BY <2>1, <2>2, <2>3, <2>4
  <2> QED BY <2>5 DEF u
<1> QED BY <1>2 DEF StrLess

LEMMA StrLessAsymmetric ==
    ASSUME NEW a \in Seq(Nat), NEW b \in Seq(Nat), StrLess(a, b)
    PROVE  ~StrLess(b, a)
<1> SUFFICES ASSUME StrLess(b, a) PROVE FALSE
  OBVIOUS
<1>1. Len(a) \in Nat /\ Len(b) \in Nat
  OBVIOUS
<1>2. PICK k \in 0..Len(a) : k < Len(b) /\ (\A c \in 1..k : a[c] = b[c]) /\ (k = Len(a) \/ a[k + 1] < b[k + 1])
  BY StrLessIs
<1>3. PICK m \in 0..Len(b) : m < Len(a) /\ (\A c \in 1..m : b[c] = a[c]) /\ (m = Len(b) \/ b[m + 1] < a[m + 1])
  BY StrLessIs
<1>4. m < Len(a) /\ m # Len(b) /\ k < Len(b)
  BY <1>1, <1>2, <1>3
<1>5. \A c \in 1..Len(a) : a[c] \in Nat
  OBVIOUS
<1>6. \A c \in 1..Len(b) : b[c] \in Nat
  OBVIOUS
<1>7. CASE k < m
  <2>1. k + 1 \in 1..m /\ k + 1 \in 1..Len(b) /\ k # Len(a)
    BY <1>1, <1>3, <1>7
  <2>2. b[k + 1] = a[k + 1] /\ a[k + 1] < b[k + 1] /\ b[k + 1] \in Nat
    BY <1>2, <1>3, <1>6, <2>1
  <2> QED BY <2>2
<1>8. CASE m < k
  <2>1. m + 1 \in 1..k /\ m + 1 \in 1..Len(a)
    BY <1>1, <1>2, <1>8
  <2>2. b[m + 1] = a[m + 1] /\ b[m + 1] < a[m + 1] /\ a[m + 1] \in Nat
    BY <1>2, <1>3, <1>4, <1>5, <2>1
  <2> QED BY <2>2
<1>9. CASE k = m
  <2>1. k + 1 \in 1..Len(a) /\ k + 1 \in 1..Len(b) /\ k # Len(a)
    BY <1>1, <1>4, <1>9
  <2>2. a[k + 1] < b[k + 1] /\ b[k + 1] < a[k + 1] /\ a[k + 1] \in Nat /\ b[k + 1] \in Nat
    BY <1>2, <1>3, <1>4, <1>5, <1>6, <1>9, <2>1
  <2> QED BY <2>2
<1> QED BY <1>1, <1>7, <1>8, <1>9

LEMMA StrLessTransitive ==
    ASSUME NEW a \in Seq(Nat), NEW b \in Seq(Nat), NEW d \in Seq(Nat), StrLess(a, b), StrLess(b, d)
    PROVE  StrLess(a, d)
<1>1. Len(a) \in Nat /\ Len(b) \in Nat /\ Len(d) \in Nat
  OBVIOUS
<1>2. PICK k \in 0..Len(a) : k < Len(b) /\ (\A c \in 1..k : a[c] = b[c]) /\ (k = Len(a) \/ a[k + 1] < b[k + 1])
  BY StrLessIs
<1>3. PICK m \in 0..Len(b) : m < Len(d) /\ (\A c \in 1..m : b[c] = d[c]) /\ (m = Len(b) \/ b[m + 1] < d[m + 1])
  BY StrLessIs
<1>4. \A c \in 1..Len(a) : a[c] \in Nat
  OBVIOUS
<1>5. \A c \in 1..Len(b) : b[c] \in Nat
  OBVIOUS
<1>6. \A c \in 1..Len(d) : d[c] \in Nat
  OBVIOUS
<1> SUFFICES \E n \in 0..Len(a) : n < Len(d) /\ (\A c \in 1..n : a[c] = d[c]) /\ (n = Len(a) \/ a[n + 1] < d[n + 1])
  BY StrLessIs
<1>7. CASE k < m
  <2>1. k < Len(d) /\ k + 1 \in 1..m
    BY <1>1, <1>3, <1>7
  <2>2. \A c \in 1..k : a[c] = d[c]
    <3> TAKE c \in 1..k
    <3>1. c \in 1..m
      BY <1>1, <1>7
    <3> QED BY <1>2, <1>3, <3>1
  <2>3. k = Len(a) \/ a[k + 1] < d[k + 1]
    BY <1>2, <1>3, <2>1
  <2> QED BY <2>1, <2>2, <2>3
<1>8. CASE m < k
  <2>1. m + 1 \in 1..k /\ m \in 0..Len(a) /\ m # Len(b)
    BY <1>1, <1>2, <1>8
  <2>2. \A c \in 1..m : a[c] = d[c]
    <3> TAKE c \in 1..m
    <3>1. c \in 1..k
      BY <1>1, <1>8
    <3> QED BY <1>2, <1>3, <3>1
  <2>3. a[m + 1] < d[m + 1]
    BY <1>2, <1>3, <2>1
  <2> QED BY <1>3, <2>1, <2>2, <2>3
<1>9. CASE k = m
  <2>1. k < Len(d) /\ \A c \in 1..k : a[c] = d[c]
    BY <1>2, <1>3, <1>9
  <2>2. ASSUME k # Len(a) PROVE a[k + 1] < d[k + 1]
    <3>1. k + 1 \in 1..Len(a) /\ k + 1 \in 1..Len(b) /\ k + 1 \in 1..Len(d)
      BY <1>1, <1>2, <2>1, <2>2
    <3>2. a[k + 1] \in Nat /\ b[k + 1] \in Nat /\ d[k + 1] \in Nat
      BY <1>4, <1>5, <1>6, <3>1
    <3>3. a[k + 1] < b[k + 1] /\ b[k + 1] < d[k + 1]
      BY <1>1, <1>2, <1>3, <1>9, <2>2
    <3> QED BY <3>2, <3>3
  <2> QED BY <2>1, <2>2
<1> QED BY <1>1, <1>7, <1>8, <1>9

\* What the table holds once it is converted: strings, numbers, or "not a number".
IsElement(mode, x) ==
    \/ mode = "string" /\ x \in Seq(Nat)
    \/ mode \in {"int", "double"} /\ \E n \in Nat : x = <<n>>
    \/ mode = "double" /\ x = NotANumber

\* The comparisons put in order whatever has a place in it, and may be asked
\* about anything else.
LEMMA OrderIsStrict ==
    ASSUME NEW a, NEW b, NEW x, Mode(command) \in {"string", "int", "double"},
           IsElement(Mode(command), a), IsElement(Mode(command), b), IsElement(Mode(command), x),
           Ordered(a), Ordered(b)
    PROVE  ~(Less(a, b) /\ Less(b, a)) /\ (Less(a, b) /\ Less(b, x) => Less(a, x))
<1> DEFINE mode == Mode(command)
<1>0. /\ Less(a, b) <=> Compares(mode, a, b)
      /\ Less(b, a) <=> Compares(mode, b, a)
      /\ Less(b, x) <=> Compares(mode, b, x)
      /\ Less(a, x) <=> Compares(mode, a, x)
  BY DEF Less
<1> HIDE DEF mode
<1>1. /\ mode \in {"string", "int", "double"}
      /\ IsElement(mode, a) /\ IsElement(mode, b) /\ IsElement(mode, x)
      /\ mode = "double" => a # NotANumber /\ b # NotANumber
  BY DEF mode, Ordered
<1>2. CASE mode = "string"
  <2>1. a \in Seq(Nat) /\ b \in Seq(Nat) /\ x \in Seq(Nat)
    BY <1>1, <1>2 DEF IsElement
  <2>2. \A u, v : Compares(mode, u, v) <=> StrLess(u, v)
    BY <1>2 DEF Compares
  <2> QED BY <1>0, <2>1, <2>2, StrLessAsymmetric, StrLessTransitive
<1>3. CASE mode \in {"int", "double"} /\ x # NotANumber
  <2>1. PICK n \in Nat : a = <<n>>
    BY <1>1, <1>3 DEF IsElement
  <2>2. PICK m \in Nat : b = <<m>>
    BY <1>1, <1>3 DEF IsElement
  <2>3. PICK k \in Nat : x = <<k>>
    BY <1>1, <1>3 DEF IsElement
  <2>4. ASSUME NEW u \in Nat, NEW v \in Nat PROVE Compares(mode, <<u>>, <<v>>) <=> u < v
    <3>1. <<u>> # NotANumber /\ <<v>> # NotANumber
      BY DEF NotANumber
    <3>2. CASE mode = "int"
      BY <3>2 DEF Compares
    <3>3. CASE mode = "double"
      BY <3>1, <3>3 DEF Compares, DblLess
    <3> QED BY <1>3, <3>2, <3>3
  <2>5. n < m <=> Less(a, b)
    BY <1>0, <2>1, <2>2, <2>4
  <2>6. m < n <=> Less(b, a)
    BY <1>0, <2>1, <2>2, <2>4
  <2>7. (m < k <=> Less(b, x)) /\ (n < k <=> Less(a, x))
    BY <1>0, <2>1, <2>2, <2>3, <2>4
  <2> QED BY <2>5, <2>6, <2>7
<1>4. CASE mode = "double" /\ x = NotANumber
  <2>1. PICK n \in Nat : a = <<n>>
    BY <1>1, <1>4 DEF IsElement
  <2>2. PICK m \in Nat : b = <<m>>
    BY <1>1, <1>4 DEF IsElement
  <2>3. (Less(a, b) <=> n < m) /\ (Less(b, a) <=> m < n) /\ Less(a, x)
    BY <1>0, <1>1, <1>4, <2>1, <2>2 DEF Compares, DblLess
  <2> QED BY <2>3
<1>5. CASE mode = "int" /\ x = NotANumber
  <2>1. \E n \in Nat : x = <<n>>
    BY <1>1, <1>5 DEF IsElement
  <2> QED BY <1>5, <2>1 DEF NotANumber
<1> QED BY <1>1, <1>2, <1>3, <1>4, <1>5

DigitsUpTo(h, piece, m) ==
    h = [k \in 0..m |->
            IF k = 0 THEN 0
            ELSE IF \E c \in 1..k : piece[c] = NaN THEN h[k - 1]
            ELSE 10 * h[k - 1] + piece[k]]

LEMMA NumberIs ==
    ASSUME NEW piece \in Seq(Nat)
    PROVE  Number(piece) \in Nat
<1>1. Len(piece) \in Nat /\ \A k \in 1..Len(piece) : piece[k] \in Nat
  OBVIOUS
<1> DEFINE val(g, k) == IF \E c \in 1..k : piece[c] = NaN THEN g ELSE 10 * g + piece[k]
           S == {n \in Nat : n <= Len(piece) => \E h \in [0..n -> Nat] : DigitsUpTo(h, piece, n)}
<1>2. \A g \in Nat, k \in 1..Len(piece) : val(g, k) \in Nat
  BY <1>1
<1>3. \A h, m : DigitsUpTo(h, piece, m) <=> h = [k \in 0..m |-> IF k = 0 THEN 0 ELSE val(h[k - 1], k)]
  BY DEF DigitsUpTo
<1> HIDE DEF val
<1>4. 0 \in S
  <2>1. \A k \in 0..0 : k = 0
    OBVIOUS
  <2>2. [k \in 0..0 |-> 0] = [k \in 0..0 |-> IF k = 0 THEN 0 ELSE val([q \in 0..0 |-> 0][k - 1], k)]
    BY <2>1
  <2>3. DigitsUpTo([k \in 0..0 |-> 0], piece, 0)
    BY <1>3, <2>2
  <2>4. [k \in 0..0 |-> 0] \in [0..0 -> Nat]
    OBVIOUS
  <2> QED BY <2>3, <2>4
<1>5. ASSUME NEW n \in Nat, n \in S PROVE n + 1 \in S
  <2> SUFFICES ASSUME n + 1 <= Len(piece) PROVE \E h \in [0..n + 1 -> Nat] : DigitsUpTo(h, piece, n + 1)
    OBVIOUS
  <2>1. PICK h \in [0..n -> Nat] : DigitsUpTo(h, piece, n)
    <3>1. n <= Len(piece)
      BY <1>1
    <3> QED BY <1>5, <3>1
  <2>2. \A k \in 0..n : h[k] = IF k = 0 THEN 0 ELSE val(h[k - 1], k)
    BY <1>3, <2>1
  <2> DEFINE g == [k \in 0..n + 1 |-> IF k = n + 1 THEN val(h[k - 1], k) ELSE h[k]]
  <2>3. \A k \in 0..n + 1 : g[k] \in Nat /\ g[k] = IF k = 0 THEN 0 ELSE val(g[k - 1], k)
    <3> TAKE k \in 0..n + 1
    <3>1. CASE k = 0
      <4>1. 0 \in 0..n /\ k # n + 1
        BY <3>1
      <4>2. g[k] = h[0]
        BY <3>1, <4>1
      <4>3. h[0] = 0
        BY <2>2, <4>1
      <4> QED BY <3>1, <4>2, <4>3
    <3>2. CASE k # 0
      <4>1. k - 1 \in 0..n /\ k - 1 # n + 1 /\ k - 1 \in 0..n + 1 /\ (k # n + 1 => k \in 0..n) /\ k \in 1..Len(piece)
        BY <1>1, <3>2
      <4>2. g[k - 1] = h[k - 1]
        BY <4>1
      <4>3. g[k] = val(h[k - 1], k)
        BY <2>2, <3>2, <4>1
      <4>4. h[k - 1] \in Nat
        BY <2>1, <4>1
      <4>5. g[k] \in Nat
        BY <1>2, <4>1, <4>3, <4>4
      <4> QED BY <3>2, <4>2, <4>3, <4>5
    <3> QED BY <3>1, <3>2
  <2>4. g = [k \in 0..n + 1 |-> g[k]]
    OBVIOUS
  <2> HIDE DEF g
  <2>5. g \in [0..n + 1 -> Nat]
    BY <2>3, <2>4
  <2>6. DigitsUpTo(g, piece, n + 1)
    <3>1. g = [k \in 0..n + 1 |-> IF k = 0 THEN 0 ELSE val(g[k - 1], k)]
      BY <2>3, <2>4
    <3> QED BY <1>3, <3>1
  <2> QED BY <2>5, <2>6
<1>6. PICK h \in [0..Len(piece) -> Nat] : DigitsUpTo(h, piece, Len(piece))
  <2> HIDE DEF S
  <2>1. Len(piece) \in S
    BY <1>1, <1>4, <1>5, InductionOnSets
  <2> QED BY <1>1, <2>1 DEF S
<1>7. Number(piece) = (CHOOSE g : DigitsUpTo(g, piece, Len(piece)))[Len(piece)]
  BY DEF Number, DigitsUpTo
<1>8. DigitsUpTo(CHOOSE g : DigitsUpTo(g, piece, Len(piece)), piece, Len(piece))
  BY <1>6
<1> DEFINE f == CHOOSE g : DigitsUpTo(g, piece, Len(piece))
<1> HIDE DEF f
<1>9. ASSUME NEW n \in Nat, n <= Len(piece) => f[n] \in Nat
      PROVE  n + 1 <= Len(piece) => f[n + 1] \in Nat
  <2> SUFFICES ASSUME n + 1 <= Len(piece) PROVE f[n + 1] \in Nat
    OBVIOUS
  <2>1. n + 1 \in 0..Len(piece) /\ n + 1 # 0 /\ (n + 1) - 1 = n /\ n + 1 \in 1..Len(piece) /\ n <= Len(piece)
    BY <1>1
  <2>2. f = [k \in 0..Len(piece) |-> IF k = 0 THEN 0 ELSE val(f[k - 1], k)]
    BY <1>3, <1>8 DEF f
  <2>3. f[n + 1] = IF n + 1 = 0 THEN 0 ELSE val(f[(n + 1) - 1], n + 1)
    BY <2>1, <2>2
  <2>4. f[n + 1] = val(f[n], n + 1)
    BY <2>1, <2>3
  <2> QED BY <1>2, <1>9, <2>1, <2>4
<1>10. f[0] \in Nat
  <2>1. f = [k \in 0..Len(piece) |-> IF k = 0 THEN 0 ELSE val(f[k - 1], k)]
    BY <1>3, <1>8 DEF f
  <2>2. 0 \in 0..Len(piece)
    BY <1>1
  <2>3. f[0] = 0
    BY <2>1, <2>2
  <2> QED BY <2>3
<1> DEFINE T == {n \in Nat : n <= Len(piece) => f[n] \in Nat}
<1>11. Len(piece) \in T
  <2>1. 0 \in T
    BY <1>10
  <2>2. \A n \in Nat : n \in T => n + 1 \in T
    BY <1>9
  <2> HIDE DEF T
  <2> QED BY <1>1, <2>1, <2>2, InductionOnSets
<1> QED BY <1>1, <1>7, <1>11 DEF f

PiecesUpTo(h, lines, m) ==
    h = [n \in 0..m |-> IF n = 0 THEN <<>> ELSE PiecesOf(lines[Len(lines) - n + 1]) \o h[n - 1]]

LEMMA PiecesExist ==
    ASSUME NEW lines, NEW m \in Nat PROVE \E h : PiecesUpTo(h, lines, m)
<1> DEFINE nth(n) == PiecesOf(lines[Len(lines) - n + 1])
           S == {n \in Nat : \E h : PiecesUpTo(h, lines, n)}
<1>0. \A h, k : PiecesUpTo(h, lines, k) <=> h = [n \in 0..k |-> IF n = 0 THEN <<>> ELSE nth(n) \o h[n - 1]]
  BY DEF PiecesUpTo
<1> HIDE DEF nth
<1>1. 0 \in S
  <2>1. \A n \in 0..0 : n = 0
    OBVIOUS
  <2>2. [n \in 0..0 |-> <<>>] = [n \in 0..0 |-> IF n = 0 THEN <<>> ELSE nth(n) \o [q \in 0..0 |-> <<>>][n - 1]]
    BY <2>1
  <2>3. PiecesUpTo([n \in 0..0 |-> <<>>], lines, 0)
    BY <1>0, <2>2
  <2> QED BY <2>3
<1>2. \A n \in Nat : n \in S => n + 1 \in S
  <2> SUFFICES ASSUME NEW n \in Nat, n \in S PROVE \E h : PiecesUpTo(h, lines, n + 1)
    OBVIOUS
  <2>1. PICK h : PiecesUpTo(h, lines, n)
    OBVIOUS
  <2>2. \A k \in 0..n : h[k] = IF k = 0 THEN <<>> ELSE nth(k) \o h[k - 1]
    BY <1>0, <2>1
  <2> DEFINE g == [k \in 0..n + 1 |-> IF k = n + 1 THEN nth(k) \o h[k - 1] ELSE h[k]]
  <2>3. \A k \in 0..n + 1 : g[k] = IF k = 0 THEN <<>> ELSE nth(k) \o g[k - 1]
    <3> TAKE k \in 0..n + 1
    <3>1. CASE k = 0
      BY <2>2, <3>1
    <3>2. CASE k # 0
      <4>1. k - 1 \in 0..n /\ k - 1 # n + 1 /\ (k # n + 1 => k \in 0..n)
        BY <3>2
      <4>2. g[k - 1] = h[k - 1]
        BY <4>1
      <4>3. g[k] = nth(k) \o h[k - 1]
        BY <2>2, <3>2, <4>1
      <4> QED BY <3>2, <4>2, <4>3
    <3> QED BY <3>1, <3>2
  <2>4. PiecesUpTo(g, lines, n + 1)
    <3>1. g = [k \in 0..n + 1 |-> g[k]]
      OBVIOUS
    <3> HIDE DEF g
    <3>2. g = [k \in 0..n + 1 |-> IF k = 0 THEN <<>> ELSE nth(k) \o g[k - 1]]
      BY <2>3, <3>1
    <3> QED BY <1>0, <3>2
  <2> QED BY <2>4
<1> HIDE DEF S
<1>3. m \in S
  BY <1>1, <1>2, InductionOnSets
<1> QED BY <1>3 DEF S

PiecesFun(lines) == CHOOSE h : PiecesUpTo(h, lines, Len(lines))

LEMMA PiecesUnfold ==
    ASSUME NEW S, NEW lines \in Seq(S)
    PROVE  /\ Pieces(lines) = PiecesFun(lines)[Len(lines)]
           /\ PiecesFun(lines)[0] = <<>>
           /\ \A n \in 1..Len(lines) :
                PiecesFun(lines)[n] = PiecesOf(lines[Len(lines) - n + 1]) \o PiecesFun(lines)[n - 1]
<1>1. Len(lines) \in Nat
  OBVIOUS
<1>2. Pieces(lines) = PiecesFun(lines)[Len(lines)]
  BY DEF Pieces, PiecesFun, PiecesUpTo
<1>3. PiecesUpTo(PiecesFun(lines), lines, Len(lines))
  BY <1>1, PiecesExist DEF PiecesFun
<1> DEFINE f == PiecesFun(lines)
           nth(n) == PiecesOf(lines[Len(lines) - n + 1])
<1>4. f = [n \in 0..Len(lines) |-> IF n = 0 THEN <<>> ELSE nth(n) \o f[n - 1]]
  BY <1>3 DEF PiecesUpTo
<1> HIDE DEF f, nth
<1>5. f[0] = <<>>
  <2>1. 0 \in 0..Len(lines)
    BY <1>1
  <2> QED BY <1>4, <2>1
<1>6. ASSUME NEW n \in 1..Len(lines) PROVE f[n] = nth(n) \o f[n - 1]
  <2>1. n \in 0..Len(lines) /\ n # 0
    BY <1>1
  <2> QED BY <1>4, <2>1
<1> QED BY <1>2, <1>5, <1>6 DEF f, nth

LEMMA Quotients ==
    ASSUME NEW b \in Nat \ {0}, NEW a \in Nat
    PROVE  a \div b \in Nat /\ (a + b) \div b = a \div b + 1 /\ (a < b => a \div b = 0)
<1>1. a \div b \in Int /\ (a + b) \div b \in Int
  OBVIOUS
<1>2. ASSUME NEW c \in Nat, NEW q \in Int, q = c \div b PROVE b * q <= c /\ c < b * q + b
  BY <1>2
<1>3. ASSUME NEW c \in Nat, NEW q \in Int, NEW r \in Int, b * q <= c, c < b * q + b, b * r <= c, c < b * r + b
      PROVE  q = r
  <2>1. \A x, y \in Int : x < y => b * x + b <= b * y
    <3> TAKE x, y \in Int
    <3> SUFFICES ASSUME x < y PROVE b * x + b <= b * y
      OBVIOUS
    <3>1. PICK d \in Nat : y = x + 1 + d
      <4>1. y - x - 1 \in Nat /\ y = x + 1 + (y - x - 1)
        OBVIOUS
      <4> QED BY <4>1
    <3>2. b * y = b * x + b + b * d /\ b * d \in Nat
      BY <3>1
    <3>3. b * x \in Int
      OBVIOUS
    <3> QED BY <3>2, <3>3
  <2>2. b * q \in Int /\ b * r \in Int
    OBVIOUS
  <2> QED BY <1>3, <2>1, <2>2
<1> DEFINE q == a \div b
           r == (a + b) \div b
<1>4. b * q <= a /\ a < b * q + b
  BY <1>1, <1>2
<1>5. b * r <= a + b /\ a + b < b * r + b
  <2>1. a + b \in Nat
    OBVIOUS
  <2> QED BY <1>1, <1>2, <2>1
<1> HIDE DEF q, r
<1>6. q \in Int /\ r \in Int
  BY <1>1 DEF q, r
<1>7. r = q + 1
  <2>1. b * (q + 1) = b * q + b /\ b * q \in Int
    BY <1>6
  <2>2. b * (q + 1) <= a + b /\ a + b < b * (q + 1) + b
    BY <1>4, <1>6, <2>1
  <2>3. a + b \in Nat /\ q + 1 \in Int
    BY <1>6
  <2> QED BY <1>3, <1>5, <1>6, <2>2, <2>3
<1>8. q \in Nat
  <2> SUFFICES ASSUME q < 0 PROVE FALSE
    BY <1>6
  <2>1. PICK d \in Nat : q = 0 - 1 - d
    <3>1. 0 - 1 - q \in Nat /\ q = 0 - 1 - (0 - 1 - q)
      BY <1>6
    <3> QED BY <3>1
  <2>2. b * q + b = 0 - b * d /\ b * d \in Nat
    BY <2>1
  <2> QED BY <1>4, <2>2
<1>9. a < b => q = 0
  <2> SUFFICES ASSUME a < b PROVE q = 0
    OBVIOUS
  <2>1. b * 0 = 0
    OBVIOUS
  <2>2. b * 0 <= a /\ a < b * 0 + b
    BY <2>1
  <2> QED BY <1>3, <1>4, <1>6, <2>2
<1> QED BY <1>7, <1>8, <1>9 DEF q, r

\* Where the pieces of a line begin and how many there are.
LEMMA PiecesOfIs ==
    ASSUME NEW line \in Strings
    PROVE  /\ PiecesOf(line) \in Seq(Strings)
           /\ Len(PiecesOf(line)) = (Len(line) + MAX_STRLEN) \div (MAX_STRLEN + 1)
           /\ \A k \in 1..(Len(line) + MAX_STRLEN) \div (MAX_STRLEN + 1) :
                PiecesOf(line)[k] =
                  LET first == (k - 1) * (MAX_STRLEN + 1) + 1
                  IN SubSeq(line, first, IF first + MAX_STRLEN - 1 < Len(line) THEN first + MAX_STRLEN - 1 ELSE Len(line))
<1> DEFINE M == MAX_STRLEN
           n == (Len(line) + M) \div (M + 1)
           from(k) == (k - 1) * (M + 1) + 1
           upTo(k) == IF from(k) + M - 1 < Len(line) THEN from(k) + M - 1 ELSE Len(line)
           kth(k) == SubSeq(line, from(k), upTo(k))
<1>1. M \in Nat \ {0} /\ Len(line) \in Nat /\ \A c \in 1..Len(line) : line[c] \in Nat
  BY SortAssumption DEF Strings
<1>2. n \in Nat
  <2>1. M + 1 \in Nat \ {0} /\ Len(line) + M \in Nat
    BY <1>1
  <2> QED BY <2>1, Quotients
<1>3. PiecesOf(line) = [k \in 1..n |-> kth(k)]
  BY DEF PiecesOf
<1>4. ASSUME NEW k \in 1..n PROVE kth(k) \in Strings
  <2>1. from(k) \in Nat /\ 1 <= from(k)
    <3>1. k - 1 \in Nat /\ M + 1 \in Nat
      BY <1>1, <1>2
    <3>2. (k - 1) * (M + 1) \in Nat
      BY <3>1
    <3> QED BY <3>2
  <2> HIDE DEF from
  <2>2. upTo(k) \in Int /\ upTo(k) <= Len(line)
    BY <1>1, <2>1
  <2> HIDE DEF upTo
  <2>3. \A c \in from(k)..upTo(k) : line[c] \in Nat
    BY <1>1, <2>1, <2>2
  <2>4. SubSeq(line, from(k), upTo(k)) \in Seq(Nat)
    BY <2>1, <2>2, <2>3, SubSeqProperties
  <2> QED BY <2>4 DEF Strings
<1> HIDE DEF kth, n
<1>5. PiecesOf(line) \in Seq(Strings) /\ Len(PiecesOf(line)) = n /\ \A k \in 1..n : PiecesOf(line)[k] = kth(k)
  BY <1>2, <1>3, <1>4
<1> QED BY <1>5 DEF kth, n

\* The first piece, and what is left of the line.
LEMMA FirstPiece ==
    ASSUME NEW line \in Strings, line # <<>>
    PROVE  LET piece == IF Len(line) <= MAX_STRLEN THEN line ELSE SubSeq(line, 1, MAX_STRLEN)
               more == SubSeq(line, MAX_STRLEN + 2, Len(line))
           IN piece \in Strings \ {<<>>} /\ more \in Strings /\ PiecesOf(line) = <<piece>> \o PiecesOf(more)
<1> DEFINE M == MAX_STRLEN
           piece == IF Len(line) <= M THEN line ELSE SubSeq(line, 1, M)
           more == SubSeq(line, M + 2, Len(line))
           size == IF M + 2 <= Len(line) THEN Len(line) - (M + 1) ELSE 0
           n(l) == (l + M) \div (M + 1)
           upTo(l, f) == IF f + M - 1 < l THEN f + M - 1 ELSE l
<1>1. M \in Nat \ {0} /\ Len(line) \in Nat \ {0} /\ \A c \in 1..Len(line) : line[c] \in Nat
  BY SortAssumption DEF Strings
<1>2. piece \in Strings \ {<<>>} /\ piece = SubSeq(line, 1, upTo(Len(line), 1))
  <2>1. SubSeq(line, 1, Len(line)) = line
    BY SubSeqFull DEF Strings
  <2>2. ASSUME M < Len(line) PROVE SubSeq(line, 1, M) \in Seq(Nat) /\ Len(SubSeq(line, 1, M)) = M
    <3>1. \A c \in 1..M : line[c] \in Nat
      BY <1>1, <2>2
    <3>2. M \in Int /\ 1 \in Int /\ (IF 1 <= M THEN M - 1 + 1 ELSE 0) = M
      BY <1>1
    <3> QED BY <3>1, <3>2, SubSeqProperties
  <2>3. piece = SubSeq(line, 1, upTo(Len(line), 1))
    <3>1. 1 + M - 1 = M
      BY <1>1
    <3>2. CASE Len(line) <= M
      <4>1. upTo(Len(line), 1) = Len(line)
        BY <1>1, <3>2
      <4>2. piece = line
        BY <3>2
      <4> QED BY <2>1, <4>1, <4>2
    <3>3. CASE ~(Len(line) <= M)
      <4>1. upTo(Len(line), 1) = M
        BY <1>1, <3>3
      <4>2. piece = SubSeq(line, 1, M)
        BY <3>3
      <4> QED BY <4>1, <4>2
    <3> QED BY <3>2, <3>3
  <2>4. piece \in Strings \ {<<>>}
    <3>1. CASE Len(line) <= M
      BY <3>1
    <3>2. CASE ~(Len(line) <= M)
      <4>1. Len(<<>>) = 0 /\ M < Len(line)
        BY <1>1, <3>2
      <4>2. SubSeq(line, 1, M) # <<>>
        BY <1>1, <2>2, <4>1
      <4> QED BY <2>2, <3>2, <4>1, <4>2 DEF Strings
    <3> QED BY <3>1, <3>2
  <2> QED BY <2>3, <2>4
<1>3. more \in Strings /\ Len(more) = size /\ \A c \in 1..size : more[c] = line[M + 1 + c]
  <2>1. \A c \in M + 2 .. Len(line) : line[c] \in Nat
    BY <1>1
  <2>2. M + 2 \in Int /\ Len(line) \in Int
    BY <1>1
  <2>3. /\ more \in Seq(Nat) /\ Len(more) = IF M + 2 <= Len(line) THEN Len(line) - (M + 2) + 1 ELSE 0
        /\ \A c \in 1..Len(line) - (M + 2) + 1 : more[c] = line[M + 2 + c - 1]
    BY <2>1, <2>2, SubSeqProperties
  <2> HIDE DEF more
  <2>4. Len(more) = size
    BY <1>1, <2>3
  <2>5. ASSUME NEW c \in 1..size PROVE more[c] = line[M + 1 + c]
    <3>1. c \in 1..Len(line) - (M + 2) + 1 /\ M + 2 + c - 1 = M + 1 + c
      BY <1>1
    <3> QED BY <2>3, <3>1
  <2> QED BY <2>3, <2>4, <2>5 DEF Strings
<1>4. size \in Nat
  BY <1>1
<1> HIDE DEF more, piece
<1>5. n(size) \in Nat /\ n(Len(line)) = 1 + n(size)
  <2>1. M + 1 \in Nat \ {0} /\ size + M \in Nat
    BY <1>1, <1>4
  <2>2. n(size) \in Nat /\ ((size + M) + (M + 1)) \div (M + 1) = n(size) + 1
    BY <2>1, Quotients
  <2>3. CASE M + 1 < Len(line)
    <3>1. (size + M) + (M + 1) = Len(line) + M
      <4>1. M + 2 <= Len(line)
        BY <1>1, <2>3
      <4>2. size = Len(line) - (M + 1)
        BY <4>1
      <4> HIDE DEF size
      <4> QED BY <1>1, <4>2
    <3> QED BY <2>2, <3>1
  <2>4. CASE ~(M + 1 < Len(line))
    <3>1. size = 0 /\ 0 + M < M + 1 /\ 0 + M \in Nat
      BY <1>1, <2>4
    <3>2. n(size) = 0
      BY <2>1, <3>1, Quotients
    <3>3. Len(line) - 1 \in Nat /\ Len(line) - 1 < M + 1 /\ (Len(line) - 1) + (M + 1) = Len(line) + M
      BY <1>1, <2>4
    <3>4. (Len(line) + M) \div (M + 1) = (Len(line) - 1) \div (M + 1) + 1 /\ (Len(line) - 1) \div (M + 1) = 0
      BY <2>1, <3>3, Quotients
    <3> QED BY <3>2, <3>4
  <2> QED BY <2>2, <2>3, <2>4
<1> DEFINE whole == PiecesOf(line)
           others == PiecesOf(more)
<1>6. /\ whole \in Seq(Strings) /\ Len(whole) = n(Len(line))
      /\ \A k \in 1..n(Len(line)) : whole[k] = SubSeq(line, (k - 1) * (M + 1) + 1, upTo(Len(line), (k - 1) * (M + 1) + 1))
  BY PiecesOfIs
<1>7. /\ others \in Seq(Strings) /\ Len(others) = n(size)
      /\ \A k \in 1..n(size) : others[k] = SubSeq(more, (k - 1) * (M + 1) + 1, upTo(size, (k - 1) * (M + 1) + 1))
  BY <1>3, PiecesOfIs
<1> HIDE DEF whole, others, n
<1>8. <<piece>> \in Seq(Strings) /\ Len(<<piece>>) = 1 /\ <<piece>>[1] = piece
  <2>1. piece \in Strings
    BY <1>2
  <2> HIDE DEF Strings
  <2> QED BY <2>1
<1>9. /\ <<piece>> \o others \in Seq(Strings) /\ Len(<<piece>> \o others) = 1 + n(size)
      /\ \A k \in 1..1 + n(size) : (<<piece>> \o others)[k] = IF k <= 1 THEN <<piece>>[k] ELSE others[k - 1]
  BY <1>7, <1>8, ConcatProperties
<1>10. ASSUME NEW k \in 1..n(Len(line)) PROVE whole[k] = (<<piece>> \o others)[k]
  <2>1. CASE k = 1
    <3>1. (k - 1) * (M + 1) + 1 = 1
      BY <1>1, <2>1
    <3>2. whole[k] = piece
      BY <1>2, <1>6, <3>1
    <3>3. 1 \in 1..1 + n(size)
      BY <1>5
    <3> QED BY <1>8, <1>9, <2>1, <3>2, <3>3
  <2>2. CASE k # 1
    <3>1. k - 1 \in 1..n(size) /\ ~(k <= 1) /\ k \in 1..1 + n(size)
      BY <1>5, <2>2
    <3>2. PICK g \in Nat : g = ((k - 1) - 1) * (M + 1)
      <4>1. (k - 1) - 1 \in Nat /\ M + 1 \in Nat
        BY <1>1, <1>5, <3>1
      <4>2. ((k - 1) - 1) * (M + 1) \in Nat
        BY <4>1
      <4> QED BY <4>2
    <3>3. (k - 1) * (M + 1) = g + (M + 1)
      <4>1. PICK m \in Nat : m = (k - 1) - 1 /\ k - 1 = m + 1
        <5>1. (k - 1) - 1 \in Nat /\ k - 1 = ((k - 1) - 1) + 1
          BY <1>5, <3>1
        <5> QED BY <5>1
      <4>2. (m + 1) * (M + 1) = m * (M + 1) + (M + 1)
        BY <1>1
      <4> QED BY <3>2, <4>1, <4>2
    <3>4. (<<piece>> \o others)[k] = SubSeq(more, g + 1, upTo(size, g + 1))
      BY <1>7, <1>9, <3>1, <3>2
    <3>5. whole[k] = SubSeq(line, g + (M + 1) + 1, upTo(Len(line), g + (M + 1) + 1))
      BY <1>6, <3>3
    <3> DEFINE e == upTo(size, g + 1)
               d == upTo(Len(line), g + (M + 1) + 1)
    <3>6. 0 < n(size) => size # 0
      <4>1. ASSUME size = 0 PROVE n(size) = 0
        <5>1. 0 + M \in Nat /\ 0 + M < M + 1 /\ M + 1 \in Nat \ {0}
          BY <1>1
        <5> QED BY <4>1, <5>1, Quotients DEF n
      <4> QED BY <4>1
    <3>7. size = Len(line) - (M + 1) /\ 0 < size
      BY <1>1, <1>4, <1>5, <3>1, <3>6
    <3>8. d = e + (M + 1) /\ e \in Int /\ e <= size
      <4> HIDE DEF size
      <4>1. Len(line) = size + (M + 1)
        BY <1>1, <1>4, <3>7
      <4>2. g + (M + 1) + 1 + M - 1 < Len(line) <=> g + 1 + M - 1 < size
        BY <1>1, <1>4, <3>2, <4>1
      <4>3. CASE g + 1 + M - 1 < size
        <5>1. e = g + 1 + M - 1 /\ d = g + (M + 1) + 1 + M - 1
          BY <4>2, <4>3
        <5> HIDE DEF d, e
        <5> QED BY <1>1, <1>4, <3>2, <4>3, <5>1
      <4>4. CASE ~(g + 1 + M - 1 < size)
        <5>1. e = size /\ d = Len(line)
          BY <4>2, <4>4
        <5> HIDE DEF d, e
        <5> QED BY <1>1, <1>4, <4>1, <5>1
      <4> QED BY <4>3, <4>4
    <3> HIDE DEF e, d
    <3> DEFINE u == SubSeq(more, g + 1, e)
               v == SubSeq(line, g + (M + 1) + 1, d)
    <3>9. /\ u \in Seq(Nat) /\ Len(u) = (IF g + 1 <= e THEN e - (g + 1) + 1 ELSE 0)
          /\ \A c \in 1..e - (g + 1) + 1 : u[c] = more[g + 1 + c - 1]
      <4>1. g + 1 \in Int
        BY <3>2
      <4>2. \A c \in g + 1 .. e : more[c] \in Nat
        <5> TAKE c \in g + 1 .. e
        <5>1. c \in 1..Len(more)
          BY <1>3, <1>4, <3>2, <3>8
        <5> QED BY <1>3, <5>1 DEF Strings
      <4> QED BY <3>8, <4>1, <4>2, SubSeqProperties
    <3>10. /\ v \in Seq(Nat)
           /\ Len(v) = (IF g + (M + 1) + 1 <= d THEN d - (g + (M + 1) + 1) + 1 ELSE 0)
           /\ \A c \in 1..d - (g + (M + 1) + 1) + 1 : v[c] = line[g + (M + 1) + 1 + c - 1]
      <4>1. g + (M + 1) + 1 \in Int /\ d \in Int
        BY <1>1, <3>2, <3>8
      <4>2. \A c \in g + (M + 1) + 1 .. d : line[c] \in Nat
        BY <1>1, <3>2, <3>7, <3>8
      <4> QED BY <4>1, <4>2, SubSeqProperties
    <3> HIDE DEF u, v
    <3>11. Len(u) = Len(v)
      BY <1>1, <3>2, <3>8, <3>9, <3>10
    <3>12. ASSUME NEW c \in 1..Len(u) PROVE u[c] = v[c]
      <4>1. g + 1 <= e /\ c \in 1..e - (g + 1) + 1
        BY <3>2, <3>8, <3>9
      <4>2. c \in 1..d - (g + (M + 1) + 1) + 1
        BY <1>1, <3>2, <3>8, <4>1
      <4>3. g + 1 + c - 1 \in 1..size /\ M + 1 + (g + 1 + c - 1) = g + (M + 1) + 1 + c - 1
        BY <1>1, <1>4, <3>2, <3>8, <4>1
      <4>4. u[c] = more[g + 1 + c - 1] /\ v[c] = line[g + (M + 1) + 1 + c - 1]
        BY <3>9, <3>10, <4>1, <4>2
      <4> QED BY <1>3, <4>3, <4>4
    <3>13. u = v
      BY <3>9, <3>10, <3>11, <3>12, SeqEqual
    <3>14. whole[k] = v /\ (<<piece>> \o others)[k] = u
      BY <3>4, <3>5 DEF u, v, e, d
    <3> HIDE DEF upTo, size
    <3> QED BY <3>13, <3>14
  <2> QED BY <2>1, <2>2
<1>11. whole = <<piece>> \o others
  BY <1>5, <1>6, <1>9, <1>10, SeqEqual
<1> QED BY <1>2, <1>3, <1>11 DEF whole, others, piece, more

LEMMA NoPiece == PiecesOf(<<>>) = <<>>
<1>1. <<>> \in Strings /\ Len(<<>>) = 0
  BY DEF Strings
<1>2. MAX_STRLEN + 1 \in Nat \ {0} /\ 0 + MAX_STRLEN \in Nat /\ 0 + MAX_STRLEN < MAX_STRLEN + 1
  BY SortAssumption
<1>3. (0 + MAX_STRLEN) \div (MAX_STRLEN + 1) = 0
  BY <1>2, Quotients
<1>4. PiecesOf(<<>>) \in Seq(Strings) /\ Len(PiecesOf(<<>>)) = 0
  BY <1>1, <1>3, PiecesOfIs
<1> QED BY <1>4, EmptySeq

\* What comes of the last lines does not depend on the ones before them.
LEMMA PiecesOfLast ==
    ASSUME NEW lines \in Seq(Strings), NEW others \in Seq(Strings), NEW m \in Nat,
           m <= Len(lines), m <= Len(others),
           \A n \in 1..m : lines[Len(lines) - n + 1] = others[Len(others) - n + 1]
    PROVE  PiecesFun(lines)[m] = PiecesFun(others)[m] /\ PiecesFun(lines)[m] \in Seq(Strings)
<1> DEFINE f == PiecesFun(lines)
           g == PiecesFun(others)
           S == {n \in Nat : n <= m => f[n] = g[n] /\ f[n] \in Seq(Strings)}
<1>1. Len(lines) \in Nat /\ Len(others) \in Nat /\ \A n \in 1..Len(lines) : lines[n] \in Strings
  OBVIOUS
<1>2. /\ f[0] = <<>> /\ g[0] = <<>>
      /\ \A n \in 1..Len(lines) : f[n] = PiecesOf(lines[Len(lines) - n + 1]) \o f[n - 1]
      /\ \A n \in 1..Len(others) : g[n] = PiecesOf(others[Len(others) - n + 1]) \o g[n - 1]
  BY PiecesUnfold
<1> HIDE DEF f, g, Strings
<1>3. 0 \in S
  <2>1. <<>> \in Seq(Strings)
    BY EmptySeq
  <2> QED BY <1>2, <2>1
<1>4. ASSUME NEW n \in Nat, n \in S PROVE n + 1 \in S
  <2> SUFFICES ASSUME n + 1 <= m PROVE f[n + 1] = g[n + 1] /\ f[n + 1] \in Seq(Strings)
    OBVIOUS
  <2>1. /\ n <= m /\ n + 1 \in 1..Len(lines) /\ n + 1 \in 1..Len(others) /\ n + 1 \in 1..m
        /\ (n + 1) - 1 = n /\ Len(lines) - (n + 1) + 1 \in 1..Len(lines)
    BY <1>1
  <2>2. f[n] = g[n] /\ f[n] \in Seq(Strings)
    BY <1>4, <2>1
  <2> DEFINE line == lines[Len(lines) - (n + 1) + 1]
  <2>3. line = others[Len(others) - (n + 1) + 1] /\ line \in Strings
    BY <1>1, <2>1
  <2>4. f[n + 1] = PiecesOf(line) \o f[(n + 1) - 1]
    BY <1>2, <2>1
  <2>5. g[n + 1] = PiecesOf(others[Len(others) - (n + 1) + 1]) \o g[(n + 1) - 1]
    BY <1>2, <2>1
  <2> HIDE DEF line
  <2>6. f[n + 1] = PiecesOf(line) \o f[n] /\ g[n + 1] = PiecesOf(line) \o g[n]
    BY <2>1, <2>3, <2>4, <2>5
  <2>7. PiecesOf(line) \in Seq(Strings)
    BY <2>3, PiecesOfIs
  <2>8. PiecesOf(line) \o f[n] \in Seq(Strings)
    BY <2>2, <2>7, ConcatProperties
  <2> QED BY <2>2, <2>6, <2>8
<1> HIDE DEF S
<1>5. m \in S
  BY <1>3, <1>4, InductionOnSets
<1>6. f[m] = g[m] /\ f[m] \in Seq(Strings)
  BY <1>5 DEF S
<1> QED BY <1>6 DEF f, g

\* The pieces of a file are those of its first line, and then those of the others.
LEMMA PiecesOfFile ==
    ASSUME NEW lines \in Seq(Strings)
    PROVE  /\ Pieces(lines) \in Seq(Strings)
           /\ lines = <<>> => Pieces(lines) = <<>>
           /\ lines # <<>> => Pieces(lines) = PiecesOf(Head(lines)) \o Pieces(Tail(lines))
<1>1. Len(lines) \in Nat
  OBVIOUS
<1>2. Pieces(lines) \in Seq(Strings)
  <2>1. Len(lines) <= Len(lines) /\ \A n \in 1..Len(lines) : lines[Len(lines) - n + 1] = lines[Len(lines) - n + 1]
    BY <1>1
  <2>2. PiecesFun(lines)[Len(lines)] \in Seq(Strings)
    BY <1>1, <2>1, PiecesOfLast
  <2> QED BY <2>2, PiecesUnfold
<1>3. lines = <<>> => Pieces(lines) = <<>>
  <2> SUFFICES ASSUME lines = <<>> PROVE Pieces(lines) = <<>>
    OBVIOUS
  <2>1. Len(lines) = 0
    OBVIOUS
  <2> QED BY <2>1, PiecesUnfold
<1>4. ASSUME lines # <<>> PROVE Pieces(lines) = PiecesOf(Head(lines)) \o Pieces(Tail(lines))
  <2> HIDE DEF Strings
  <2>1. /\ Tail(lines) \in Seq(Strings) /\ Len(Tail(lines)) = Len(lines) - 1
        /\ \A n \in 1..Len(Tail(lines)) : Tail(lines)[n] = lines[n + 1]
    BY <1>4, HeadTailProperties
  <2>2. Head(lines) = lines[1]
    BY <1>4
  <2>3. Len(lines) - 1 \in Nat /\ Len(lines) \in 1..Len(lines) /\ Len(lines) - Len(lines) + 1 = 1
    <3>1. Len(lines) # 0
      BY <1>4
    <3> QED BY <1>1, <3>1
  <2> DEFINE others == Tail(lines)
             m == Len(lines) - 1
  <2>4. \A n \in 1..m : lines[Len(lines) - n + 1] = others[Len(others) - n + 1]
    <3> TAKE n \in 1..m
    <3>1. Len(others) - n + 1 \in 1..Len(others) /\ (Len(others) - n + 1) + 1 = Len(lines) - n + 1
      BY <1>1, <2>1
    <3> QED BY <2>1, <3>1
  <2>5. m \in Nat /\ m <= Len(lines) /\ m <= Len(others) /\ m = Len(others)
    BY <1>1, <2>1, <2>3
  <2> HIDE DEF others, m
  <2>6. PiecesFun(lines)[m] = PiecesFun(others)[m]
    BY <2>1, <2>4, <2>5, PiecesOfLast DEF others
  <2>7. Pieces(others) = PiecesFun(others)[m]
    BY <2>1, <2>5, PiecesUnfold DEF others
  <2>8. Pieces(lines) = PiecesFun(lines)[Len(lines)]
    BY PiecesUnfold
  <2>9. PiecesFun(lines)[Len(lines)] = PiecesOf(lines[Len(lines) - Len(lines) + 1]) \o PiecesFun(lines)[Len(lines) - 1]
    BY <2>3, PiecesUnfold
  <2>10. PiecesFun(lines)[Len(lines)] = PiecesOf(Head(lines)) \o PiecesFun(lines)[m]
    BY <2>2, <2>3, <2>9 DEF m
  <2> QED BY <2>6, <2>7, <2>8, <2>10 DEF others
<1> QED BY <1>2, <1>3, <1>4

\* One fgets() takes the first piece off what is still to be read.
LEMMA ReadingTakesPiece ==
    ASSUME NEW lines \in Seq(Strings), lines # <<>>
    PROVE  LET line == Head(lines)
               piece == IF Len(line) <= MAX_STRLEN THEN line ELSE SubSeq(line, 1, MAX_STRLEN)
               others == IF Len(line) <= MAX_STRLEN THEN Tail(lines)
                         ELSE <<SubSeq(line, MAX_STRLEN + 2, Len(line))>> \o Tail(lines)
           IN /\ piece \in Strings /\ others \in Seq(Strings)
              /\ Pieces(lines) = (IF piece = <<>> THEN <<>> ELSE <<piece>>) \o Pieces(others)
<1> DEFINE line == Head(lines)
           piece == IF Len(line) <= MAX_STRLEN THEN line ELSE SubSeq(line, 1, MAX_STRLEN)
           more == SubSeq(line, MAX_STRLEN + 2, Len(line))
           others == IF Len(line) <= MAX_STRLEN THEN Tail(lines) ELSE <<more>> \o Tail(lines)
           first == IF piece = <<>> THEN <<>> ELSE <<piece>>
<1> HIDE DEF Strings
<1>1. line \in Strings /\ Tail(lines) \in Seq(Strings)
  BY HeadTailProperties
<1>2. MAX_STRLEN \in Nat \ {0} /\ Len(line) \in Nat
  BY <1>1, SortAssumption DEF Strings
<1>3. Pieces(lines) = PiecesOf(line) \o Pieces(Tail(lines))
  BY PiecesOfFile
<1>4. Pieces(Tail(lines)) \in Seq(Strings)
  BY <1>1, PiecesOfFile
<1> HIDE DEF line
<1>5. CASE line = <<>>
  <2>1. Len(line) <= MAX_STRLEN
    <3>1. Len(line) = 0
      BY <1>5
    <3> QED BY <1>2, <3>1
  <2>2. piece = <<>> /\ others = Tail(lines) /\ first = <<>>
    BY <1>5, <2>1
  <2>3. PiecesOf(line) = <<>>
    BY <1>5, NoPiece
  <2>4. piece \in Strings
    BY <1>1, <1>5, <2>2
  <2> HIDE DEF piece, others, first
  <2> QED BY <1>1, <1>3, <2>2, <2>3, <2>4 DEF piece, others, first, line
<1>6. CASE line # <<>>
  <2>1. piece \in Strings \ {<<>>} /\ more \in Strings /\ PiecesOf(line) = <<piece>> \o PiecesOf(more)
    BY <1>1, <1>6, FirstPiece
  <2>2. PiecesOf(more) \in Seq(Strings)
    BY <2>1, PiecesOfIs
  <2>3. first = <<piece>> /\ <<piece>> \in Seq(Strings)
    <3> HIDE DEF piece
    <3> QED BY <2>1
  <2> HIDE DEF first, piece
  <2>4. Pieces(lines) = <<piece>> \o (PiecesOf(more) \o Pieces(Tail(lines)))
    BY <1>3, <1>4, <2>1, <2>2, <2>3, ConcatAssociative
  <2>5. others \in Seq(Strings) /\ Pieces(others) = PiecesOf(more) \o Pieces(Tail(lines))
    <3>1. CASE Len(line) <= MAX_STRLEN
      <4>1. others = Tail(lines)
        BY <3>1
      <4>2. more = <<>>
        BY <1>2, <3>1, SubSeqEmpty
      <4>3. PiecesOf(more) = <<>>
        BY <4>2, NoPiece
      <4>4. <<>> \o Pieces(Tail(lines)) = Pieces(Tail(lines))
        BY <1>4, ConcatEmptySeq
      <4> QED BY <1>1, <4>1, <4>3, <4>4
    <3>2. CASE ~(Len(line) <= MAX_STRLEN)
      <4>1. others = <<more>> \o Tail(lines)
        BY <3>2
      <4> HIDE DEF more, others
      <4>2. <<more>> \in Seq(Strings) /\ Len(<<more>>) = 1 /\ <<more>>[1] = more
        BY <2>1
      <4>3. /\ others \in Seq(Strings) /\ Len(others) = 1 + Len(Tail(lines))
            /\ \A n \in 1..1 + Len(Tail(lines)) : others[n] = IF n <= 1 THEN <<more>>[n] ELSE Tail(lines)[n - 1]
        BY <1>1, <4>1, <4>2, ConcatProperties
      <4>4. Len(Tail(lines)) \in Nat
        BY <1>1
      <4>5. others # <<>> /\ Head(others) = more
        <5>1. 1 \in 1..1 + Len(Tail(lines)) /\ Len(others) # 0
          BY <4>3, <4>4
        <5>2. others[1] = more
          BY <4>2, <4>3, <5>1
        <5>3. others # <<>>
          BY <5>1
        <5> QED BY <4>3, <5>2, <5>3
      <4>6. Tail(others) = Tail(lines)
        <5>1. /\ Tail(others) \in Seq(Strings) /\ Len(Tail(others)) = Len(others) - 1
              /\ \A n \in 1..Len(Tail(others)) : Tail(others)[n] = others[n + 1]
          BY <4>3, <4>5, HeadTailProperties
        <5>2. Len(Tail(others)) = Len(Tail(lines))
          BY <4>3, <4>4, <5>1
        <5>3. ASSUME NEW n \in 1..Len(Tail(others)) PROVE Tail(others)[n] = Tail(lines)[n]
          <6>1. n + 1 \in 1..1 + Len(Tail(lines)) /\ ~(n + 1 <= 1) /\ (n + 1) - 1 = n
            BY <4>4, <5>2
          <6> QED BY <4>3, <5>1, <6>1
        <5> QED BY <1>1, <5>1, <5>2, <5>3, SeqEqual
      <4> QED BY <4>3, <4>5, <4>6, PiecesOfFile
    <3> QED BY <3>1, <3>2
  <2> HIDE DEF others
  <2>6. piece \in Strings /\ others \in Seq(Strings) /\ Pieces(lines) = first \o Pieces(others)
    BY <2>1, <2>3, <2>4, <2>5
  <2> QED BY <2>6 DEF piece, others, first, more, line
<1> QED BY <1>5, <1>6

Ranges == [left : Nat, right : Int]
Sorting == sortPc \in {"call", "scan", "printed"}
Positions == 0..Len(array) - 1

IsArray(a) == \E S : a \in Seq(S)

SortTypes ==
    /\ IsArray(array)
    /\ calls \in Seq(Ranges)
    /\ s \in Int /\ i \in Int
    /\ sortPc = "printed" => calls = <<>>

\* The ranges still to be sorted lie in the array, one behind the other.
StackInOrder ==
    /\ \A c \in DOMAIN calls : calls[c].right < Len(array)
    /\ \A c, d \in DOMAIN calls : c < d => calls[c].right < calls[d].left

\* The loop of lomuto() stays in the first range, s behind i.
Cursor ==
    sortPc = "scan" => calls # <<>> /\ left <= s /\ s < i /\ i <= right + 1 /\ left < right

\* What lomuto() has looked at: first what is less than the pivot, then the rest.
PivotSplits ==
    sortPc = "scan" =>
        /\ \A k \in left + 1 .. s : Less(array[k + 1], array[left + 1])
        /\ \A k \in s + 1 .. i - 1 : ~Less(array[k + 1], array[left + 1])

\* Elements that are not in one range any more are in order, if they can be.
Together(j, k) == \E c \in DOMAIN calls : calls[c].left <= j /\ k <= calls[c].right
Separated ==
    \A j, k \in Positions :
        j < k /\ ~Together(j, k) /\ Ordered(array[j + 1]) /\ Ordered(array[k + 1])
            => ~Less(array[k + 1], array[j + 1])
Elements == \A k \in Positions : IsElement(Mode(command), array[k + 1])

\* Until it is converted, the table holds strings.
Reading == sortPc \in {"main", "read"}
TableTypes == Reading => array \in Seq(Strings) /\ rest \in Seq(Strings)

SortInv ==
    /\ SortTypes /\ TableTypes
    /\ Sorting => StackInOrder /\ Elements /\ Separated
    /\ Cursor
    /\ PivotSplits

LEMMA SortInitially == SortInit(Commands, Files, "main") => SortInv
<1> SUFFICES ASSUME SortInit(Commands, Files, "main") PROVE SortInv
  OBVIOUS
<1>1. array = <<>> /\ calls = <<>> /\ s = 0 /\ i = 0 /\ sortPc = "main" /\ rest = file /\ file \in Files
  BY DEF SortInit
<1>2. array \in Seq(Strings) /\ rest \in Seq(Strings)
  BY <1>1, SortAssumption, EmptySeq DEF Strings
<1>3. IsArray(array)
  BY <1>2 DEF IsArray
<1>4. calls \in Seq(Ranges)
  BY <1>1
<1> QED BY <1>1, <1>2, <1>3, <1>4 DEF SortInv, SortTypes, TableTypes, Sorting, Cursor, PivotSplits

LEMMA RangeTypes ==
    ASSUME SortTypes
    PROVE  /\ Len(array) \in Nat /\ Len(calls) \in Nat /\ DOMAIN calls = 1..Len(calls)
           /\ \A c \in DOMAIN calls : calls[c].left \in Nat /\ calls[c].right \in Int
           /\ calls # <<>> => 1 \in DOMAIN calls /\ left \in Nat /\ right \in Int
<1>1. calls \in Seq(Ranges) /\ Len(calls) \in Nat /\ DOMAIN calls = 1..Len(calls)
  BY DEF SortTypes
<1>2. Len(array) \in Nat
  BY DEF SortTypes, IsArray
<1>3. ASSUME NEW c \in DOMAIN calls PROVE calls[c].left \in Nat /\ calls[c].right \in Int
  <2>1. calls[c] \in Ranges
    BY <1>1
  <2> QED BY <2>1 DEF Ranges
<1>4. calls # <<>> => 1 \in DOMAIN calls
  BY <1>1
<1> QED BY <1>1, <1>2, <1>3, <1>4 DEF left, right

\* swap() exchanges two elements.
LEMMA SwapExchanges ==
    ASSUME NEW a, IsArray(a), NEW x \in 0..Len(a) - 1, NEW y \in 0..Len(a) - 1
    PROVE  /\ IsArray(Swapped(a, x, y)) /\ Len(Swapped(a, x, y)) = Len(a)
           /\ \A k \in 0..Len(a) - 1 :
                Swapped(a, x, y)[k + 1] = a[(IF k = x THEN y ELSE IF k = y THEN x ELSE k) + 1]
<1>1. PICK S : a \in Seq(S)
  BY DEF IsArray
<1>2. x + 1 \in DOMAIN a /\ y + 1 \in DOMAIN a /\ DOMAIN a = 1..Len(a) /\ Len(a) \in Nat
  BY <1>1
<1>3. Swapped(a, x, y) \in Seq(S) /\ DOMAIN Swapped(a, x, y) = DOMAIN a
  BY <1>1, <1>2 DEF Swapped
<1>4. Len(Swapped(a, x, y)) = Len(a)
  BY <1>1, <1>2, <1>3
<1>5. ASSUME NEW k \in 0..Len(a) - 1
      PROVE  Swapped(a, x, y)[k + 1] = a[(IF k = x THEN y ELSE IF k = y THEN x ELSE k) + 1]
  BY <1>2, <1>5 DEF Swapped
<1> QED BY <1>3, <1>4, <1>5 DEF IsArray

\* An exchange in the first range keeps what lies between the ranges in order.
LEMMA SwapKeepsSeparated ==
    ASSUME SortTypes, StackInOrder, Separated, calls # <<>>,
           NEW x \in left..right, NEW y \in left..right
    PROVE  \A j, k \in Positions :
              /\ j < k /\ ~Together(j, k)
              /\ Ordered(Swapped(array, x, y)[j + 1]) /\ Ordered(Swapped(array, x, y)[k + 1])
              => ~Less(Swapped(array, x, y)[k + 1], Swapped(array, x, y)[j + 1])
<1>1. calls \in Seq(Ranges) /\ IsArray(array)
  BY DEF SortTypes
<1>2. PICK S : array \in Seq(S)
  BY <1>1 DEF IsArray
<1>3. 1 \in DOMAIN calls /\ Len(array) \in Nat
  BY RangeTypes
<1>4. left \in Nat /\ right \in Int /\ right < Len(array)
  BY <1>3, RangeTypes DEF right, StackInOrder
<1>5. x \in Positions /\ y \in Positions
  BY <1>3, <1>4 DEF Positions
<1> DEFINE b == Swapped(array, x, y)
           p(k) == IF k = x THEN y ELSE IF k = y THEN x ELSE k
<1>6. \A k \in Positions : b[k + 1] = array[p(k) + 1]
  BY <1>1, <1>5, SwapExchanges DEF Positions
<1> HIDE DEF b
<1> SUFFICES ASSUME NEW j \in Positions, NEW k \in Positions, j < k, ~Together(j, k),
                    Ordered(b[j + 1]), Ordered(b[k + 1])
             PROVE  ~Less(b[k + 1], b[j + 1])
  BY DEF b
<1>7. ~(left <= j /\ k <= right)
  BY <1>3 DEF Together, left, right
<1>8. p(j) \in Positions /\ p(k) \in Positions
  BY <1>5
<1>9. p(j) < p(k) /\ ~(left <= p(j) /\ p(k) <= right)
  BY <1>4, <1>7, <1>3 DEF Positions
<1>10. ASSUME NEW c \in DOMAIN calls, calls[c].left <= p(j), p(k) <= calls[c].right
       PROVE  FALSE
  <2>1. c # 1
    BY <1>9, <1>10 DEF left, right
  <2>2. 1 < c /\ calls[c].left \in Nat /\ calls[c].right \in Int
    BY <2>1, RangeTypes
  <2>3. right < calls[c].left
    BY <1>3, <2>2 DEF StackInOrder, left, right
  <2>4. p(j) > right /\ p(k) > right
    BY <1>4, <1>8, <1>9, <1>10, <2>2, <2>3 DEF Positions
  <2>5. p(j) = j /\ p(k) = k
    BY <1>4, <2>4, <1>3 DEF Positions
  <2> QED BY <1>10, <2>5 DEF Together
<1>11. ~Together(p(j), p(k))
  BY <1>10 DEF Together
<1> HIDE DEF p
<1>12. Ordered(array[p(j) + 1]) /\ Ordered(array[p(k) + 1])
  BY <1>6
<1>13. ~Less(array[p(k) + 1], array[p(j) + 1])
  BY <1>8, <1>9, <1>11, <1>12 DEF Separated
<1> QED BY <1>6, <1>13

\* It keeps elements of their kind, too.
LEMMA SwapKeepsElements ==
    ASSUME IsArray(array), Elements, NEW x \in Positions, NEW y \in Positions
    PROVE  \A k \in Positions : IsElement(Mode(command), Swapped(array, x, y)[k + 1])
<1>1. \A k \in Positions : Swapped(array, x, y)[k + 1] = array[(IF k = x THEN y ELSE IF k = y THEN x ELSE k) + 1]
  BY SwapExchanges DEF Positions
<1> QED BY <1>1 DEF Elements

LEMMA ReadingKeeps ==
    ASSUME SortInv, SortMain \/ ReadPiece
    PROVE  SortInv'
<1>1. Reading /\ ~Sorting' /\ sortPc' # "scan" /\ sortPc' # "printed" /\ UNCHANGED <<calls, s, i>>
  BY DEF SortMain, ReadPiece, Sorting, Reading
<1>2. array \in Seq(Strings) /\ rest \in Seq(Strings)
  BY <1>1 DEF SortInv, TableTypes
<1>3. array' \in Seq(Strings) /\ rest' \in Seq(Strings)
  <2>1. CASE SortMain
    BY <1>2, <2>1 DEF SortMain
  <2>2. CASE ReadPiece
    <3> DEFINE line == Head(rest)
               piece == IF Len(line) <= MAX_STRLEN THEN line ELSE SubSeq(line, 1, MAX_STRLEN)
    <3>1. /\ rest # <<>> /\ (array' = array \/ array' = Append(array, piece))
          /\ rest' = IF Len(line) <= MAX_STRLEN THEN Tail(rest)
                     ELSE <<SubSeq(line, MAX_STRLEN + 2, Len(line))>> \o Tail(rest)
      BY <2>2 DEF ReadPiece
    <3>2. piece \in Strings /\ rest' \in Seq(Strings)
      BY <1>2, <3>1, ReadingTakesPiece
    <3> HIDE DEF piece, line
    <3>3. Append(array, piece) \in Seq(Strings)
      BY <1>2, <3>2, AppendProperties
    <3> QED BY <1>2, <3>1, <3>2, <3>3
  <2> QED BY <2>1, <2>2
<1>4. SortTypes' /\ TableTypes'
  BY <1>1, <1>3 DEF SortInv, SortTypes, TableTypes, IsArray
<1> QED BY <1>1, <1>4 DEF SortInv, Cursor, PivotSplits

\* What the conversion makes of a string.
LEMMA ConvertedIs ==
    ASSUME NEW mode \in {"string", "int", "double"}, NEW piece \in Strings
    PROVE  IsElement(mode, Converted(mode, piece))
<1>1. Number(piece) \in Nat
  BY NumberIs DEF Strings
<1>2. CASE mode = "string"
  BY <1>2 DEF IsElement, Converted, Strings
<1>3. CASE mode = "int"
  BY <1>1, <1>3 DEF IsElement, Converted
<1>4. CASE mode = "double"
  BY <1>1, <1>4 DEF IsElement, Converted
<1> QED BY <1>2, <1>3, <1>4

LEMMA Modes == Mode(command) \in {"string", "int", "double"}
  BY DEF Mode

\* All elements are in the one range the sort begins with.
LEMMA StartSortKeeps ==
    ASSUME SortInv, StartSort
    PROVE  SortInv'
<1>1. PICK S : array \in Seq(S)
  BY DEF SortInv, SortTypes, IsArray
<1> DEFINE T == {Converted(Mode(command), array[k]) : k \in DOMAIN array}
<1>2. array' \in Seq(T) /\ Len(array') = Len(array) /\ Len(array) \in Nat
  BY <1>1 DEF StartSort
<1>3. calls' = <<[left |-> 0, right |-> Len(array) - 1]>> /\ sortPc' = "call" /\ s' = s /\ i' = i
  BY DEF StartSort
<1>4. [left |-> 0, right |-> Len(array) - 1] \in Ranges
  BY <1>2 DEF Ranges
<1>5. /\ calls' \in Seq(Ranges) /\ DOMAIN calls' = {1}
      /\ calls'[1].left = 0 /\ calls'[1].right = Len(array) - 1
  BY <1>3, <1>4
<1>6. SortTypes'
  BY <1>2, <1>3, <1>5 DEF SortTypes, SortInv, IsArray
<1>7. StackInOrder'
  BY <1>2, <1>5 DEF StackInOrder
<1>8. Separated'
  <2>1. \A j, k \in Positions' : Together(j, k)'
    BY <1>2, <1>5 DEF Together, Positions
  <2> QED BY <2>1 DEF Separated
<1>9. Elements'
  <2>1. array \in Seq(Strings)
    BY DEF StartSort, SortInv, TableTypes, Reading
  <2>2. command' = command /\ \A k \in DOMAIN array : array'[k] = Converted(Mode(command), array[k])
    BY DEF StartSort
  <2> SUFFICES ASSUME NEW k \in Positions' PROVE IsElement(Mode(command), array'[k + 1])
    BY <2>2 DEF Elements
  <2>3. k + 1 \in DOMAIN array /\ array[k + 1] \in Strings
    <3> HIDE DEF Strings
    <3>1. k + 1 \in 1..Len(array)
      BY <1>2 DEF Positions
    <3> QED BY <2>1, <3>1
  <2> QED BY <2>2, <2>3, ConvertedIs, Modes
<1> QED BY <1>3, <1>6, <1>7, <1>8, <1>9 DEF SortInv, TableTypes, Reading, Cursor, PivotSplits

LEMMA CallKeeps ==
    ASSUME SortInv, CallLomuto
    PROVE  SortInv'
<1>1. /\ sortPc = "call" /\ sortPc' = "scan" /\ calls # <<>> /\ left < right
      /\ s' = left /\ i' = left + 1 /\ UNCHANGED <<command, array, calls>>
  BY DEF CallLomuto
<1>2. left \in Nat /\ right \in Int
  BY <1>1, RangeTypes DEF SortInv
<1>3. left' = left /\ right' = right
  BY <1>1 DEF left, right
<1>4. SortTypes'
  BY <1>1, <1>2 DEF SortInv, SortTypes
<1>5. StackInOrder' /\ Elements' /\ Separated'
  BY <1>1 DEF SortInv, Sorting, StackInOrder, Elements, Separated, Together, Positions, Less, Ordered
<1>6. Cursor'
  BY <1>1, <1>2, <1>3 DEF Cursor
<1>7. PivotSplits'
  BY <1>1, <1>2, <1>3 DEF PivotSplits
<1> QED BY <1>1, <1>4, <1>5, <1>6, <1>7 DEF SortInv, TableTypes, Reading

\* A range of one element or none has nothing to be sorted.
LEMMA ReturnKeeps ==
    ASSUME SortInv, ReturnHelper
    PROVE  SortInv'
<1>1. /\ sortPc = "call" /\ sortPc' = "call" /\ calls # <<>> /\ left >= right
      /\ calls' = Tail(calls) /\ UNCHANGED <<command, array, s, i>>
  BY DEF ReturnHelper
<1>2. SortTypes /\ StackInOrder /\ Elements /\ Separated
  BY <1>1 DEF SortInv, Sorting
<1>3. /\ DOMAIN calls = 1..Len(calls) /\ Len(calls) \in Nat /\ 1 \in DOMAIN calls
      /\ left \in Nat /\ right \in Int
  BY <1>1, <1>2, RangeTypes
<1>4. /\ calls' \in Seq(Ranges) /\ DOMAIN calls' = 1..Len(calls) - 1
      /\ \A c \in DOMAIN calls' : calls'[c] = calls[c + 1]
  BY <1>1, <1>2 DEF SortTypes
<1>5. \A c \in DOMAIN calls' : c + 1 \in DOMAIN calls
  BY <1>3, <1>4
<1>6. SortTypes'
  BY <1>1, <1>2, <1>4 DEF SortTypes
<1>7. StackInOrder'
  <2>1. ASSUME NEW c \in DOMAIN calls' PROVE calls'[c].right < Len(array')
    BY <1>1, <1>2, <1>4, <1>5 DEF StackInOrder
  <2>2. ASSUME NEW c \in DOMAIN calls', NEW d \in DOMAIN calls', c < d
        PROVE  calls'[c].right < calls'[d].left
    <3>1. c + 1 \in DOMAIN calls /\ d + 1 \in DOMAIN calls /\ c + 1 < d + 1
      BY <1>3, <1>4, <2>2
    <3> QED BY <1>2, <1>4, <3>1 DEF StackInOrder
  <2> QED BY <2>1, <2>2 DEF StackInOrder
<1>8. Separated' /\ Elements'
  <2>2. ASSUME NEW j \in Positions, NEW k \in Positions, j < k, Together(j, k)
        PROVE  Together(j, k)'
    <3>1. PICK c \in DOMAIN calls : calls[c].left <= j /\ k <= calls[c].right
      BY <2>2 DEF Together
    <3>2. c # 1
      BY <1>1, <1>2, <1>3, <2>2, <3>1, RangeTypes DEF Positions, left, right
    <3>3. c - 1 \in DOMAIN calls' /\ calls'[c - 1] = calls[c]
      BY <1>3, <1>4, <3>2
    <3> QED BY <3>1, <3>3 DEF Together
  <2>3. /\ Positions' = Positions
        /\ \A j, k \in Positions : Less(array[k + 1], array[j + 1])' <=> Less(array[k + 1], array[j + 1])
        /\ \A k \in Positions : Ordered(array[k + 1])' <=> Ordered(array[k + 1])
    BY <1>1 DEF Positions, Less, Ordered
  <2>4. Elements'
    BY <1>1, <1>2 DEF Elements, Positions
  <2> QED BY <1>2, <2>2, <2>3, <2>4 DEF Separated
<1> QED BY <1>1, <1>6, <1>7, <1>8 DEF SortInv, TableTypes, Reading, Cursor, PivotSplits

\* One turn of the loop of lomuto().
LEMMA ScanKeeps ==
    ASSUME SortInv, Scan
    PROVE  SortInv'
<1> DEFINE less == Less(array[i + 1], array[left + 1])
<1>1. /\ sortPc = "scan" /\ sortPc' = "scan" /\ i <= right /\ i' = i + 1
      /\ UNCHANGED <<command, calls>>
      /\ less => s' = s + 1 /\ array' = Swapped(array, s + 1, i)
      /\ ~less => UNCHANGED <<s, array>>
  BY DEF Scan
<1>2. SortTypes /\ StackInOrder /\ Elements /\ Separated /\ IsArray(array) /\ s \in Int /\ i \in Int
  BY <1>1 DEF SortInv, Sorting, SortTypes
<1>3. /\ calls # <<>> /\ left <= s /\ s < i /\ left < right
      /\ \A k \in left + 1 .. s : Less(array[k + 1], array[left + 1])
      /\ \A k \in s + 1 .. i - 1 : ~Less(array[k + 1], array[left + 1])
  BY <1>1 DEF SortInv, Cursor, PivotSplits
<1>4. Len(array) \in Nat /\ 1 \in DOMAIN calls /\ left \in Nat /\ right \in Int /\ right < Len(array)
  <2>1. Len(array) \in Nat /\ 1 \in DOMAIN calls /\ left \in Nat /\ right \in Int
    BY <1>2, <1>3, RangeTypes
  <2> QED BY <1>2, <2>1 DEF StackInOrder, right
<1>5. /\ s + 1 \in left..right /\ i \in left..right
      /\ s + 1 \in 0..Len(array) - 1 /\ i \in 0..Len(array) - 1
  BY <1>1, <1>2, <1>3, <1>4
<1> DEFINE p(k) == IF less THEN IF k = s + 1 THEN i ELSE IF k = i THEN s + 1 ELSE k ELSE k
<1>6. /\ IsArray(array') /\ Len(array') = Len(array)
      /\ \A k \in 0..Len(array) - 1 : array'[k + 1] = array[p(k) + 1]
  <2>1. CASE less
    BY <1>1, <1>2, <1>5, <2>1, SwapExchanges
  <2>2. CASE ~less
    BY <1>1, <1>2, <2>2
  <2> QED BY <2>1, <2>2
<1>7. left' = left /\ right' = right
  BY <1>1 DEF left, right
<1>8. s' \in Int /\ i' \in Int
  BY <1>1, <1>2
<1>9. SortTypes'
  BY <1>1, <1>2, <1>6, <1>8 DEF SortTypes
<1>10. StackInOrder'
  BY <1>1, <1>2, <1>6 DEF StackInOrder
<1>11. Cursor'
  BY <1>1, <1>2, <1>3, <1>4, <1>7 DEF Cursor
<1>12. array'[left + 1] = array[left + 1]
  BY <1>2, <1>3, <1>4, <1>6
<1>13. ASSUME NEW k \in left + 1 .. s' PROVE Less(array[p(k) + 1], array[left + 1])
  <2>1. CASE less /\ k = s + 1
    BY <2>1
  <2>2. CASE k <= s
    <3>1. p(k) = k
      BY <1>2, <1>3, <1>4, <2>2
    <3> QED BY <1>2, <1>3, <1>4, <2>2, <3>1
  <2> QED BY <1>1, <1>2, <1>4, <2>1, <2>2
<1>14. ASSUME NEW k \in s' + 1 .. i' - 1 PROVE ~Less(array[p(k) + 1], array[left + 1])
  <2>1. CASE less
    <3>1. s + 1 < k /\ k <= i
      BY <1>1, <1>2, <2>1
    <3>2. p(k) \in s + 1 .. i - 1
      BY <1>2, <1>3, <2>1, <3>1
    <3> QED BY <1>3, <3>2
  <2>2. CASE ~less
    <3>1. p(k) = k /\ k \in s + 1 .. i
      BY <1>1, <1>2, <2>2
    <3> QED BY <1>2, <1>3, <2>2, <3>1
  <2> QED BY <2>1, <2>2
<1>15. PivotSplits'
  <2>1. \A k \in left + 1 .. i : k \in 0..Len(array) - 1
    BY <1>1, <1>2, <1>4
  <2> HIDE DEF p
  <2>2. ASSUME NEW k \in left + 1 .. s' PROVE Compares(Mode(command), array'[k + 1], array'[left + 1])
    <3>1. k \in left + 1 .. i
      BY <1>1, <1>2, <1>3, <1>4
    <3> QED BY <1>6, <1>12, <1>13, <2>1, <3>1 DEF Less
  <2>3. ASSUME NEW k \in s' + 1 .. i' - 1 PROVE ~Compares(Mode(command), array'[k + 1], array'[left + 1])
    <3>1. k \in left + 1 .. i
      BY <1>1, <1>2, <1>3, <1>4
    <3> QED BY <1>6, <1>12, <1>14, <2>1, <3>1 DEF Less
  <2> QED BY <1>1, <1>7, <2>2, <2>3 DEF PivotSplits, Less
<1>16. Elements' /\ Separated'
  <2>1. CASE less
    <3>1. \A j, k \in Positions : j < k /\ ~Together(j, k) /\ Ordered(array'[j + 1]) /\ Ordered(array'[k + 1])
             => ~Less(array'[k + 1], array'[j + 1])
      BY <1>1, <1>2, <1>3, <1>5, <2>1, SwapKeepsSeparated
    <3>2. s + 1 \in Positions /\ i \in Positions
      BY <1>5 DEF Positions
    <3>3. \A k \in Positions : IsElement(Mode(command), array'[k + 1])
      BY <1>1, <1>2, <2>1, <3>2, SwapKeepsElements
    <3> QED BY <1>1, <1>6, <3>1, <3>3 DEF Elements, Separated, Together, Positions, Less, Ordered
  <2>2. CASE ~less
    BY <1>1, <1>2, <2>2 DEF Elements, Separated, Together, Positions, Less, Ordered
  <2> QED BY <2>1, <2>2
<1> QED BY <1>1, <1>9, <1>10, <1>11, <1>15, <1>16 DEF SortInv, TableTypes, Reading

\* The pivot takes its place, and leaves a range on either side.
LEMMA PlaceKeeps ==
    ASSUME SortInv, PlacePivot
    PROVE  SortInv'
<1> DEFINE below == [left |-> left, right |-> s - 1]
           above == [left |-> s + 1, right |-> right]
<1>1. /\ sortPc = "scan" /\ sortPc' = "call" /\ i > right /\ UNCHANGED <<command, s, i>>
      /\ array' = Swapped(array, left, s) /\ calls' = <<below, above>> \o Tail(calls)
  BY DEF PlacePivot
<1>2. SortTypes /\ StackInOrder /\ Elements /\ Separated /\ IsArray(array) /\ s \in Int /\ i \in Int
  BY <1>1 DEF SortInv, Sorting, SortTypes
<1>3. /\ calls # <<>> /\ left <= s /\ s < i /\ left < right /\ i <= right + 1
      /\ \A k \in left + 1 .. s : Less(array[k + 1], array[left + 1])
      /\ \A k \in s + 1 .. i - 1 : ~Less(array[k + 1], array[left + 1])
  BY <1>1 DEF SortInv, Cursor, PivotSplits
<1>4. /\ Len(array) \in Nat /\ 1 \in DOMAIN calls /\ left \in Nat /\ right \in Int /\ right < Len(array)
      /\ DOMAIN calls = 1..Len(calls) /\ Len(calls) \in Nat
      /\ \A c \in DOMAIN calls : calls[c].left \in Nat /\ calls[c].right \in Int
  <2>1. Len(array) \in Nat /\ 1 \in DOMAIN calls /\ left \in Nat /\ right \in Int
    BY <1>2, <1>3, RangeTypes
  <2> QED BY <1>2, <2>1, RangeTypes DEF StackInOrder, right
<1>5. left \in left..right /\ s \in left..right /\ left \in 0..Len(array) - 1 /\ s \in 0..Len(array) - 1
  BY <1>1, <1>2, <1>3, <1>4
<1>6. /\ IsArray(array') /\ Len(array') = Len(array)
      /\ \A k \in 0..Len(array) - 1 :
           array'[k + 1] = array[(IF k = left THEN s ELSE IF k = s THEN left ELSE k) + 1]
  BY <1>1, <1>2, <1>5, SwapExchanges
<1>7. below \in Ranges /\ above \in Ranges
  BY <1>2, <1>3, <1>4 DEF Ranges
<1>8. /\ calls' \in Seq(Ranges) /\ DOMAIN calls' = 1..Len(calls) + 1
      /\ calls'[1] = below /\ calls'[2] = above
      /\ \A c \in 3..Len(calls) + 1 : calls'[c] = calls[c - 1]
  <2> HIDE DEF below, above
  <2>1. Tail(calls) \in Seq(Ranges) /\ Len(Tail(calls)) = Len(calls) - 1
    BY <1>2, <1>3 DEF SortTypes
  <2>2. <<below, above>> \in Seq(Ranges) /\ Len(<<below, above>>) = 2
    BY <1>7
  <2>3. calls' \in Seq(Ranges) /\ Len(calls') = Len(calls) + 1
    BY <1>1, <1>4, <2>1, <2>2
  <2>4. calls'[1] = below /\ calls'[2] = above
    BY <1>1, <1>4, <2>1, <2>2
  <2>5. ASSUME NEW c \in 3..Len(calls) + 1 PROVE calls'[c] = calls[c - 1]
    <3>1. calls'[c] = Tail(calls)[c - 2]
      BY <1>1, <1>4, <2>1, <2>2
    <3>2. Tail(calls)[c - 2] = calls[c - 1]
      BY <1>2, <1>3, <1>4 DEF SortTypes
    <3> QED BY <3>1, <3>2
  <2> QED BY <1>4, <2>3, <2>4, <2>5
<1>9. /\ calls'[1].left = left /\ calls'[1].right = s - 1
      /\ calls'[2].left = s + 1 /\ calls'[2].right = right
  BY <1>8
<1> HIDE DEF below, above
<1>10. SortTypes'
  BY <1>1, <1>2, <1>6, <1>8 DEF SortTypes
<1>11. \A c \in 3..Len(calls) + 1 : c - 1 \in DOMAIN calls /\ right < calls[c - 1].left
  <2>1. \A c \in 3..Len(calls) + 1 : c - 1 \in DOMAIN calls /\ 1 < c - 1
    BY <1>4
  <2> QED BY <1>2, <1>4, <2>1 DEF StackInOrder, right
<1>12. StackInOrder'
  <2>1. ASSUME NEW c \in DOMAIN calls' PROVE calls'[c].right < Len(array')
    <3>1. CASE c = 1 BY <1>2, <1>4, <1>5, <1>6, <1>9, <3>1
    <3>2. CASE c = 2 BY <1>4, <1>6, <1>9, <3>2
    <3>3. CASE c \in 3..Len(calls) + 1 BY <1>2, <1>6, <1>8, <1>11, <3>3 DEF StackInOrder
    <3> QED BY <1>4, <1>8, <3>1, <3>2, <3>3
  <2>2. ASSUME NEW c \in DOMAIN calls', NEW d \in DOMAIN calls', c < d
        PROVE  calls'[c].right < calls'[d].left
    <3>1. CASE c = 1 /\ d = 2
      BY <1>2, <1>9, <3>1
    <3>2. CASE c \in {1, 2} /\ d \in 3..Len(calls) + 1
      <4>1. calls'[c].right <= right
        BY <1>2, <1>4, <1>5, <1>9, <3>2
      <4>2. calls'[c].right \in Int /\ calls[d - 1].left \in Nat
        BY <1>2, <1>4, <1>9, <1>11, <3>2
      <4> QED BY <1>4, <1>8, <1>11, <3>2, <4>1, <4>2
    <3>3. CASE c \in 3..Len(calls) + 1 /\ d \in 3..Len(calls) + 1
      <4>1. c - 1 \in DOMAIN calls /\ d - 1 \in DOMAIN calls /\ c - 1 < d - 1
        BY <1>4, <2>2, <3>3
      <4> QED BY <1>2, <1>8, <3>3, <4>1 DEF StackInOrder
    <3> QED BY <1>4, <1>8, <2>2, <3>1, <3>2, <3>3
  <2> QED BY <2>1, <2>2 DEF StackInOrder
<1>13. Elements'
  <2>1. left \in Positions /\ s \in Positions /\ Positions' = Positions
    BY <1>5, <1>6 DEF Positions
  <2>2. \A k \in Positions : IsElement(Mode(command), array'[k + 1])
    BY <1>1, <1>2, <2>1, SwapKeepsElements
  <2> QED BY <1>1, <2>1, <2>2 DEF Elements
<1>14. Separated'
  <2> DEFINE pivot == array[left + 1]
  <2>3. \A j, k \in Positions : j < k /\ ~Together(j, k) /\ Ordered(array'[j + 1]) /\ Ordered(array'[k + 1])
           => ~Less(array'[k + 1], array'[j + 1])
    BY <1>1, <1>2, <1>3, <1>5, SwapKeepsSeparated
  <2>4. Positions' = Positions
    BY <1>6 DEF Positions
  <2> SUFFICES ASSUME NEW j \in Positions, NEW k \in Positions, j < k, ~Together(j, k)',
                      Ordered(array'[j + 1]), Ordered(array'[k + 1])
               PROVE  ~Less(array'[k + 1], array'[j + 1])
    BY <1>1, <2>4 DEF Separated, Less, Ordered
  <2>5. j \in 0..Len(array) - 1 /\ k \in 0..Len(array) - 1
    BY DEF Positions
  <2>6. ~(left <= j /\ k <= s - 1) /\ ~(s + 1 <= j /\ k <= right)
    <3>1. 1 \in DOMAIN calls' /\ 2 \in DOMAIN calls'
      BY <1>4, <1>8
    <3> QED BY <1>9, <3>1 DEF Together
  <2>8. CASE Together(j, k)
    <3>1. PICK c \in DOMAIN calls : calls[c].left <= j /\ k <= calls[c].right
      BY <2>8 DEF Together
    <3>2. c = 1
      <4> SUFFICES ASSUME c # 1 PROVE FALSE
        OBVIOUS
      <4>1. c + 1 \in 3..Len(calls) + 1 /\ c + 1 \in DOMAIN calls' /\ calls'[c + 1] = calls[c]
        BY <1>4, <1>8
      <4> QED BY <3>1, <4>1 DEF Together
    <3>3. left <= j /\ k <= right
      BY <3>1, <3>2 DEF left, right
    <3>4. j <= s /\ s <= k
      BY <1>2, <1>4, <2>5, <2>6, <3>3
    <3>5. j < s => Less(array'[j + 1], pivot)
      <4> SUFFICES ASSUME j < s PROVE Less(array'[j + 1], pivot)
        OBVIOUS
      <4>1. PICK x \in left + 1 .. s : array'[j + 1] = array[x + 1]
        <5>1. CASE j = left
          <6>1. s \in left + 1 .. s
            BY <1>2, <1>4, <5>1
          <6>2. array'[j + 1] = array[s + 1]
            BY <1>6, <2>5, <5>1
          <6> QED BY <6>1, <6>2
        <5>2. CASE j # left
          <6>1. array'[j + 1] = array[j + 1] /\ j \in left + 1 .. s
            BY <1>2, <1>3, <1>4, <1>6, <2>5, <3>3, <5>2
          <6> QED BY <6>1
        <5> QED BY <5>1, <5>2
      <4> QED BY <1>3, <4>1
    <3>6. k > s => ~Less(array'[k + 1], pivot)
      <4> SUFFICES ASSUME k > s PROVE ~Less(array'[k + 1], pivot)
        OBVIOUS
      <4>1. array'[k + 1] = array[k + 1] /\ k \in s + 1 .. i - 1
        BY <1>1, <1>2, <1>3, <1>4, <1>6, <2>5, <3>3
      <4> QED BY <1>3, <4>1
    <3>7. array'[s + 1] = pivot
      BY <1>5, <1>6
    <3>8. IsElement(Mode(command), array'[j + 1]) /\ IsElement(Mode(command), array'[k + 1]) /\ IsElement(Mode(command), pivot)
      <4>1. \A q \in Positions : IsElement(Mode(command), array'[q + 1])
        BY <1>1, <1>13, <2>4 DEF Elements
      <4>2. s \in Positions
        BY <1>5 DEF Positions
      <4> QED BY <3>7, <4>1, <4>2
    <3> HIDE DEF pivot
    <3>9. CASE j < s /\ k = s
      BY <3>5, <3>7, <3>8, <3>9, OrderIsStrict, Modes
    <3>10. CASE j = s /\ k > s
      BY <3>6, <3>7, <3>10
    <3>11. CASE j < s /\ k > s
      BY <3>5, <3>6, <3>8, <3>11, OrderIsStrict, Modes
    <3> QED BY <1>2, <2>5, <3>4, <3>9, <3>10, <3>11
  <2> QED BY <2>3, <2>8
<1> QED BY <1>1, <1>10, <1>12, <1>13, <1>14 DEF SortInv, TableTypes, Reading, Cursor, PivotSplits

LEMMA EndKeeps ==
    ASSUME SortInv, PrintSorted \/ UNCHANGED sortVars
    PROVE  SortInv'
<1>1. UNCHANGED <<command, rest, array, calls, s, i>>
  BY DEF PrintSorted, sortVars
<1>2. CASE PrintSorted
  <2>1. sortPc = "call" /\ sortPc' = "printed" /\ calls = <<>>
    BY <1>2 DEF PrintSorted
  <2> QED BY <1>1, <2>1 DEF SortInv, SortTypes, TableTypes, Reading, Sorting, StackInOrder, Cursor, PivotSplits,
                            Elements, Separated, Together, Positions, Less, Ordered
<1>3. CASE UNCHANGED sortVars
  <2>1. sortPc' = sortPc
    BY <1>3 DEF sortVars
  <2> QED BY <1>1, <2>1 DEF SortInv, SortTypes, TableTypes, Reading, Sorting, StackInOrder, Cursor, PivotSplits,
                            Elements, Separated, Together, Positions, Less, Ordered, left, right
<1> QED BY <1>2, <1>3

LEMMA SortStepKeeps == SortInv /\ [SortNext]_sortVars => SortInv'
  BY ReadingKeeps, StartSortKeeps, CallKeeps, ReturnKeeps, ScanKeeps, PlaceKeeps, EndKeeps DEF SortNext

\* The invariant of the whole program: the table is read, converted and
\* sorted with the ranges in order and the pivot splitting what was scanned.
THEOREM SortInvariant == SortSpec => []SortInv
<1> QED BY SortStepKeeps, SortInitially, PTL DEF SortSpec

\* What lomuto() is about to read and to exchange lies in the array.
StaysInArray ==
    sortPc = "scan" =>
        /\ left \in Positions /\ s \in Positions
        /\ i <= right => i \in Positions /\ s + 1 \in Positions

\* The partition never leaves the array, whatever file is sorted and however
\* its elements compare (quicksort.c:98-112).
THEOREM LomutoStaysInArray == SortSpec => []StaysInArray
<1>1. SortInv => StaysInArray
  <2> SUFFICES ASSUME SortInv, sortPc = "scan" PROVE StaysInArray!2
    BY DEF StaysInArray
  <2>1. SortTypes /\ StackInOrder /\ calls # <<>> /\ left <= s /\ s < i /\ i <= right + 1 /\ s \in Int /\ i \in Int
    BY DEF SortInv, Sorting, Cursor, SortTypes
  <2>2. Len(array) \in Nat /\ 1 \in DOMAIN calls /\ left \in Nat /\ right \in Int
    BY <2>1, RangeTypes
  <2>3. right < Len(array)
    BY <2>1, <2>2 DEF StackInOrder, right
  <2> QED BY <2>1, <2>2, <2>3 DEF Positions
<1> QED BY <1>1, SortInvariant, PTL

\* An exchange of two elements keeps how often each one occurs.
LEMMA SwapPermutes ==
    ASSUME NEW a, IsArray(a), NEW x \in 0..Len(a) - 1, NEW y \in 0..Len(a) - 1, NEW e
    PROVE  Occurs(e, Swapped(a, x, y)) = Occurs(e, a)
<1> DEFINE b == Swapped(a, x, y)
           Old == {k \in DOMAIN a : a[k] = e}
           New == {k \in DOMAIN b : b[k] = e}
           p(k) == IF k = x + 1 THEN y + 1 ELSE IF k = y + 1 THEN x + 1 ELSE k
           f == [k \in Old |-> p(k)]
<1>1. DOMAIN a = 1..Len(a) /\ Len(a) \in Nat /\ DOMAIN b = 1..Len(a)
  <2>1. IsArray(b) /\ Len(b) = Len(a)
    BY SwapExchanges
  <2>2. (\E S : a \in Seq(S)) /\ (\E S : b \in Seq(S))
    BY <2>1 DEF IsArray
  <2> QED BY <2>1, <2>2
<1>2. \A k \in DOMAIN a : b[k] = a[p(k)]
  <2>1. \A k \in 0..Len(a) - 1 : b[k + 1] = a[(IF k = x THEN y ELSE IF k = y THEN x ELSE k) + 1]
    BY SwapExchanges
  <2> SUFFICES ASSUME NEW k \in DOMAIN a PROVE b[k] = a[p(k)]
    OBVIOUS
  <2> HIDE DEF b
  <2>2. k - 1 \in 0..Len(a) - 1 /\ (k - 1) + 1 = k
    BY <1>1
  <2> QED BY <1>1, <2>1, <2>2
<1>3. \A k \in DOMAIN a : p(k) \in DOMAIN a /\ p(p(k)) = k
  <2>1. x + 1 \in DOMAIN a /\ y + 1 \in DOMAIN a
    BY <1>1
  <2>2. ASSUME NEW k \in DOMAIN a PROVE p(k) \in DOMAIN a
    BY <2>1
  <2>3. ASSUME NEW k \in DOMAIN a PROVE p(p(k)) = k
    BY <2>1, Zenon
  <2> QED BY <2>2, <2>3
<1> HIDE DEF b, p
<1>4. \A k \in Old : p(k) \in New
  BY <1>1, <1>2, <1>3
<1>5. \A k \in New : p(k) \in Old
  BY <1>1, <1>2, <1>3
<1>6. f \in [Old -> New]
  BY <1>4
<1>7. f \in Bijection(Old, New)
  <2>1. \A j, k \in Old : f[j] = f[k] => j = k
    BY <1>3
  <2>2. \A k \in New : \E j \in Old : f[j] = k
    <3> SUFFICES ASSUME NEW k \in New PROVE f[p(k)] = k /\ p(k) \in Old
      OBVIOUS
    <3> QED BY <1>1, <1>3, <1>5
  <2> QED BY <1>6, <2>1, <2>2 DEF Bijection, Injection, Surjection, IsInjective
<1>8. IsFiniteSet(Old)
  <2>1. IsFiniteSet(1..Len(a)) /\ Old \subseteq 1..Len(a)
    BY <1>1, FS_Interval
  <2> QED BY <2>1, FS_Subset
<1>9. ExistsBijection(Old, New)
  BY <1>7 DEF ExistsBijection
<1>10. Cardinality(New) = Cardinality(Old)
  <2> HIDE DEF Old, New
  <2> QED BY <1>8, <1>9, FS_Bijection
<1> QED BY <1>10 DEF Occurs, b

\* A step of the sort exchanges two elements of the array, or none.
LEMMA SortStepExchanges ==
    ASSUME SortInv, SortNext, Sorting
    PROVE  array' = array \/ \E x, y \in 0..Len(array) - 1 : array' = Swapped(array, x, y)
<1>1. s \in Int /\ i \in Int /\ StackInOrder
  BY DEF SortInv, SortTypes
<1>2. ASSUME sortPc = "scan"
      PROVE  left \in 0..Len(array) - 1 /\ s \in 0..Len(array) - 1
             /\ (i <= right => i \in 0..Len(array) - 1 /\ s + 1 \in 0..Len(array) - 1)
  <2>1. calls # <<>> /\ left <= s /\ s < i /\ i <= right + 1 /\ left < right
    BY <1>2 DEF SortInv, Cursor
  <2>2. Len(array) \in Nat /\ 1 \in DOMAIN calls /\ left \in Nat /\ right \in Int
    BY <2>1, RangeTypes DEF SortInv
  <2>3. right < Len(array)
    BY <1>1, <2>2 DEF StackInOrder, right
  <2> QED BY <1>1, <2>1, <2>2, <2>3
<1>3. CASE Scan
  <2>1. array' = array \/ (array' = Swapped(array, s + 1, i) /\ i <= right)
    BY <1>3 DEF Scan
  <2> QED BY <1>2, <1>3, <2>1 DEF Scan
<1>4. CASE PlacePivot
  BY <1>2, <1>4 DEF PlacePivot
<1>5. ~SortMain /\ ~ReadPiece /\ ~StartSort
  BY DEF Sorting, SortMain, ReadPiece, StartSort
<1>6. CallLomuto \/ ReturnHelper \/ PrintSorted => array' = array
  BY DEF CallLomuto, ReturnHelper, PrintSorted
<1> QED BY <1>3, <1>4, <1>5, <1>6 DEF SortNext

\* So it changes neither how many there are nor how often one occurs.
LEMMA SortStepPermutes ==
    ASSUME SortInv, SortNext, Sorting
    PROVE  Len(array') = Len(array) /\ \A e : Occurs(e, array') = Occurs(e, array)
<1>1. IsArray(array)
  BY DEF SortInv, SortTypes
<1> QED BY <1>1, SortStepExchanges, SwapExchanges, SwapPermutes

\* quicksort() moves elements and neither loses nor doubles one: whatever file
\* is sorted, each value stays in the array as often as it was there
\* (quicksort.c:75-86, 98-129).
THEOREM SortOnlyPermutes ==
    SortSpec => [][Sorting => \A e : Occurs(e, array') = Occurs(e, array)]_sortVars
<1>1. SortInv /\ [SortNext]_sortVars =>
          [Sorting => \A e : Occurs(e, array') = Occurs(e, array)]_sortVars
  BY SortStepPermutes
<1> QED BY <1>1, SortInvariant, PTL DEF SortSpec

\* The table and what is still to be read are the pieces of the file, then it
\* holds them converted, in some order.
ReadInv ==
    /\ Reading => /\ file \in Seq(Strings)
                  /\ array \o Pieces(rest) = Pieces(file)
    /\ Sorting => /\ Len(array) = Len(Asked)
                  /\ \A e : Occurs(e, array) = Occurs(e, Asked)

LEMMA ReadInitially == SortInit(Commands, Files, "main") => ReadInv
<1> SUFFICES ASSUME SortInit(Commands, Files, "main") PROVE ReadInv
  OBVIOUS
<1>1. array = <<>> /\ rest = file /\ file \in Files /\ sortPc = "main"
  BY DEF SortInit
<1>2. file \in Seq(Strings)
  BY <1>1, SortAssumption DEF Strings
<1>3. Pieces(file) \in Seq(Strings)
  BY <1>2, PiecesOfFile
<1>4. array \o Pieces(rest) = Pieces(file)
  BY <1>1, <1>3, ConcatEmptySeq
<1> QED BY <1>1, <1>2, <1>4 DEF ReadInv, Sorting

\* A piece goes from the file to the table.
LEMMA ReadPieceKeeps ==
    ASSUME SortInv, ReadInv, ReadPiece
    PROVE  ReadInv'
<1> DEFINE line == Head(rest)
           piece == IF Len(line) <= MAX_STRLEN THEN line ELSE SubSeq(line, 1, MAX_STRLEN)
           first == IF piece = <<>> THEN <<>> ELSE <<piece>>
<1> HIDE DEF Strings
<1>1. /\ Reading /\ rest # <<>> /\ UNCHANGED <<command, file>>
      /\ rest' = IF Len(line) <= MAX_STRLEN THEN Tail(rest)
                 ELSE <<SubSeq(line, MAX_STRLEN + 2, Len(line))>> \o Tail(rest)
  BY DEF ReadPiece, Reading
<1>2. IF piece = <<>> THEN UNCHANGED <<array, sortPc>>
      ELSE IF Len(array) >= Slots THEN sortPc' = "overrun" /\ UNCHANGED array
      ELSE array' = Append(array, piece) /\ UNCHANGED sortPc
  BY DEF ReadPiece
<1>3. /\ array \in Seq(Strings) /\ rest \in Seq(Strings) /\ file \in Seq(Strings)
      /\ array \o Pieces(rest) = Pieces(file)
  BY <1>1 DEF SortInv, TableTypes, ReadInv
<1>4. piece \in Strings /\ rest' \in Seq(Strings) /\ Pieces(rest) = first \o Pieces(rest')
  BY <1>1, <1>3, ReadingTakesPiece
<1> HIDE DEF line, piece
<1>5. Pieces(rest') \in Seq(Strings)
  BY <1>4, PiecesOfFile
<1>6. sortPc = "read" /\ Reading /\ ~Sorting
  BY DEF ReadPiece, Reading, Sorting
<1>7. CASE piece = <<>>
  <2>1. <<>> \o Pieces(rest') = Pieces(rest')
    BY <1>5, ConcatEmptySeq
  <2>2. array' = array /\ sortPc' = sortPc /\ Pieces(rest) = Pieces(rest')
    BY <1>2, <1>4, <1>7, <2>1
  <2>3. Pieces(rest)' = Pieces(rest) /\ Pieces(file)' = Pieces(file)
    BY <1>1, <2>2 DEF Pieces, PiecesOf
  <2> QED BY <1>1, <1>3, <1>6, <2>2, <2>3 DEF ReadInv, Sorting, Reading
<1>8. CASE piece # <<>>
  <2>1. <<piece>> \in Seq(Strings) /\ Pieces(rest) = <<piece>> \o Pieces(rest') /\ Len(<<piece>>) = 1
    BY <1>4, <1>8
  <2>2. Pieces(file) = (array \o <<piece>>) \o Pieces(rest')
    <3>1. (array \o <<piece>>) \o Pieces(rest') = array \o (<<piece>> \o Pieces(rest'))
      BY <1>3, <1>5, <2>1, ConcatAssociative
    <3> QED BY <1>3, <2>1, <3>1
  <2>3. CASE Len(array) >= Slots
    <3>1. sortPc' = "overrun"
      BY <1>2, <1>8, <2>3
    <3> QED BY <3>1 DEF ReadInv, Sorting, Reading
  <2>4. CASE ~(Len(array) >= Slots)
    <3>1. array' = Append(array, piece) /\ sortPc' = sortPc
      BY <1>2, <1>8, <2>4
    <3>2. array' = array \o <<piece>>
      BY <1>3, <1>4, <3>1, AppendIsConcat
    <3>3. array' \o Pieces(rest') = Pieces(file')
      BY <1>1, <2>2, <3>2
    <3> QED BY <1>1, <1>3, <1>6, <3>1, <3>3 DEF ReadInv, Sorting, Reading
  <2> QED BY <2>3, <2>4
<1> QED BY <1>7, <1>8

\* What is sorted is what was asked for.
LEMMA StartSortAsked ==
    ASSUME SortInv, ReadInv, StartSort
    PROVE  ReadInv'
<1>1. Reading /\ rest = <<>> /\ sortPc' = "call" /\ UNCHANGED <<command, file>>
  BY DEF StartSort, Reading
<1>2. /\ array \in Seq(Strings) /\ rest \in Seq(Strings)
      /\ array \o Pieces(rest) = Pieces(file)
  BY <1>1 DEF SortInv, TableTypes, ReadInv
<1>3. Pieces(file) = array
  <2>1. Pieces(rest) = <<>>
    BY <1>1, <1>2, PiecesOfFile
  <2>2. array \o <<>> = array
    BY <1>2, ConcatEmptySeq
  <2> QED BY <1>2, <2>1, <2>2
<1>4. array' = Asked
  BY <1>3 DEF StartSort, Asked
<1>5. Asked' = Asked
  BY <1>1 DEF Asked, Pieces, PiecesOf, Converted, Number, Mode
<1>6. Len(Asked) = Len(array)
  <2>1. DOMAIN array = 1..Len(array) /\ Len(array) \in Nat
    BY <1>2
  <2>2. Asked = [k \in 1..Len(array) |-> Converted(Mode(command), array[k])]
    BY <1>3, <2>1 DEF Asked
  <2> QED BY <2>1, <2>2
<1> QED BY <1>1, <1>2, <1>4, <1>5, <1>6 DEF ReadInv, Sorting, Reading, Occurs

LEMMA ReadKeeps == SortInv /\ SortInv' /\ ReadInv /\ [SortNext]_sortVars => ReadInv'
<1> SUFFICES ASSUME SortInv, SortInv', ReadInv, [SortNext]_sortVars PROVE ReadInv'
  OBVIOUS
<1>1. CASE ReadPiece
  BY <1>1, ReadPieceKeeps
<1>2. CASE StartSort
  BY <1>2, StartSortAsked
<1>3. CASE SortMain \/ UNCHANGED sortVars
  <2>1. UNCHANGED <<command, file, rest, array>>
    BY <1>3 DEF SortMain, sortVars
  <2>2. UNCHANGED sortPc \/ (sortPc = "main" /\ sortPc' \in {"read", "failed"})
    BY <1>3 DEF SortMain, sortVars
  <2>3. Pieces(file)' = Pieces(file) /\ Pieces(rest)' = Pieces(rest) /\ Asked' = Asked
    BY <2>1 DEF Asked, Pieces, PiecesOf, Converted, Number, Mode
  <2> QED BY <2>1, <2>2, <2>3 DEF ReadInv, Reading, Sorting, Occurs
<1>4. CASE CallLomuto \/ ReturnHelper \/ Scan \/ PlacePivot \/ PrintSorted
  <2>1. Sorting /\ Sorting' /\ UNCHANGED <<command, file, rest>> /\ ~Reading' /\ sortPc' # "overrun"
    BY <1>4 DEF CallLomuto, ReturnHelper, Scan, PlacePivot, PrintSorted, Sorting, Reading
  <2>2. Asked' = Asked
    BY <2>1 DEF Asked, Pieces, PiecesOf, Converted, Number, Mode
  <2>3. Len(array') = Len(array) /\ \A e : Occurs(e, array') = Occurs(e, array)
    BY <1>4, <2>1, SortStepPermutes DEF SortNext
  <2>5. \A e : Occurs(e, Asked') = Occurs(e, Asked)
    BY <2>2
  <2>6. Len(array) = Len(Asked) /\ \A e : Occurs(e, array) = Occurs(e, Asked)
    BY <2>1 DEF ReadInv
  <2> QED BY <2>1, <2>2, <2>3, <2>5, <2>6 DEF ReadInv
<1> QED BY <1>1, <1>2, <1>3, <1>4 DEF SortNext

\* sort prints what the file holds, for every file and every option, each piece
\* of a line as often as it is there: and any two strings or numbers in their
\* order, of doubles those that are numbers (sort.c:41-64, 135-173,
\* quicksort.c:27-129).
THEOREM SortedAlwaysAtExit == SortSpec => []SortedAtExit
<1>1. SortInv /\ ReadInv => SortedAtExit
  <2> SUFFICES ASSUME SortInv, ReadInv PROVE SortedAtExit
    OBVIOUS
  <2>2. ASSUME sortPc = "printed"
        PROVE  /\ Len(array) = Len(Asked)
               /\ \A k \in DOMAIN Asked : Occurs(Asked[k], array) = Occurs(Asked[k], Asked)
    BY <2>2 DEF ReadInv, Sorting
  <2>3. ASSUME sortPc = "printed", NEW j \in DOMAIN array, NEW k \in DOMAIN array, j < k,
               Ordered(array[j]), Ordered(array[k])
        PROVE  ~Less(array[k], array[j])
    <3>1. SortTypes /\ Separated /\ calls = <<>>
      BY <2>3 DEF SortInv, SortTypes, Sorting
    <3>2. DOMAIN array = 1..Len(array) /\ Len(array) \in Nat
      BY <3>1 DEF SortTypes, IsArray
    <3>3. PICK a \in Positions, b \in Positions : j = a + 1 /\ k = b + 1 /\ a < b
      <4>1. j - 1 \in Positions /\ k - 1 \in Positions /\ j = (j - 1) + 1 /\ k = (k - 1) + 1 /\ j - 1 < k - 1
        BY <2>3, <3>2 DEF Positions
      <4> QED BY <4>1
    <3>4. ~Together(a, b)
      BY <3>1 DEF Together
    <3> QED BY <2>3, <3>1, <3>3, <3>4 DEF Separated
  <2> QED BY <2>2, <2>3 DEF SortedAtExit
<1>2. SortInv /\ [SortNext]_sortVars => SortInv'
  BY SortStepKeeps
<1> QED BY <1>1, <1>2, SortInitially, ReadInitially, ReadKeeps, PTL DEF SortSpec

-----------------------------------------------------------------------------
(* head: counting the lines of a text.                                     *)

Letters == Characters \cup {"directory"}

\* The count goes up by one at a newline, and nowhere else.
LEMMA LinesCount ==
    ASSUME NEW seq \in Seq(Letters)
    PROVE  /\ IsFiniteSet(Newlines(seq)) /\ Newlines(seq) \subseteq 1..Len(seq)
           /\ Lines(seq, 0) = 0 /\ Lines(seq, Len(seq)) = Cardinality(Newlines(seq))
           /\ \A k \in Nat : /\ Lines(seq, k) \in Nat
                             /\ Lines(seq, k + 1) = Lines(seq, k) + (IF k + 1 \in Newlines(seq) THEN 1 ELSE 0)
<1>1. Newlines(seq) \subseteq 1..Len(seq) /\ Len(seq) \in Nat
  BY DEF Newlines
<1>2. IsFiniteSet(Newlines(seq))
  <2>1. IsFiniteSet(1..Len(seq))
    BY <1>1, FS_Interval
  <2> QED BY <1>1, <2>1, FS_Subset
<1>3. {j \in Newlines(seq) : j <= 0} = {} /\ {j \in Newlines(seq) : j <= Len(seq)} = Newlines(seq)
  BY <1>1
<1>4. ASSUME NEW k \in Nat
      PROVE  /\ Lines(seq, k) \in Nat
             /\ Lines(seq, k + 1) = Lines(seq, k) + (IF k + 1 \in Newlines(seq) THEN 1 ELSE 0)
  <2> DEFINE upTo == {j \in Newlines(seq) : j <= k}
             more == {j \in Newlines(seq) : j <= k + 1}
  <2>1. IsFiniteSet(upTo) /\ Cardinality(upTo) \in Nat
    BY <1>2, FS_Subset, FS_CardinalityType
  <2>2. CASE k + 1 \in Newlines(seq)
    <3>1. more = upTo \cup {k + 1} /\ k + 1 \notin upTo
      BY <1>1, <2>2
    <3>2. Cardinality(more) = Cardinality(upTo) + 1
      BY <2>1, <3>1, FS_AddElement
    <3>3. Lines(seq, k) = Cardinality(upTo) /\ Lines(seq, k + 1) = Cardinality(more)
      BY DEF Lines
    <3> HIDE DEF upTo, more
    <3> QED BY <2>1, <2>2, <3>2, <3>3
  <2>3. CASE k + 1 \notin Newlines(seq)
    <3>1. more = upTo
      BY <1>1, <2>3
    <3>3. Lines(seq, k) = Cardinality(upTo) /\ Lines(seq, k + 1) = Cardinality(more)
      BY DEF Lines
    <3> HIDE DEF upTo, more
    <3> QED BY <2>1, <2>3, <3>1, <3>3
  <2> QED BY <2>2, <2>3
<1> QED BY <1>1, <1>2, <1>3, <1>4, FS_EmptySet DEF Lines

\* It never goes down, and has grown behind a newline.
LEMMA LinesGrow ==
    ASSUME NEW seq \in Seq(Letters), NEW k \in Nat, NEW m \in Nat
    PROVE  /\ k <= m => Lines(seq, k) <= Lines(seq, m)
           /\ k < m /\ m \in Newlines(seq) => Lines(seq, k) < Lines(seq, m)
<1>1. \A a, b \in Nat : a <= b => Lines(seq, a) <= Lines(seq, b)
  <2> TAKE a, b \in Nat
  <2> HAVE a <= b
  <2> DEFINE T1 == {j \in Newlines(seq) : j <= a}
             T2 == {j \in Newlines(seq) : j <= b}
  <2>1. IsFiniteSet(T2) /\ T1 \in SUBSET T2
    <3>1. IsFiniteSet(Newlines(seq)) /\ T2 \in SUBSET Newlines(seq) /\ Newlines(seq) \subseteq 1..Len(seq)
      BY LinesCount
    <3>2. T1 \in SUBSET T2
      BY <3>1
    <3> QED BY <3>1, <3>2, FS_Subset
  <2>2. Cardinality(T1) <= Cardinality(T2)
    BY <2>1, FS_Subset
  <2> QED BY <2>2 DEF Lines
<1>2. ASSUME k < m, m \in Newlines(seq) PROVE Lines(seq, k) < Lines(seq, m)
  <2>1. m - 1 \in Nat /\ (m - 1) + 1 = m /\ k <= m - 1
    BY <1>2
  <2>2. Lines(seq, m) = Lines(seq, m - 1) + 1 /\ Lines(seq, m - 1) \in Nat /\ Lines(seq, k) \in Nat
    BY <1>2, <2>1, LinesCount
  <2>3. Lines(seq, k) <= Lines(seq, m - 1)
    BY <1>1, <2>1
  <2> QED BY <2>2, <2>3
<1> QED BY <1>1, <1>2

\* There is an n-th newline, and one only, if there are n.
LEMMA LineEndIs ==
    ASSUME NEW seq \in Seq(Letters), NEW n \in Nat \ {0}
    PROVE  /\ n <= Cardinality(Newlines(seq)) =>
                LineEnd(seq, n) \in Newlines(seq) /\ Lines(seq, LineEnd(seq, n)) = n
           /\ \A k \in Newlines(seq) : Lines(seq, k) = n => LineEnd(seq, n) = k
<1>0. Len(seq) \in Nat
  OBVIOUS
<1>1. Newlines(seq) \subseteq 1..Len(seq)
  BY LinesCount
<1>2. ASSUME n <= Cardinality(Newlines(seq)) PROVE \E k \in Newlines(seq) : Lines(seq, k) = n
  <2> DEFINE T == {k \in Nat : n <= Lines(seq, k)}
  <2>1. Len(seq) \in T
    <3>1. Lines(seq, Len(seq)) = Cardinality(Newlines(seq))
      BY LinesCount
    <3> QED BY <1>0, <1>2, <3>1
  <2>2. PICK k \in T : \A y \in T : k <= y
    BY <2>1, LeastNatural
  <2>3. k \in Nat /\ n <= Lines(seq, k)
    OBVIOUS
  <2>4. k # 0
    BY <2>3, LinesCount
  <2>5. k - 1 \in Nat /\ (k - 1) + 1 = k /\ ~(k <= k - 1)
    BY <2>3, <2>4
  <2>6. ~(n <= Lines(seq, k - 1)) /\ Lines(seq, k - 1) \in Nat
    BY <2>2, <2>5, LinesCount
  <2>7. Lines(seq, k) = Lines(seq, k - 1) + (IF k \in Newlines(seq) THEN 1 ELSE 0)
    BY <2>5, LinesCount
  <2>8. k \in Newlines(seq) /\ Lines(seq, k) = n
    BY <2>3, <2>6, <2>7
  <2> QED BY <2>8
<1>3. ASSUME NEW k \in Newlines(seq), NEW m \in Newlines(seq), Lines(seq, k) = Lines(seq, m) PROVE k = m
  <2>1. k \in Nat /\ m \in Nat
    BY <1>0, <1>1
  <2>2. k < m => Lines(seq, k) < Lines(seq, m)
    BY <2>1, LinesGrow
  <2>3. m < k => Lines(seq, m) < Lines(seq, k)
    BY <2>1, LinesGrow
  <2>4. Lines(seq, k) \in Nat
    BY <2>1, LinesCount
  <2>5. ~(k < m) /\ ~(m < k)
    BY <1>3, <2>2, <2>3, <2>4
  <2> QED BY <2>1, <2>5
<1> QED BY <1>2, <1>3 DEF LineEnd

\* The lines of a part are counted alike in the part and in the whole.
LEMMA LinesOfPart ==
    ASSUME NEW seq \in Seq(Letters), NEW p \in Nat, NEW k \in Nat, p + k <= Len(seq)
    PROVE  /\ SubSeq(seq, p + 1, p + k) \in Seq(Letters) /\ Len(SubSeq(seq, p + 1, p + k)) = k
           /\ \A d \in 0..k : Lines(seq, p + d) = Lines(seq, p) + Lines(SubSeq(seq, p + 1, p + k), d)
<1> DEFINE part == SubSeq(seq, p + 1, p + k)
<1>0. Len(seq) \in Nat
  OBVIOUS
<1>1. part \in Seq(Letters) /\ Len(part) = k /\ \A j \in 1..k : part[j] = seq[p + j]
  <2>1. p + 1 \in Int /\ p + k \in Int /\ \A j \in p + 1 .. p + k : seq[j] \in Letters
    BY <1>0
  <2>2. /\ part \in Seq(Letters) /\ Len(part) = IF p + 1 <= p + k THEN (p + k) - (p + 1) + 1 ELSE 0
        /\ \A j \in 1 .. (p + k) - (p + 1) + 1 : part[j] = seq[(p + 1) + j - 1]
    BY <2>1, SubSeqProperties
  <2>3. (p + k) - (p + 1) + 1 = k /\ \A j \in 1..k : (p + 1) + j - 1 = p + j
    OBVIOUS
  <2>4. Len(part) = k
    BY <2>2, <2>3
  <2>5. \A j \in 1..k : part[j] = seq[p + j]
    BY <2>2, <2>3
  <2> QED BY <2>2, <2>4, <2>5
<1> HIDE DEF part
<1> DEFINE Same == {x \in Nat : x <= k => Lines(seq, p + x) = Lines(seq, p) + Lines(part, x)}
<1>2. 0 \in Same
  <2>1. Lines(part, 0) = 0
    BY <1>1, LinesCount
  <2>2. Lines(seq, p) \in Nat
    BY LinesCount
  <2>3. p + 0 = p
    OBVIOUS
  <2> QED BY <2>1, <2>2, <2>3
<1>3. \A x \in Nat : x \in Same => x + 1 \in Same
  <2> TAKE x \in Nat
  <2> HAVE x \in Same
  <2> SUFFICES ASSUME x + 1 <= k PROVE Lines(seq, p + (x + 1)) = Lines(seq, p) + Lines(part, x + 1)
    OBVIOUS
  <2>1. x + 1 \in 1..k /\ p + (x + 1) = (p + x) + 1 /\ p + x \in Nat /\ p + (x + 1) \in 1..Len(seq)
    BY <1>0
  <2>2. x + 1 \in Newlines(part) <=> p + (x + 1) \in Newlines(seq)
    BY <1>1, <2>1 DEF Newlines
  <2>3. Lines(part, x + 1) = Lines(part, x) + (IF x + 1 \in Newlines(part) THEN 1 ELSE 0) /\ Lines(part, x) \in Nat
    BY <1>1, LinesCount
  <2>4. /\ Lines(seq, (p + x) + 1) = Lines(seq, p + x) + (IF (p + x) + 1 \in Newlines(seq) THEN 1 ELSE 0)
        /\ Lines(seq, p) \in Nat
    BY <2>1, LinesCount
  <2>5. Lines(seq, p + x) = Lines(seq, p) + Lines(part, x)
    OBVIOUS
  <2> QED BY <2>1, <2>2, <2>3, <2>4, <2>5
<1>4. Nat \subseteq Same
  BY <1>2, <1>3, InductionOnSets
<1>5. \A d \in 0..k : Lines(seq, p + d) = Lines(seq, p) + Lines(part, d)
  <2> TAKE d \in 0..k
  <2>1. d \in Nat /\ d <= k
    OBVIOUS
  <2>2. d \in Same
    BY <1>4, <2>1
  <2> QED BY <2>1, <2>2
<1> QED BY <1>1, <1>5 DEF part

LEMMA LinesOfStart ==
    ASSUME NEW seq \in Seq(Letters), NEW v \in 0..Len(seq)
    PROVE  /\ SubSeq(seq, 1, v) \in Seq(Letters) /\ Len(SubSeq(seq, 1, v)) = v
           /\ \A d \in 0..v : Lines(seq, d) = Lines(SubSeq(seq, 1, v), d)
<1>1. PICK p \in Nat : p = 0
  OBVIOUS
<1>2. v \in Nat /\ p + v <= Len(seq) /\ SubSeq(seq, 1, v) = SubSeq(seq, p + 1, p + v)
  BY <1>1
<1>3. /\ SubSeq(seq, p + 1, p + v) \in Seq(Letters) /\ Len(SubSeq(seq, p + 1, p + v)) = v
      /\ \A d \in 0..v : Lines(seq, p + d) = Lines(seq, p) + Lines(SubSeq(seq, p + 1, p + v), d)
  BY <1>2, LinesOfPart
<1> DEFINE part == SubSeq(seq, 1, v)
<1>4. /\ part \in Seq(Letters) /\ Len(part) = v
      /\ \A d \in 0..v : Lines(seq, p + d) = Lines(seq, p) + Lines(part, d)
  BY <1>2, <1>3
<1> HIDE DEF part
<1>5. ASSUME NEW d \in 0..v PROVE Lines(seq, d) = Lines(part, d)
  <2>1. d \in Nat /\ p + d = d /\ p = 0
    BY <1>1, <1>2
  <2>2. Lines(seq, p + d) = Lines(seq, p) + Lines(part, d)
    BY <1>4
  <2>3. Lines(seq, 0) = 0
    BY LinesCount
  <2>4. Lines(part, d) \in Nat
    BY <1>4, <2>1, LinesCount
  <2> QED BY <2>1, <2>2, <2>3, <2>4
<1> QED BY <1>4, <1>5 DEF part

\* What strlen() lets the loop see is the beginning of a block, all of it if
\* there is no terminator in it.
LEMMA SeenIs ==
    ASSUME NEW block \in Seq(Letters)
    PROVE  \E v \in 0..Len(block) :
             /\ "0" \notin ToSet(block) => v = Len(block)
             /\ Seen(block) = Lines(block, v)
             /\ \A n \in Nat \ {0} : n <= Seen(block) =>
                  LET end == LineEnd(Visible(block), n)
                  IN end \in Newlines(block) /\ Lines(block, end) = n
<1> DEFINE nuls == {j \in 1..Len(block) : block[j] = "0"}
<1>0. Len(block) \in Nat
  OBVIOUS
<1>1. PICK v \in 0..Len(block) : /\ "0" \notin ToSet(block) => v = Len(block)
                                 /\ Visible(block) = SubSeq(block, 1, v)
  <2>1. CASE nuls = {}
    <3>1. Visible(block) = block
      BY <2>1 DEF Visible, SelectInSeq
    <3>2. block = SubSeq(block, 1, Len(block)) /\ Len(block) \in 0..Len(block)
      BY <1>0
    <3> QED BY <3>1, <3>2
  <2>2. CASE nuls # {}
    <3>1. PICK x \in nuls : \A y \in nuls : x <= y
      <4>1. nuls \in SUBSET Nat
        BY <1>0
      <4> QED BY <2>2, <4>1, LeastNatural
    <3>2. Min(nuls) \in nuls
      BY <3>1 DEF Min
    <3>3. Visible(block) = SubSeq(block, 1, Min(nuls) - 1)
      <4>1. SelectInSeq(block, LAMBDA c : c = "0") = Min(nuls)
        BY <2>2 DEF SelectInSeq
      <4>2. Min(nuls) # 0
        BY <3>2
      <4> QED BY <4>1, <4>2 DEF Visible
    <3>4. Min(nuls) - 1 \in 0..Len(block) /\ "0" \in ToSet(block)
      <4>1. PICK m \in 1..Len(block) : m = Min(nuls) /\ block[m] = "0"
        BY <3>2
      <4>2. "0" \in ToSet(block)
        BY <4>1 DEF ToSet
      <4> QED BY <1>0, <4>1, <4>2
    <3> QED BY <3>3, <3>4
  <2> QED BY <2>1, <2>2
<1> DEFINE part == Visible(block)
<1> HIDE DEF part
<1>2. v \in Nat
  BY <1>0
<1>3. /\ part \in Seq(Letters) /\ Len(part) = v
      /\ \A d \in 0..v : Lines(block, d) = Lines(part, d)
  BY <1>1, LinesOfStart DEF part
<1>5. Seen(block) = Lines(block, v)
  <2>1. Lines(part, Len(part)) = Cardinality(Newlines(part))
    BY <1>3, LinesCount
  <2>2. Lines(block, v) = Cardinality(Newlines(part))
    BY <1>2, <1>3, <2>1
  <2> QED BY <2>2 DEF Seen, part
<1>6. ASSUME NEW n \in Nat \ {0}, n <= Seen(block)
      PROVE  LineEnd(part, n) \in Newlines(block) /\ Lines(block, LineEnd(part, n)) = n
  <2>1. n <= Cardinality(Newlines(part))
    BY <1>6 DEF Seen, part
  <2>2. LineEnd(part, n) \in Newlines(part) /\ Lines(part, LineEnd(part, n)) = n
    BY <1>3, <2>1, LineEndIs
  <2>3. Newlines(part) \subseteq 1..v
    BY <1>3, LinesCount
  <2>4. LineEnd(part, n) \in 0..v
    BY <1>2, <2>2, <2>3
  <2>5. Newlines(part) \subseteq Newlines(block)
    <3>1. \A j \in 1..v : part[j] = block[j] /\ j \in 1..Len(block)
      <4>1. \A j \in 1..v : block[j] \in Letters
        BY <1>0, <1>2
      <4>2. \A j \in 1 .. v - 1 + 1 : SubSeq(block, 1, v)[j] = block[1 + j - 1]
        BY <4>1, <1>2, SubSeqProperties
      <4>3. v - 1 + 1 = v /\ (\A j \in 1..v : 1 + j - 1 = j /\ j \in 1..Len(block)) /\ part = SubSeq(block, 1, v)
        BY <1>0, <1>1, <1>2 DEF part
      <4> QED BY <4>2, <4>3
    <3> QED BY <3>1, <1>3 DEF Newlines
  <2> QED BY <1>3, <2>2, <2>4, <2>5
<1> QED BY <1>1, <1>5, <1>6 DEF part

\* While it reads: it has written the text up to e, all of what it read if lines
\* are still wanted, and counted the lines that end there; fewer, at most, if a
\* terminator hid some.
WroteUpTo(e) ==
    /\ out = SubSeq(text, 1, e)
    /\ index <= Lines(text, e)
    /\ "0" \notin ToSet(text) => index = Lines(text, e)
    /\ index # line_count => e = pos
    /\ index = line_count /\ index # 0 /\ "0" \notin ToSet(text) => e \in Newlines(text)
    /\ line_count = 0 => e = 0

HeadReads ==
    /\ line_count = LineCount(n_value) /\ line_count \in Nat
    /\ pos \in 0..Len(text) /\ index \in 0..line_count
    /\ \E e \in 0..Len(text) : WroteUpTo(e)

HeadInv ==
    /\ text \in Seq(Letters)
    /\ headPc \in {"main", "read", "done", "failed"}
    /\ headPc = "main" => /\ LineCount(n_value) \in Nat
                          /\ pos = 0 /\ index = 0 /\ out = <<>>
    /\ headPc = "read" /\ text # Directory => HeadReads
    /\ HeadIsExact

\* The first characters of a text.
LEMMA StartOf ==
    ASSUME NEW seq \in Seq(Letters), NEW v \in Nat, v <= Len(seq)
    PROVE  /\ SubSeq(seq, 1, v) \in Seq(Letters) /\ Len(SubSeq(seq, 1, v)) = v
           /\ \A j \in 1..v : SubSeq(seq, 1, v)[j] = seq[j]
<1>1. \A j \in 1..v : seq[j] \in Letters
  OBVIOUS
<1>2. /\ SubSeq(seq, 1, v) \in Seq(Letters) /\ Len(SubSeq(seq, 1, v)) = IF 1 <= v THEN v - 1 + 1 ELSE 0
      /\ \A j \in 1 .. v - 1 + 1 : SubSeq(seq, 1, v)[j] = seq[1 + j - 1]
  BY <1>1, SubSeqProperties
<1>3. v - 1 + 1 = v /\ (\A j \in 1..v : 1 + j - 1 = j) /\ (~(1 <= v) => v = 0)
  OBVIOUS
<1> QED BY <1>2, <1>3

LEMMA HeadInitially == Init => HeadInv
<1> SUFFICES ASSUME Init PROVE HeadInv
  OBVIOUS
<1>1. CASE HeadInit(Counts, Texts, "main")
  <2>1. text \in Texts /\ n_value \in Counts /\ pos = 0 /\ index = 0 /\ out = <<>> /\ headPc = "main"
    BY <1>1 DEF HeadInit
  <2>2. text \in Seq(Letters) /\ (n_value \in {NoOption, NoNumber} \/ n_value \in Int)
    <3>1. Directory \in Seq(Letters)
      BY DEF Directory, Letters
    <3>2. Seq(Characters) \subseteq Seq(Letters)
      <4>1. Characters \subseteq Letters
        BY DEF Letters
      <4> QED BY <4>1
    <3> QED BY <2>1, <3>1, <3>2, HeadAssumption
  <2>3. LineCount(n_value) \in Nat
    <3>1. CASE n_value \in {NoOption, NoNumber}
      BY <3>1 DEF LineCount, DEFAULT_LINE_COUNT
    <3>2. CASE n_value \notin {NoOption, NoNumber}
      <4>1. n_value \in Int
        BY <2>2, <3>2
      <4>2. ~(n_value < 0) => n_value \in Nat
        BY <4>1
      <4> QED BY <3>2, <4>2 DEF LineCount, DEFAULT_LINE_COUNT
    <3> QED BY <3>1, <3>2
  <2> QED BY <2>1, <2>2, <2>3 DEF HeadInv, HeadIsExact
<1>2. CASE HeadInit({0}, {<<>>}, "failed")
  BY <1>2 DEF HeadInit, HeadInv, HeadIsExact
<1> QED BY <1>1, <1>2 DEF Init, Starts

LEMMA HeadMainKeeps ==
    ASSUME HeadInv, HeadMain
    PROVE  HeadInv'
<1>1. /\ text \in Seq(Letters) /\ LineCount(n_value) \in Nat /\ pos = 0 /\ index = 0 /\ out = <<>>
      /\ line_count' = LineCount(n_value) /\ headPc' \in {"read", "failed"}
      /\ UNCHANGED <<text, n_value, pos, index, out>>
  BY DEF HeadInv, HeadMain
<1>2. LineCount(n_value)' = LineCount(n_value)
  BY <1>1 DEF LineCount, Cast
<1>3. WroteUpTo(0)'
  <2>1. Lines(text, 0) = 0 /\ Lines(text, 0)' = Lines(text, 0)
    BY <1>1, LinesCount DEF Lines, Newlines
  <2>2. SubSeq(text, 1, 0) = <<>>
    BY <1>1, SubSeqEmpty
  <2> QED BY <1>1, <2>1, <2>2 DEF WroteUpTo
<1>4. HeadReads'
  <2>1. 0 \in 0..Len(text') /\ Len(text') \in Nat
    BY <1>1
  <2>2. line_count' \in Nat /\ index' \in 0..line_count' /\ pos' \in 0..Len(text')
    BY <1>1, <2>1
  <2> QED BY <1>1, <1>2, <1>3, <2>1, <2>2 DEF HeadReads
<1> QED BY <1>1, <1>4 DEF HeadInv, HeadIsExact

LEMMA HeadBlockKeeps ==
    ASSUME HeadInv, HeadBlock
    PROVE  HeadInv'
<1>1. /\ headPc = "read" /\ headPc' = "read" /\ text # Directory /\ index # line_count
      /\ UNCHANGED <<text, n_value, line_count>>
      /\ text \in Seq(Letters) /\ HeadReads
  BY DEF HeadInv, HeadBlock
<1>2. PICK k \in 1..BUFSIZE :
        /\ pos + k <= Len(text)
        /\ pos' = pos + k
        /\ out' = out \o Wanted(SubSeq(text, pos + 1, pos + k))
        /\ index' = IF Seen(SubSeq(text, pos + 1, pos + k)) < line_count - index
                    THEN index + Seen(SubSeq(text, pos + 1, pos + k)) ELSE line_count
  BY DEF HeadBlock
<1>3. k \in Nat /\ k # 0 /\ pos \in Nat /\ Len(text) \in Nat
  BY <1>1, HeadAssumption DEF HeadReads
<1>4. /\ SubSeq(text, pos + 1, pos + k) \in Seq(Letters) /\ Len(SubSeq(text, pos + 1, pos + k)) = k
      /\ \A d \in 0..k : Lines(text, pos + d) = Lines(text, pos) + Lines(SubSeq(text, pos + 1, pos + k), d)
  BY <1>1, <1>2, <1>3, LinesOfPart
<1> DEFINE block == SubSeq(text, pos + 1, pos + k)
<1>4a. \A j \in 1..k : block[j] = text[pos + j]
  <2>1. pos + 1 \in Int /\ pos + k \in Int /\ \A j \in pos + 1 .. pos + k : text[j] \in Letters
    BY <1>1, <1>2, <1>3
  <2>2. \A j \in 1 .. (pos + k) - (pos + 1) + 1 : block[j] = text[(pos + 1) + j - 1]
    BY <2>1, SubSeqProperties
  <2>3. (pos + k) - (pos + 1) + 1 = k /\ \A j \in 1..k : (pos + 1) + j - 1 = pos + j
    BY <1>3
  <2> QED BY <2>2, <2>3
<1>5. \A d \in 0..k : SubSeq(text, 1, pos) \o SubSeq(block, 1, d) = SubSeq(text, 1, pos + d)
  <2> TAKE d \in 0..k
  <2>1. pos \in 0..Len(text) /\ d \in Nat /\ d <= k /\ pos + d \in Nat /\ pos + d <= Len(text)
    BY <1>2, <1>3
  <2> DEFINE before == SubSeq(text, 1, pos)
             more == SubSeq(block, 1, d)
             both == SubSeq(text, 1, pos + d)
  <2>2. /\ before \in Seq(Letters) /\ Len(before) = pos
        /\ \A j \in 1..pos : before[j] = text[j]
    BY <1>1, <2>1, StartOf
  <2>3. /\ both \in Seq(Letters) /\ Len(both) = pos + d
        /\ \A j \in 1..pos + d : both[j] = text[j]
    BY <1>1, <2>1, StartOf
  <2>4. /\ more \in Seq(Letters) /\ Len(more) = d
        /\ \A j \in 1..d : more[j] = block[j]
    BY <1>4, <2>1, StartOf
  <2> HIDE DEF before, more, both, block
  <2>5. /\ before \o more \in Seq(Letters) /\ Len(before \o more) = Len(before) + Len(more)
        /\ \A j \in 1..Len(before) + Len(more) : (before \o more)[j] = IF j <= Len(before) THEN before[j] ELSE more[j - Len(before)]
    BY <2>2, <2>4, ConcatProperties
  <2>6. \A j \in 1..pos + d : (before \o more)[j] = both[j]
    <3> TAKE j \in 1..pos + d
    <3>1. (before \o more)[j] = IF j <= pos THEN before[j] ELSE more[j - pos]
      BY <2>2, <2>4, <2>5
    <3>2. both[j] = text[j]
      BY <2>3
    <3>3. CASE j <= pos
      <4>1. j \in 1..pos
        BY <2>1, <3>3
      <4> QED BY <2>2, <3>1, <3>2, <3>3, <4>1
    <3>4. CASE ~(j <= pos)
      <4>1. j - pos \in 1..d /\ j - pos \in 1..k /\ pos + (j - pos) = j
        BY <1>3, <2>1, <3>4
      <4>2. more[j - pos] = text[j]
        BY <1>4a, <2>4, <4>1
      <4> QED BY <3>1, <3>2, <3>4, <4>2
    <3> QED BY <3>3, <3>4
  <2>7. Len(before \o more) = pos + d /\ pos + d \in Nat
    BY <2>1, <2>2, <2>4, <2>5
  <2>8. before \o more = both
    BY <2>3, <2>5, <2>6, <2>7, SeqEqual
  <2> QED BY <2>8 DEF before, more, both
<1>6. \A j \in 1..k : (j \in Newlines(block)) <=> (pos + j \in Newlines(text))
  <2> TAKE j \in 1..k
  <2>1. pos + j \in 1..Len(text) /\ j \in DOMAIN block /\ text \in Seq(Letters)
    BY <1>1, <1>2, <1>3, <1>4
  <2>2. block[j] = text[pos + j]
    BY <1>4a
  <2> HIDE DEF block
  <2> QED BY <2>1, <2>2 DEF Newlines
<1>7. "0" \notin ToSet(text) => "0" \notin ToSet(block)
  <2>1. ASSUME "0" \in ToSet(block) PROVE "0" \in ToSet(text)
    <3>1. PICK j \in 1..k : block[j] = "0"
      BY <1>4, <2>1 DEF ToSet
    <3>2. pos + j \in 1..Len(text) /\ text[pos + j] = "0" /\ text \in Seq(Letters)
      BY <1>1, <1>2, <1>3, <1>4a, <3>1
    <3> QED BY <3>2 DEF ToSet
  <2> QED BY <2>1
<1>8. out' = out \o Wanted(block)
      /\ index' = IF Seen(block) < line_count - index THEN index + Seen(block) ELSE line_count
  BY <1>2
<1>9. /\ block \in Seq(Letters) /\ Len(block) = k
      /\ \A d \in 0..k : Lines(text, pos + d) = Lines(text, pos) + Lines(block, d)
  BY <1>4
<1>9a. block = SubSeq(block, 1, k)
  BY <1>9
<1> HIDE DEF block
<1>10. PICK v \in 0..k :
             /\ "0" \notin ToSet(block) => v = k
             /\ Seen(block) = Lines(block, v)
             /\ \A n \in Nat \ {0} : n <= Seen(block) =>
                  LineEnd(Visible(block), n) \in Newlines(block) /\ Lines(block, LineEnd(Visible(block), n)) = n
  BY <1>9, SeenIs
<1>11. out = SubSeq(text, 1, pos) /\ index <= Lines(text, pos) /\ ("0" \notin ToSet(text) => index = Lines(text, pos))
  BY <1>1 DEF HeadReads, WroteUpTo
<1>12. /\ line_count \in Nat /\ index \in Nat /\ index < line_count /\ Seen(block) \in Nat /\ Lines(text, pos) \in Nat
       /\ pos + k \in 0..Len(text)
  <2>1. v \in Nat
    BY <1>3
  <2>2. Seen(block) \in Nat
    BY <1>9, <1>10, <2>1, LinesCount
  <2>3. Lines(text, pos) \in Nat
    BY <1>1, <1>3, LinesCount
  <2> QED BY <1>1, <1>2, <1>3, <2>2, <2>3 DEF HeadReads
<1>13. ASSUME NEW e \in 0..Len(text) PROVE Lines(text, e)' = Lines(text, e) /\ Newlines(text)' = Newlines(text)
  BY <1>1 DEF Lines, Newlines
<1>16. ASSUME NEW e \in 0..Len(text), WroteUpTo(e)', index' \in 0..line_count
       PROVE  HeadInv'
  <2>1. line_count' = LineCount(n_value)'
    BY <1>1 DEF HeadReads, LineCount, Cast
  <2>2. e \in 0..Len(text') /\ pos' \in 0..Len(text') /\ line_count' \in Nat /\ index' \in 0..line_count'
    BY <1>1, <1>2, <1>12, <1>16
  <2>3. HeadReads'
    BY <1>16, <2>1, <2>2 DEF HeadReads
  <2> QED BY <1>1, <2>3 DEF HeadInv, HeadIsExact
<1>14. CASE Seen(block) < line_count - index
  <2>1. index' = index + Seen(block) /\ index' < line_count /\ index' # line_count
    BY <1>8, <1>12, <1>14
  <2>2. Wanted(block) = block
    BY <1>14 DEF Wanted
  <2>3. out' = SubSeq(text, 1, pos + k)
    <3>1. k \in 0..k
      BY <1>3
    <3>2. SubSeq(text, 1, pos) \o SubSeq(block, 1, k) = SubSeq(text, 1, pos + k)
      BY <1>5, <3>1
    <3> QED BY <1>8, <1>9a, <1>11, <2>2, <3>2
  <2>4. Lines(text, pos + k) = Lines(text, pos) + Lines(block, k)
    BY <1>3, <1>9
  <2>5. Lines(block, v) <= Lines(block, k) /\ Lines(block, k) \in Nat
    <3>1. v \in Nat /\ v <= k
      BY <1>3
    <3>2. Lines(block, v) <= Lines(block, k)
      BY <1>3, <1>9, <3>1, LinesGrow
    <3> QED BY <1>3, <1>9, <3>2, LinesCount
  <2>6. index' <= Lines(text, pos + k)
    BY <1>10, <1>11, <1>12, <2>1, <2>4, <2>5
  <2>7. "0" \notin ToSet(text) => index' = Lines(text, pos + k)
    BY <1>7, <1>10, <1>11, <2>1, <2>4
  <2>8. PICK e \in 0..Len(text) : e = pos + k
    BY <1>12
  <2>9. WroteUpTo(e)'
    <3>1. pos' = e /\ line_count' # 0 /\ line_count' = line_count /\ text' = text
      BY <1>1, <1>2, <1>12, <2>8
    <3>2. Lines(text, e)' = Lines(text, pos + k) /\ out' = SubSeq(text', 1, e)
      BY <1>13, <2>3, <2>8, <3>1
    <3>3. index' # line_count'
      BY <2>1, <3>1
    <3> QED BY <2>6, <2>7, <3>1, <3>2, <3>3 DEF WroteUpTo
  <2>10. index' \in 0..line_count
    BY <1>12, <2>1
  <2> QED BY <1>16, <2>9, <2>10
<1>15. CASE ~(Seen(block) < line_count - index)
  <2> DEFINE n == line_count - index
             end == LineEnd(Visible(block), n)
  <2>1. n \in Nat \ {0} /\ n <= Seen(block) /\ index + n = line_count
    BY <1>12, <1>15
  <2>2. end \in Newlines(block) /\ Lines(block, end) = n
    BY <1>10, <2>1
  <2>3. Wanted(block) = SubSeq(block, 1, end)
    BY <1>15 DEF Wanted
  <2>4. end \in 1..k
    <3>1. Newlines(block) \subseteq 1..k
      BY <1>9, LinesCount
    <3> QED BY <2>2, <3>1
  <2> HIDE DEF n, end
  <2>5. end \in 0..k /\ pos + end \in 0..Len(text)
    BY <1>2, <1>3, <2>4
  <2>6. out' = SubSeq(text, 1, pos + end)
    BY <1>5, <1>8, <1>11, <2>3, <2>5
  <2>7. index' = line_count
    BY <1>8, <1>15
  <2>8. Lines(text, pos + end) = Lines(text, pos) + n
    BY <1>9, <2>2, <2>5
  <2>9. /\ index' <= Lines(text, pos + end)
        /\ "0" \notin ToSet(text) => index' = Lines(text, pos + end)
    BY <1>11, <1>12, <2>1, <2>7, <2>8
  <2>10. pos + end \in Newlines(text)
    BY <1>6, <2>2, <2>4
  <2>11. PICK e \in 0..Len(text) : e = pos + end
    BY <2>5
  <2>12. WroteUpTo(e)'
    <3>1. line_count' = line_count /\ line_count # 0 /\ text' = text
      BY <1>1, <1>12
    <3>2. Lines(text, e)' = Lines(text, pos + end) /\ out' = SubSeq(text', 1, e) /\ e \in Newlines(text)'
      BY <1>13, <2>6, <2>10, <2>11, <3>1
    <3> QED BY <2>7, <2>9, <3>1, <3>2 DEF WroteUpTo
  <2>13. index' \in 0..line_count
    BY <1>12, <2>7
  <2> QED BY <1>16, <2>12, <2>13
<1> QED BY <1>14, <1>15

LEMMA StartsAlike ==
    ASSUME NEW s1 \in Seq(Letters), NEW s2 \in Seq(Letters), Len(s1) <= Len(s2), \A j \in 1..Len(s1) : s1[j] = s2[j]
    PROVE  IsPrefix(s1, s2)
<1>1. Len(s1) \in Nat /\ Len(s2) \in Nat
  OBVIOUS
<1>2. /\ SubSeq(s1, 1, Len(s1)) \in Seq(Letters) /\ Len(SubSeq(s1, 1, Len(s1))) = Len(s1)
      /\ \A j \in 1..Len(s1) : SubSeq(s1, 1, Len(s1))[j] = s1[j]
  BY <1>1, StartOf
<1>3. /\ SubSeq(s2, 1, Len(s1)) \in Seq(Letters) /\ Len(SubSeq(s2, 1, Len(s1))) = Len(s1)
      /\ \A j \in 1..Len(s1) : SubSeq(s2, 1, Len(s1))[j] = s2[j]
  BY <1>1, StartOf
<1>4. SubSeq(s1, 1, Len(s1)) = SubSeq(s2, 1, Len(s1))
  BY <1>2, <1>3, SeqEqual
<1> QED BY <1>4 DEF IsPrefix

LEMMA HeadEndsKeeps ==
    ASSUME HeadInv, HeadEnds
    PROVE  HeadInv'
<1>1. /\ headPc = "read" /\ headPc' = "done" /\ text \in Seq(Letters)
      /\ index = line_count \/ (text # Directory /\ pos = Len(text))
      /\ out' = IF index # line_count THEN Append(out, "\n") ELSE out
      /\ UNCHANGED <<text, n_value, pos, line_count, index>>
  BY DEF HeadInv, HeadEnds
<1> SUFFICES ASSUME text # Directory PROVE HeadIsExact'
  BY <1>1 DEF HeadInv, HeadIsExact, Directory
<1>2. HeadReads
  BY <1>1 DEF HeadInv
<1>3. PICK e \in 0..Len(text) : WroteUpTo(e)
  BY <1>2 DEF HeadReads
<1>4. /\ line_count \in Nat /\ index \in 0..line_count /\ pos \in Nat /\ Len(text) \in Nat /\ e \in Nat /\ e <= Len(text)
      /\ line_count = LineCount(n_value)
  BY <1>1, <1>2 DEF HeadReads
<1>5. /\ out = SubSeq(text, 1, e) /\ index <= Lines(text, e)
      /\ "0" \notin ToSet(text) => index = Lines(text, e)
      /\ index # line_count => e = Len(text)
      /\ index = line_count /\ index # 0 /\ "0" \notin ToSet(text) => e \in Newlines(text)
      /\ line_count = 0 => e = 0
  BY <1>1, <1>3 DEF WroteUpTo
<1> DEFINE lines == Cardinality(Newlines(text))
<1>6. Lines(text, Len(text)) = lines /\ lines \in Nat /\ Newlines(text) \subseteq 1..Len(text)
  <2>1. Lines(text, Len(text)) = lines /\ Newlines(text) \subseteq 1..Len(text)
    BY <1>1, LinesCount
  <2>2. Lines(text, Len(text)) \in Nat
    BY <1>1, <1>4, LinesCount
  <2> QED BY <2>1, <2>2
<1>7. Lines(text, e) <= lines /\ Lines(text, e) \in Nat
  <2>1. Lines(text, e) <= Lines(text, Len(text))
    BY <1>1, <1>4, LinesGrow
  <2>2. Lines(text, e) \in Nat
    BY <1>1, <1>4, LinesCount
  <2> QED BY <1>6, <2>1, <2>2
<1>8. /\ out \in Seq(Letters) /\ Len(out) = e
      /\ \A j \in 1..e : out[j] = text[j]
  BY <1>1, <1>4, <1>5, StartOf
<1>9. index # line_count => out = text /\ out' = Append(text, "\n")
  <2> SUFFICES ASSUME index # line_count PROVE out = text
    BY <1>1
  <2>1. Len(out) = Len(text) /\ \A j \in 1..Len(out) : out[j] = text[j]
    BY <1>5, <1>8
  <2> QED BY <1>1, <1>8, <2>1, SeqEqual
<1>9a. /\ Append(text, "\n") \in Seq(Letters) /\ Len(Append(text, "\n")) = Len(text) + 1
       /\ \A j \in 1..Len(text) : Append(text, "\n")[j] = text[j]
  <2>1. "\n" \in Letters
    BY DEF Letters, Characters
  <2> QED BY <1>1, <2>1, AppendProperties
<1>10. index = line_count => out' = out
  BY <1>1
<1> HIDE DEF lines
<1>11. IF line_count > lines THEN IsPrefix(text, out')
       ELSE "0" \notin ToSet(text) => out' = FirstLines(line_count)
  <2>1. CASE line_count > lines
    <3>1. index # line_count
      BY <1>4, <1>5, <1>6, <1>7, <2>1
    <3>2. out' = Append(text, "\n") /\ Len(out') = Len(text) + 1
      BY <1>9, <1>9a, <3>1
    <3>3. Len(text) <= Len(out') /\ out' \in Seq(Letters) /\ \A j \in 1..Len(text) : text[j] = out'[j]
      BY <1>4, <1>9a, <3>2
    <3> QED BY <1>1, <2>1, <3>3, StartsAlike
  <2>2. CASE ~(line_count > lines) /\ line_count = 0
    <3>1. index = line_count /\ e = 0
      BY <1>4, <1>5, <2>2
    <3>2. out = <<>>
      BY <1>8, <3>1
    <3> QED BY <1>10, <2>2, <3>1, <3>2 DEF FirstLines
  <2>3. CASE ~(line_count > lines) /\ line_count # 0
    <3> SUFFICES ASSUME "0" \notin ToSet(text) PROVE out' = FirstLines(line_count)
      BY <2>3
    <3>1. index = line_count
      <4>1. index # line_count => Lines(text, e) = lines /\ index = lines
        BY <1>5, <1>6
      <4> QED BY <1>4, <1>6, <2>3, <4>1
    <3>2. e \in Newlines(text) /\ Lines(text, e) = line_count
      BY <1>5, <2>3, <3>1
    <3>3. LineEnd(text, line_count) = e
      BY <1>1, <1>4, <2>3, <3>2, LineEndIs
    <3> QED BY <1>5, <1>10, <2>3, <3>1, <3>3 DEF FirstLines
  <2> QED BY <2>1, <2>2, <2>3
<1>12. LineCount(n_value)' = line_count
  BY <1>1, <1>4 DEF LineCount, Cast
<1>13. FirstLines(line_count)' = FirstLines(line_count) /\ Cardinality(Newlines(text))' = lines
  BY <1>1 DEF FirstLines, Newlines, LineEnd, Lines, lines
<1>14. (FirstLines(LineCount(n_value)))' = FirstLines(line_count)
  BY <1>1, <1>4, <1>12, <1>13
<1>15. HeadIsExact' = (headPc' = "done" /\ text' # Directory =>
                         IF line_count > lines THEN IsPrefix(text', out')
                         ELSE "0" \notin ToSet(text') => out' = FirstLines(line_count))
  BY <1>12, <1>13, <1>14 DEF HeadIsExact
<1> QED BY <1>1, <1>11, <1>15

LEMMA HeadKeeps == HeadInv /\ [HeadNext]_headVars => HeadInv'
<1> SUFFICES ASSUME HeadInv, [HeadNext]_headVars PROVE HeadInv'
  OBVIOUS
<1>1. CASE HeadReadFails
  <2>1. /\ text' = text /\ text = Directory /\ headPc' = "read"
        /\ text \in Seq(Letters)
    BY <1>1 DEF HeadReadFails, HeadInv
  <2> QED BY <2>1 DEF HeadInv, HeadIsExact, Directory
<1>2. CASE UNCHANGED headVars
  BY <1>2 DEF headVars, HeadInv, HeadReads, WroteUpTo, HeadIsExact, FirstLines, LineCount, Cast,
              Newlines, Lines, LineEnd
<1> QED BY <1>1, <1>2, HeadMainKeeps, HeadBlockKeeps, HeadEndsKeeps DEF HeadNext

\* However read() cuts the file, and wherever a line or a block ends, head writes
\* the lines asked for of a text without a terminator, and nothing of a text that
\* has fewer is missing (head.c:147-167).
THEOREM HeadAlwaysExact == Spec => []HeadIsExact
<1>1. HeadInv /\ [Next]_vars => HeadInv'
  <2> SUFFICES ASSUME HeadInv, [Next]_vars PROVE HeadInv'
    OBVIOUS
  <2>1. [HeadNext]_headVars
    BY DEF Next, vars, ListStep, SortStep, HeadStep, NapStep, ForksStep, FindStep
  <2> QED BY <2>1, HeadKeeps
<1>2. HeadInv => HeadIsExact
  BY DEF HeadInv
<1> QED BY <1>1, <1>2, HeadInitially, PTL DEF Spec

-----------------------------------------------------------------------------
(* The reports of snooze, nforks and findserver.                           *)

\* While no second was cut short, the time slept is the seconds counted and
\* what has passed of the one being slept; only a wake by SIGINT, after which
\* the loop ends, leaves up to a second that was not slept.
SnoozeInv ==
    /\ snooze \in Int /\ current \in Int /\ halves \in Int /\ toSleep \in 0..2
    /\ signal_val \in BOOLEAN
    /\ snoozePc \in {"main", "loop", "sleep", "done", "failed"}
    /\ snoozePc = "main" => current = 0 /\ halves = 0 /\ ~signal_val
    /\ snoozePc = "loop" => current <= snooze
    /\ snoozePc = "loop" =>
         /\ halves <= 2 * current /\ 2 * current <= halves + 2
         /\ ~signal_val => 2 * current = halves
    /\ snoozePc = "sleep" =>
         /\ toSleep # 0 /\ halves = 2 * current + 2 - toSleep
         /\ current < snooze
    /\ SnoozeReport

\* Each round of the second loop reports a child that ended or a wait() that
\* failed, and one fails only when no child is left.
ForksInv ==
    /\ num_forks \in Int /\ turn \in Nat /\ waitFails \in Nat
    /\ child \in [0..num_forks - 1 -> {"none", "runs", "failed", "ended", "reaped"}]
    /\ forksPc \in {"main", "fork", "wait", "done", "failed"}
    /\ announced = {j \in DOMAIN child : child[j] = "reaped"}
    /\ forksPc \in {"main", "fork"} => announced = {} /\ waitFails = 0
    /\ forksPc = "main" => turn = 0
    /\ forksPc \in {"main", "fork", "failed"} => \A j \in DOMAIN child : j >= turn => child[j] = "none"
    /\ forksPc = "fork" => num_forks > 0 /\ turn <= num_forks /\ \A j \in DOMAIN child : j < turn => child[j] # "none"
    /\ forksPc = "wait" =>
         /\ num_forks > 0 /\ turn <= num_forks /\ turn = waitFails + Cardinality(announced)
         /\ \A j \in DOMAIN child : child[j] # "none"
         /\ waitFails # 0 => \A j \in DOMAIN child : child[j] \in {"failed", "reaped"}
    /\ ForksReport

\* Whenever a port is tried those below it have refused, and no socket is open.
FindInv ==
    /\ findPc \in {"loop", "found", "none", "failed"}
    /\ findPc = "loop" =>
         /\ port \in Nat /\ sockets = {}
         /\ \E first, last \in Ports : Ports = first..last /\ first <= port /\ port <= last + 1
    /\ FindReport

ReportsInv == SnoozeInv /\ ForksInv /\ FindInv

LEMMA ReportsInitially == Init => ReportsInv
<1> SUFFICES ASSUME Init PROVE ReportsInv
  OBVIOUS
<1>1. SnoozeInit(Naps, "main") \/ SnoozeInit({0}, "failed")
  BY DEF Init, Starts
<1>2. ForksInit(ForkCounts, "main") \/ ForksInit({0}, "failed")
  BY DEF Init, Starts
<1>3. FindInit(Landscapes, "loop") \/ FindInit({[q \in Ports |-> "refuses"]}, "failed")
  BY DEF Init, Starts
<1>4. SnoozeInv
  <2>1. /\ current = 0 /\ ~signal_val /\ signal_val \in BOOLEAN /\ halves = 0 /\ toSleep = 0
        /\ snoozePc \in {"main", "failed"}
    BY <1>1 DEF SnoozeInit
  <2>2. snooze \in Int
    <3>1. snooze \in Naps \/ snooze = 0
      BY <1>1, Zenon DEF SnoozeInit
    <3>2. CASE snooze \in Naps
      BY <3>2, NapsAssumption
    <3>3. CASE snooze = 0
      BY <3>3
    <3> QED BY <3>1, <3>2, <3>3
  <2> QED BY <2>1, <2>2 DEF SnoozeInv, SnoozeReport
<1>5. ForksInv
  <2>1. /\ turn = 0 /\ announced = {} /\ waitFails = 0
        /\ child = [j \in 0..num_forks - 1 |-> "none"] /\ forksPc \in {"main", "failed"}
    BY <1>2 DEF ForksInit
  <2>2. num_forks \in Int
    <3>1. num_forks \in ForkCounts \/ num_forks = 0
      BY <1>2, Zenon DEF ForksInit
    <3>2. CASE num_forks \in ForkCounts
      BY <3>2, ForksAssumption
    <3>3. CASE num_forks = 0
      BY <3>3
    <3> QED BY <3>1, <3>2, <3>3
  <2> QED BY <2>1, <2>2 DEF ForksInv, ForksReport
<1>6. FindInv
  <2>1. port = FirstPort /\ sockets = {} /\ findPc \in {"loop", "failed"}
        /\ (findPc = "failed" => server = [q \in Ports |-> "refuses"])
    BY <1>3 DEF FindInit
  <2>2. PICK first \in Ports, last \in Ports : Ports = first..last
    BY PortsAssumption
  <2>3. FirstPort = first
    <3>1. first \in Nat /\ last \in Nat /\ \A q \in Ports : first <= q /\ q \in Nat
      BY <2>2, PortsAssumption
    <3>2. FirstPort \in Ports /\ \A q \in Ports : FirstPort <= q
      BY <3>1 DEF FirstPort
    <3> QED BY <3>1, <3>2
  <2>4. first \in Nat /\ last \in Nat /\ first <= last
    BY <2>2, PortsAssumption
  <2>5. /\ port \in Nat
        /\ \E low, high \in Ports : Ports = low..high /\ low <= port /\ port <= high + 1
        /\ \A p \in Ports : ~(p < port)
    BY <2>1, <2>2, <2>3, <2>4
  <2> QED BY <2>1, <2>5 DEF FindInv, FindReport
<1> QED BY <1>4, <1>5, <1>6 DEF ReportsInv

LEMMA SnoozeKeeps == SnoozeInv /\ [SnoozeNext]_snoozeVars => SnoozeInv'
<1> SUFFICES ASSUME SnoozeInv, [SnoozeNext]_snoozeVars PROVE SnoozeInv'
  OBVIOUS
<1> USE DEF SnoozeInv, SnoozeReport
<1>1. CASE SnoozeMain
  BY <1>1 DEF SnoozeMain
<1>2. CASE Loop
  BY <1>2 DEF Loop
<1>3. CASE Sleep
  BY <1>3 DEF Sleep, Wakes
<1>4. CASE Sigint
  BY <1>4 DEF Sigint, Wakes
<1>5. CASE UNCHANGED snoozeVars
  BY <1>5 DEF snoozeVars
<1> QED BY <1>1, <1>2, <1>3, <1>4, <1>5 DEF SnoozeNext, SnoozeStep

LEMMA ForksKeep == ForksInv /\ [ForksNext]_forksVars => ForksInv'
<1> SUFFICES ASSUME ForksInv, [ForksNext]_forksVars PROVE ForksInv'
  OBVIOUS
<1>d. DOMAIN child = 0..num_forks - 1
  BY DEF ForksInv
<1>f. IsFiniteSet(announced) /\ Cardinality(announced) \in Nat
  <2>1. IsFiniteSet(0..num_forks - 1)
    BY FS_Interval DEF ForksInv
  <2>2. announced \subseteq 0..num_forks - 1
    BY <1>d DEF ForksInv
  <2> QED BY <2>1, <2>2, FS_Subset, FS_CardinalityType
<1>1. CASE ForksMain
  BY <1>1, <1>d DEF ForksMain, ForksInv, ForksReport
<1>2. CASE ForkOne
  <2>1. PICK outcome \in {"runs", "failed"} : child' = [child EXCEPT ![turn] = outcome]
    BY <1>2 DEF ForkOne
  <2>2. /\ forksPc = "fork" /\ forksPc' = "fork" /\ turn < num_forks /\ turn' = turn + 1
        /\ UNCHANGED <<num_forks, announced, waitFails>> /\ turn \in DOMAIN child /\ child[turn] = "none"
        /\ announced = {} /\ waitFails = 0 /\ num_forks > 0 /\ num_forks \in Int /\ turn \in Nat
    BY <1>2, <1>d DEF ForkOne, ForksInv
  <2>3. /\ child' \in [0..num_forks - 1 -> {"none", "runs", "failed", "ended", "reaped"}]
        /\ DOMAIN child' = DOMAIN child
        /\ \A j \in DOMAIN child : child'[j] = IF j = turn THEN outcome ELSE child[j]
    BY <2>1, <2>2 DEF ForksInv
  <2>4. announced' = {j \in DOMAIN child' : child'[j] = "reaped"}
    BY <2>2, <2>3 DEF ForksInv
  <2>5. \A j \in DOMAIN child' : j \in Int /\ (j >= turn' => child'[j] = "none") /\ (j < turn' => child'[j] # "none")
    BY <1>d, <2>2, <2>3 DEF ForksInv
  <2> QED BY <2>2, <2>3, <2>4, <2>5 DEF ForksInv, ForksReport
<1>3. CASE ForksStarted
  <2>1. /\ forksPc = "fork" /\ turn = num_forks /\ turn' = 0 /\ forksPc' = "wait"
        /\ UNCHANGED <<num_forks, child, announced, waitFails>>
    BY <1>3 DEF ForksStarted
  <2>2. Cardinality(announced) = 0 /\ waitFails = 0 /\ num_forks > 0
    BY <2>1, FS_EmptySet DEF ForksInv
  <2>3. \A j \in DOMAIN child : child[j] # "none"
    BY <1>d, <2>1 DEF ForksInv
  <2> QED BY <2>1, <2>2, <2>3 DEF ForksInv, ForksReport
<1>4. CASE ChildEnds
  <2>1. PICK j \in DOMAIN child : child[j] = "runs" /\ child' = [child EXCEPT ![j] = "ended"]
    BY <1>4 DEF ChildEnds
  <2>2. UNCHANGED <<num_forks, turn, announced, waitFails, forksPc>>
    BY <1>4 DEF ChildEnds
  <2>3. /\ child' \in [0..num_forks - 1 -> {"none", "runs", "failed", "ended", "reaped"}]
        /\ DOMAIN child' = DOMAIN child
        /\ \A k \in DOMAIN child : child'[k] = IF k = j THEN "ended" ELSE child[k]
    BY <2>1, <1>d DEF ForksInv
  <2>4. announced' = {k \in DOMAIN child' : child'[k] = "reaped"}
    BY <2>1, <2>2, <2>3 DEF ForksInv
  <2>5. forksPc # "done"
    BY <2>1 DEF ForksInv, ForksReport
  <2>6. forksPc \in {"main", "fork", "failed"} => \A k \in DOMAIN child' : k >= turn => child'[k] = "none"
    BY <2>1, <2>3 DEF ForksInv
  <2>7. forksPc = "fork" => \A k \in DOMAIN child' : k < turn => child'[k] # "none"
    BY <2>3 DEF ForksInv
  <2>8. forksPc = "wait" => /\ \A k \in DOMAIN child' : child'[k] # "none"
                            /\ waitFails = 0
    BY <2>1, <2>3 DEF ForksInv
  <2> QED BY <2>2, <2>3, <2>4, <2>5, <2>6, <2>7, <2>8 DEF ForksInv, ForksReport
<1>5. CASE WaitOne
  <2>1. /\ forksPc = "wait" /\ forksPc' = "wait" /\ turn < num_forks /\ turn' = turn + 1
        /\ num_forks' = num_forks
        /\ turn = waitFails + Cardinality(announced) /\ num_forks > 0
        /\ turn \in Nat /\ waitFails \in Nat /\ num_forks \in Int
    BY <1>5 DEF WaitOne, ForksInv
  <2>2. CASE waitFails' = waitFails + 1 /\ UNCHANGED <<child, announced>>
             /\ \A j \in DOMAIN child : child[j] \in {"failed", "reaped"}
    <3>1. turn' = waitFails' + Cardinality(announced')
      BY <1>f, <2>1, <2>2
    <3> QED BY <2>1, <2>2, <3>1 DEF ForksInv, ForksReport
  <2>3. CASE \E j \in DOMAIN child :
               /\ child[j] = "ended" /\ child' = [child EXCEPT ![j] = "reaped"]
               /\ announced' = announced \cup {j} /\ UNCHANGED waitFails
    <3>1. PICK j \in DOMAIN child :
               /\ child[j] = "ended" /\ child' = [child EXCEPT ![j] = "reaped"]
               /\ announced' = announced \cup {j} /\ UNCHANGED waitFails
      BY <2>3
    <3>2. /\ child' \in [0..num_forks - 1 -> {"none", "runs", "failed", "ended", "reaped"}]
          /\ DOMAIN child' = DOMAIN child
          /\ \A k \in DOMAIN child : child'[k] = IF k = j THEN "reaped" ELSE child[k]
      BY <3>1, <1>d DEF ForksInv
    <3>3. announced' = {k \in DOMAIN child' : child'[k] = "reaped"}
      BY <3>1, <3>2 DEF ForksInv
    <3>4. j \notin announced /\ waitFails = 0
      BY <2>1, <3>1 DEF ForksInv
    <3>5. Cardinality(announced') = Cardinality(announced) + 1
      BY <1>f, <3>1, <3>4, FS_AddElement
    <3>6. turn' = waitFails' + Cardinality(announced')
      BY <1>f, <2>1, <3>1, <3>5
    <3>7. \A k \in DOMAIN child' : child'[k] # "none"
      BY <2>1, <3>2 DEF ForksInv
    <3> QED BY <2>1, <3>1, <3>2, <3>3, <3>4, <3>6, <3>7 DEF ForksInv, ForksReport
  <2> QED BY <1>5, <2>2, <2>3 DEF WaitOne
<1>6. CASE AllWaited
  <2>1. /\ forksPc = "wait" /\ forksPc' = "done" /\ turn = num_forks
        /\ UNCHANGED <<num_forks, child, turn, announced, waitFails>>
        /\ turn = waitFails + Cardinality(announced) /\ num_forks > 0 /\ num_forks \in Int /\ waitFails \in Nat
        /\ announced = {j \in DOMAIN child : child[j] = "reaped"}
        /\ \A j \in DOMAIN child : child[j] # "none"
    BY <1>6 DEF AllWaited, ForksInv
  <2>2. announced = {j \in DOMAIN child : child[j] # "failed"}
    <3>1. CASE waitFails # 0
      <4>1. \A j \in DOMAIN child : child[j] \in {"failed", "reaped"}
        BY <2>1, <3>1 DEF ForksInv
      <4> QED BY <2>1, <4>1
    <3>2. CASE waitFails = 0
      <4>1. IsFiniteSet(0..num_forks - 1) /\ Cardinality(0..num_forks - 1) = num_forks
        <5>1. num_forks - 1 \in Int /\ 0 \in Int
          BY <2>1
        <5> QED BY <2>1, <5>1, FS_Interval
      <4>2. announced \subseteq 0..num_forks - 1
        BY <1>d, <2>1
      <4>5. Cardinality(announced) = num_forks
        BY <1>f, <2>1, <3>2
      <4>3. announced = 0..num_forks - 1
        BY <4>1, <4>2, <4>5, FS_Subset
      <4> QED BY <1>d, <2>1, <4>3
    <3> QED BY <3>1, <3>2
  <2>3. waitFails = num_forks - Cardinality(announced)
    BY <1>f, <2>1
  <2>4. \A j \in announced : child[j] = "reaped"
    BY <2>1
  <2> QED BY <2>1, <2>2, <2>3, <2>4 DEF ForksInv, ForksReport
<1>7. CASE UNCHANGED forksVars
  BY <1>7 DEF forksVars, ForksInv, ForksReport
<1> QED BY <1>1, <1>2, <1>3, <1>4, <1>5, <1>6, <1>7 DEF ForksNext

LEMMA FindKeeps == FindInv /\ [FindNext]_findVars => FindInv'
<1> SUFFICES ASSUME FindInv, [FindNext]_findVars PROVE FindInv'
  OBVIOUS
<1>p. /\ \A p \in Ports : p \in Nat /\ (p < port => server[p] = "refuses")
      /\ findPc = "loop" => port \in Nat /\ sockets = {}
  BY PortsAssumption DEF FindInv, FindReport
<1>1. ASSUME findPc' = "failed", UNCHANGED <<server, port>>
      PROVE  FindInv'
  BY <1>p, <1>1 DEF FindInv, FindReport
<1>2. CASE SocketFails
  BY <1>1, <1>2 DEF SocketFails, CleansUp
<1>3. CASE ConnectFails
  <2>1. /\ findPc = "loop" /\ findPc' = "loop" /\ port \in Ports /\ server[port] = "refuses"
        /\ port' = port + 1 /\ UNCHANGED <<server, sockets>>
    BY <1>3 DEF ConnectFails
  <2>2. PICK first \in Ports, last \in Ports : Ports = first..last /\ first <= port /\ port <= last + 1
    BY <2>1 DEF FindInv
  <2>3. first \in Nat /\ last \in Nat /\ port \in Nat
    BY <1>p, <2>1, <2>2
  <2>4. first <= port' /\ port' <= last + 1
    BY <2>1, <2>2, <2>3
  <2>5. \A p \in Ports : p < port' => server'[p] = "refuses"
    BY <1>p, <2>1
  <2> QED BY <1>p, <2>1, <2>2, <2>4, <2>5 DEF FindInv, FindReport
<1>4. CASE RecvFails
  BY <1>1, <1>4 DEF RecvFails, CleansUp
<1>5. CASE Found
  <2>1. /\ findPc = "loop" /\ findPc' = "found" /\ UNCHANGED <<server, port>>
        /\ sockets' = (sockets \cup {port}) \ {port}
    BY <1>5 DEF Found, CleansUp
  <2>2. sockets' = {}
    BY <1>p, <2>1
  <2> QED BY <1>p, <2>1, <2>2 DEF FindInv, FindReport
<1>6. CASE NoServer
  <2>1. /\ findPc = "loop" /\ findPc' = "none" /\ port \notin Ports /\ UNCHANGED <<server, port, client>>
        /\ sockets' = sockets \ {client}
    BY <1>6 DEF NoServer, CleansUp
  <2>2. PICK first \in Ports, last \in Ports : Ports = first..last /\ first <= port /\ port <= last + 1
    BY <2>1 DEF FindInv
  <2>3. \A p \in Ports : p < port
    <3>1. first \in Nat /\ last \in Nat /\ port \in Nat
      BY <1>p, <2>1, <2>2
    <3> QED BY <2>1, <2>2, <3>1
  <2>4. \A p \in Ports : server'[p] = "refuses"
    BY <1>p, <2>1, <2>3
  <2> QED BY <1>p, <2>1, <2>4 DEF FindInv, FindReport
<1>7. CASE UNCHANGED findVars
  BY <1>7 DEF findVars, FindInv, FindReport
<1> QED BY <1>2, <1>3, <1>4, <1>5, <1>6, <1>7 DEF FindNext

LEMMA ReportsKeep == ReportsInv /\ [Next]_vars => ReportsInv'
<1> SUFFICES ASSUME ReportsInv, [Next]_vars PROVE ReportsInv'
  OBVIOUS
<1>1. [SnoozeNext]_snoozeVars /\ [ForksNext]_forksVars /\ [FindNext]_findVars
  BY DEF Next, vars, ListStep, SortStep, HeadStep, NapStep, ForksStep, FindStep
<1> QED BY <1>1, SnoozeKeeps, ForksKeep, FindKeeps DEF ReportsInv

\* snooze reports no less than it slept, at most a second more, and what it was
\* asked to sleep unless SIGINT came, whenever it comes (snooze.c:64-75).
THEOREM SnoozeAlwaysReports == Spec => []SnoozeReport
<1>1. ReportsInv => SnoozeReport
  BY DEF ReportsInv, SnoozeInv
<1> QED BY <1>1, ReportsInitially, ReportsKeep, PTL DEF Spec

\* When nforks says that all children are done, each child it could spawn has
\* ended, was waited for and reported, whatever forks failed (nforks.c:86-122).
THEOREM ForksAlwaysReaped == Spec => []ForksReport
<1>1. ReportsInv => ForksReport
  BY DEF ReportsInv, ForksInv
<1> QED BY <1>1, ReportsInitially, ReportsKeep, PTL DEF Spec

\* findserver passes over no port but one that refused, and leaves none of its
\* connections open when the search ends (findserver.c:87-115).
THEOREM NoServerPassedOver == Spec => []FindReport
<1>1. ReportsInv => FindReport
  BY DEF ReportsInv, FindInv
<1> QED BY <1>1, ReportsInitially, ReportsKeep, PTL DEF Spec
====
