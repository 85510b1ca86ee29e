---------------------------- MODULE HeapQProofs ----------------------------
(***************************************************************************)
(* The priority heap, for any size and any values: it is ordered between   *)
(* calls and implements a bag whose greatest value is taken, as long as    *)
(* nobody dequeues from an empty heap, whose count wraps.  Dequeuing the   *)
(* last value is covered: downHeapQ is given n - 1, which wraps, and sifts *)
(* words that are not the heap's any more.                                 *)
(***************************************************************************)
EXTENDS HeapQ, FiniteSetTheorems, WellFoundedInduction, TLAPS

(* upHeapQ has an enqueued value at start that may be greater than its parent;
   the values below start are not greater than the parent either. *)
SiftsUp ==
  /\ n < size /\ start \in 0..n /\ buf[start] \in Values
  /\ \A i \in 1..n : i # start => buf[i] <= buf[upIndex(i)]
  /\ \A i \in 1..n : start > 0 /\ upIndex(i) = start => buf[i] <= buf[upIndex(start)]

(* downHeapQ has a value at start that may be smaller than its children; they
   are not greater than the parent of start. *)
SiftsCounted ==
  /\ n > 0 /\ bottom = n - 1 /\ start \in 0..bottom
  /\ \A i \in 1..bottom : upIndex(i) # start => buf[i] <= buf[upIndex(i)]
  /\ \A i \in 1..bottom : start > 0 /\ upIndex(i) = start => buf[i] <= buf[upIndex(start)]

(* When the last value was taken no word is counted, and what downHeapQ does to
   memory is not the heap's. *)
SiftsDown == n = 0 \/ SiftsCounted

HeapInv ==
  /\ TypeOK /\ HeapOrdered
  /\ pc = "up" => SiftsUp
  /\ pc = "down" => SiftsDown
-----------------------------------------------------------------------------
(* The parent of a word: it is one of the parent's two children. *)
LEMMA Parent ==
  ASSUME NEW i \in Nat, i # 0
  PROVE  /\ upIndex(i) \in Nat /\ upIndex(i) < i
         /\ i = 2 * upIndex(i) + 1 \/ i = 2 * upIndex(i) + 2
BY DEF upIndex

(* The heap is ordered while it is empty. *)
LEMMA InitHeapInv == ASSUME HeapAssumption PROVE Init => HeapInv
BY DEF HeapAssumption, Init, newHeapQ, Words, HeapInv, TypeOK, HeapOrdered

(* enqueueHeapQ() puts a value behind the last one. *)
LEMMA EnqueueKeeps ==
  ASSUME HeapAssumption, HeapInv, NEW v \in Values, enqueueHeapQ(v)
  PROVE  HeapInv'
<1>1. /\ pc = "idle" /\ n < size /\ pc' = "up" /\ start' = n
      /\ buf' = [buf EXCEPT ![n] = v] /\ UNCHANGED <<n, bottom, x, ok, was>>
  BY DEF enqueueHeapQ
<1>2. /\ buf \in [Words -> Nat] /\ n \in Nat /\ v \in Nat /\ n \in Words
      /\ \A i \in 0..n : i \in Words
  BY <1>1 DEF HeapAssumption, HeapInv, TypeOK, Words
<1>3. TypeOK'
  BY <1>1, <1>2 DEF HeapInv, TypeOK
<1>4. \A i \in 1..n : upIndex(i) \in 0..n /\ upIndex(i) < n
  BY <1>2, Parent
<1>5. SiftsUp'
  <2>1. \A i \in 0..n : i # n => buf'[i] = buf[i]
    BY <1>1, <1>2
  <2>2. \A i \in 1..n : i # n => buf'[i] <= buf'[upIndex(i)]
    BY <1>1, <1>2, <1>4, <2>1 DEF HeapInv, HeapOrdered
  <2> QED BY <1>1, <1>2, <1>4, <2>2 DEF SiftsUp, upIndex
<1> QED BY <1>1, <1>3, <1>5 DEF HeapInv, HeapOrdered

(* One call of upHeapQ() that swaps. *)
LEMMA UpKeeps == ASSUME HeapAssumption, HeapInv, upHeapQ PROVE HeapInv'
<1> DEFINE u == upIndex(start)
<1>1. /\ pc = "up" /\ start > 0 /\ buf[u] < buf[start] /\ start' = u
      /\ buf' = [buf EXCEPT ![u] = buf[start], ![start] = buf[u]]
      /\ UNCHANGED <<n, pc, bottom, x, ok, was>>
  BY DEF upHeapQ, swap
<1>2. /\ buf \in [Words -> Nat] /\ n \in Nat /\ n < size /\ start \in 0..n /\ start \in Nat
      /\ \A i \in 0..n : i \in Words
  BY <1>1 DEF HeapAssumption, HeapInv, TypeOK, Words, SiftsUp
<1>3. \A i \in 1..n : upIndex(i) \in 0..n /\ upIndex(i) < i
  BY <1>2, Parent
<1>4. u \in 0..n /\ u < start /\ u \in Words /\ start \in Words /\ start \in 1..n
  BY <1>1, <1>2, <1>3
<1>5. /\ \A i \in 1..n : i # start => buf[i] <= buf[upIndex(i)]
      /\ \A i \in 1..n : upIndex(i) = start => buf[i] <= buf[u]
  BY <1>1 DEF HeapInv, SiftsUp
<1> HIDE DEF u
<1>6. /\ buf' \in [Words -> Nat] /\ buf'[u] = buf[start] /\ buf'[start] = buf[u]
      /\ \A i \in 0..n : i # u /\ i # start => buf'[i] = buf[i]
      /\ \A i \in 0..n : buf[i] \in Nat
  BY <1>1, <1>2, <1>4
<1>7. TypeOK'
  BY <1>1, <1>2, <1>4, <1>6 DEF HeapInv, TypeOK
<1>8. ASSUME NEW i \in 1..n, i # u PROVE buf'[i] <= buf'[upIndex(i)]
  <2>1. CASE i = start
    BY <1>1, <1>4, <1>6, <2>1 DEF u
  <2>2. CASE i # start /\ upIndex(i) = start
    BY <1>1, <1>2, <1>3, <1>4, <1>5, <1>6, <1>8, <2>2
  <2>3. CASE i # start /\ upIndex(i) = u
    BY <1>1, <1>2, <1>3, <1>4, <1>5, <1>6, <1>8, <2>3
  <2>4. CASE i # start /\ upIndex(i) # u /\ upIndex(i) # start
    BY <1>1, <1>2, <1>3, <1>4, <1>5, <1>6, <1>8, <2>4
  <2> QED BY <2>1, <2>2, <2>3, <2>4
<1>9. ASSUME NEW i \in 1..n, u > 0, upIndex(i) = u PROVE buf'[i] <= buf'[upIndex(u)]
  <2>1. /\ upIndex(u) \in 0..n /\ upIndex(u) < u /\ buf[u] <= buf[upIndex(u)]
        /\ i # u
    BY <1>3, <1>4, <1>5, <1>9
  <2>2. buf'[upIndex(u)] = buf[upIndex(u)]
    BY <1>4, <1>6, <2>1
  <2>3. CASE i = start
    BY <1>6, <2>1, <2>2, <2>3
  <2>4. CASE i # start
    <3>1. buf'[i] = buf[i] /\ buf[i] <= buf[u]
      BY <1>5, <1>6, <1>9, <2>1, <2>4
    <3> QED BY <1>4, <1>6, <2>1, <2>2, <3>1
  <2> QED BY <2>3, <2>4
<1>10. buf'[u] \in Values
  BY <1>1, <1>6 DEF HeapInv, SiftsUp
<1>11. SiftsUp'
  BY <1>1, <1>2, <1>4, <1>8, <1>9, <1>10 DEF SiftsUp, upIndex
<1> QED BY <1>1, <1>7, <1>11 DEF HeapInv, HeapOrdered

(* upHeapQ() returns, and enqueueHeapQ() counts the value. *)
LEMMA UpReturnsKeeps == ASSUME HeapAssumption, HeapInv, upReturns PROVE HeapInv'
<1>1. /\ pc = "up" /\ (start > 0 => buf[upIndex(start)] >= buf[start])
      /\ n' = n + 1 /\ pc' = "idle" /\ UNCHANGED <<buf, start, bottom, x, ok, was>>
  BY DEF upReturns
<1>2. SiftsUp /\ TypeOK
  BY <1>1 DEF HeapInv
<1>3. TypeOK'
  BY <1>1, <1>2 DEF HeapAssumption, TypeOK, SiftsUp
<1>4. \A i \in 1..n : upIndex(i) \in 0..n
  BY <1>2, Parent DEF SiftsUp, TypeOK
<1>5. /\ \A i \in 0..n : buf[i] \in Nat
      /\ n \in Nat /\ start \in Nat
  BY <1>2 DEF HeapAssumption, TypeOK, Words, SiftsUp
<1>6. \A i \in 1..n : buf[i] <= buf[upIndex(i)]
  BY <1>1, <1>2, <1>4, <1>5 DEF SiftsUp
<1> QED BY <1>1, <1>3, <1>5, <1>6 DEF HeapInv, HeapOrdered, upIndex

(* dequeueHeapQ() puts the last value in the place of the root. *)
LEMMA DequeueKeeps ==
  ASSUME HeapAssumption, Least >= 1, HeapInv, dequeueHeapQ PROVE HeapInv'
<1>1. /\ pc = "idle" /\ n >= 1 /\ n <= size /\ n \in Nat /\ size \in Nat /\ size <= Top
  BY DEF HeapAssumption, dequeueHeapQ, HeapInv, TypeOK
<1>2. /\ n' = n - 1 /\ bottom' = lessOne(n') /\ buf' = [buf EXCEPT ![0] = buf[n - 1]]
      /\ pc' = "down" /\ start' = 0 /\ x' = buf[0] /\ ok' = ok
  <2>1. n' = n - 1 /\ n # 0
    BY <1>1 DEF dequeueHeapQ, lessOne
  <2> QED BY <2>1 DEF dequeueHeapQ
<1>3. /\ buf \in [Words -> Nat] /\ \A i \in 0..(n - 1) : i \in Words
  BY <1>1 DEF HeapAssumption, HeapInv, TypeOK, Words
<1>4. TypeOK'
  <2>1. bottom' \in 0..SIZE_MAX /\ start' \in Words /\ n' \in 0..size
    BY <1>1, <1>2 DEF HeapAssumption, Words, lessOne
  <2>2. buf' \in [Words -> Nat] /\ x' \in Nat
    BY <1>1, <1>2, <1>3
  <2> QED BY <1>2, <2>1, <2>2 DEF HeapInv, TypeOK
<1>5. SiftsDown'
  <2>1. CASE n = 1
    BY <1>2, <2>1 DEF SiftsDown
  <2>2. CASE n # 1
    <3>1. \A i \in 1..(n - 2) : upIndex(i) \in 0..(n - 1)
      BY <1>1, Parent
    <3>2. \A i \in 1..(n - 1) : buf[i] <= buf[upIndex(i)]
      BY <1>1 DEF HeapInv, HeapOrdered
    <3>3. \A i \in 1..(n - 1) : buf'[i] = buf[i]
      BY <1>2, <1>3
    <3>4. \A i \in 1..(n - 2) : upIndex(i) # 0 => buf'[i] <= buf'[upIndex(i)]
      BY <1>1, <3>1, <3>2, <3>3
    <3>5. bottom' = n - 2
      BY <1>1, <1>2, <2>2 DEF lessOne
    <3> QED BY <1>1, <1>2, <2>2, <3>4, <3>5 DEF SiftsDown, SiftsCounted, upIndex
  <2> QED BY <2>1, <2>2
<1> QED BY <1>2, <1>4, <1>5 DEF HeapInv, HeapOrdered

(* One call of downHeapQ() that swaps: the greater child goes up. *)
LEMMA CountedDownKeeps ==
  ASSUME HeapAssumption, HeapInv, SiftsCounted, downHeapQ PROVE HeapInv'
<1> DEFINE m == maxIndex
<1>1. /\ pc = "down" /\ left <= bottom /\ ~ (buf[start] > buf[m]) /\ start' = m
      /\ buf' = [buf EXCEPT ![start] = buf[m], ![m] = buf[start]]
      /\ UNCHANGED <<n, pc, bottom, x, ok, was>>
  BY DEF downHeapQ, swap, Ordered
<1>2. /\ buf \in [Words -> Nat] /\ bottom \in Nat /\ bottom = n - 1 /\ n > 0 /\ n \in Nat
      /\ start \in 0..bottom /\ start \in Nat
      /\ \A i \in 0..bottom : i \in Words /\ buf[i] \in Nat
  BY <1>1 DEF HeapAssumption, HeapInv, TypeOK, Words, SiftsCounted
<1>3. /\ m \in 1..bottom /\ (m = 2 * start + 1 \/ m = 2 * start + 2)
      /\ \A i \in 1..bottom : i = 2 * start + 1 \/ i = 2 * start + 2 => buf[i] <= buf[m]
  <2>1. CASE left < bottom
    BY <1>1, <1>2, <2>1 DEF maxIndex, left
  <2>2. CASE left = bottom
    BY <1>1, <1>2, <2>2 DEF maxIndex, left
  <2> QED BY <1>1, <1>2, <2>1, <2>2 DEF left
<1> HIDE DEF m
<1>4. \A i \in 1..bottom : /\ upIndex(i) \in 0..bottom /\ upIndex(i) < i
                           /\ i = 2 * upIndex(i) + 1 \/ i = 2 * upIndex(i) + 2
  BY <1>2, Parent
<1>5. upIndex(m) = start /\ start < m /\ start \in Words /\ m \in Words
  <2>1. upIndex(m) \in Nat /\ (m = 2 * upIndex(m) + 1 \/ m = 2 * upIndex(m) + 2)
    BY <1>2, <1>3, <1>4
  <2>2. upIndex(m) = start /\ start < m
    BY <1>2, <1>3, <2>1
  <2> QED BY <1>2, <1>3, <2>2
<1>6. /\ \A i \in 1..bottom : upIndex(i) # start => buf[i] <= buf[upIndex(i)]
      /\ \A i \in 1..bottom : start > 0 /\ upIndex(i) = start => buf[i] <= buf[upIndex(start)]
  BY <1>1 DEF SiftsCounted
<1>7. /\ buf' \in [Words -> Nat] /\ buf'[start] = buf[m] /\ buf'[m] = buf[start]
      /\ \A i \in 0..bottom : i # m /\ i # start => buf'[i] = buf[i]
  BY <1>1, <1>2, <1>5
<1>8. TypeOK'
  BY <1>1, <1>2, <1>5, <1>7 DEF HeapInv, TypeOK
<1>9. ASSUME NEW i \in 1..bottom, upIndex(i) # m PROVE buf'[i] <= buf'[upIndex(i)]
  <2>1. CASE i = m
    BY <1>1, <1>2, <1>3, <1>5, <1>7, <2>1
  <2>2. CASE i # m /\ upIndex(i) = start
    <3>1. buf[i] <= buf[m] /\ i # start
      BY <1>2, <1>3, <1>4, <2>2
    <3> QED BY <1>7, <2>2, <3>1
  <2>3. CASE i = start
    <3>1. buf[m] <= buf[upIndex(start)] /\ upIndex(start) # start
      BY <1>2, <1>3, <1>4, <1>5, <1>6, <2>3
    <3> QED BY <1>4, <1>7, <1>9, <2>3, <3>1
  <2>4. CASE i # m /\ i # start /\ upIndex(i) # start
    BY <1>4, <1>6, <1>7, <1>9, <2>4
  <2> QED BY <2>1, <2>2, <2>3, <2>4
<1>10. ASSUME NEW i \in 1..bottom, upIndex(i) = m PROVE buf'[i] <= buf'[upIndex(m)]
  <2>1. buf[i] <= buf[m] /\ i # m /\ i # start
    BY <1>2, <1>3, <1>4, <1>5, <1>6, <1>10
  <2> QED BY <1>5, <1>7, <2>1
<1>11. SiftsDown'
  BY <1>1, <1>2, <1>3, <1>9, <1>10 DEF SiftsDown, SiftsCounted, upIndex
<1> QED BY <1>1, <1>8, <1>11 DEF HeapInv, HeapOrdered

(* After the last value was taken, downHeapQ() stays in memory. *)
LEMMA DownKeeps == ASSUME HeapAssumption, HeapInv, downHeapQ PROVE HeapInv'
<1>1. CASE SiftsCounted
  BY <1>1, CountedDownKeeps
<1>2. CASE n = 0
  <2> DEFINE m == maxIndex
  <2>1. /\ pc = "down" /\ left < Top /\ start' = m
        /\ buf' = [buf EXCEPT ![start] = buf[m], ![m] = buf[start]]
        /\ UNCHANGED <<n, pc, bottom, x, ok, was>>
    BY DEF downHeapQ, swap
  <2>2. buf \in [Words -> Nat] /\ start \in Words /\ m \in Words
    BY <2>1 DEF HeapInv, TypeOK, HeapAssumption, Words, maxIndex, left
  <2> HIDE DEF m
  <2>3. buf' \in [Words -> Nat]
    BY <2>1, <2>2
  <2>4. TypeOK'
    BY <2>1, <2>2, <2>3 DEF HeapInv, TypeOK
  <2> QED BY <1>2, <2>1, <2>4 DEF HeapInv, HeapOrdered, SiftsDown
<1> QED BY <1>1, <1>2 DEF HeapInv, SiftsDown, downHeapQ

(* downHeapQ() returns: the value is in its place. *)
LEMMA CountedDownReturnsKeeps ==
  ASSUME HeapAssumption, HeapInv, SiftsCounted, downReturns PROVE HeapInv'
<1>1. /\ pc = "down" /\ (left < Top => Ordered) /\ pc' = "idle" /\ ok' \in {0, 1}
      /\ UNCHANGED <<buf, n, start, bottom, x, was>>
  BY DEF downReturns
<1>2. /\ bottom \in Nat /\ bottom = n - 1 /\ n > 0 /\ n \in Nat /\ start \in Nat /\ bottom < Top
      /\ start <= bottom
      /\ \A i \in 0..bottom : buf[i] \in Nat
  BY <1>1 DEF HeapAssumption, HeapInv, TypeOK, Words, SiftsCounted
<1>3. TypeOK'
  BY <1>1 DEF HeapInv, TypeOK
<1>4. \A i \in 1..bottom : /\ upIndex(i) \in 0..bottom
                           /\ i = 2 * upIndex(i) + 1 \/ i = 2 * upIndex(i) + 2
  BY <1>2, Parent
<1>5. ASSUME NEW i \in 1..bottom PROVE buf[i] <= buf[upIndex(i)]
  <2>1. CASE upIndex(i) # start
    BY <1>1, <2>1 DEF SiftsCounted
  <2>2. CASE upIndex(i) = start
    <3>0. left \in Nat /\ left <= bottom /\ (i = left \/ i = left + 1)
      BY <1>2, <1>4, <2>2 DEF left
    <3>1. left \in Nat /\ left <= bottom /\ buf[start] > buf[maxIndex] /\ (i = left \/ i = left + 1)
      BY <1>1, <1>2, <3>0 DEF Ordered, HeapAssumption
    <3>2. CASE left < bottom /\ buf[left] <= buf[left + 1]
      BY <1>2, <2>2, <3>1, <3>2 DEF maxIndex
    <3>3. CASE ~ (left < bottom /\ buf[left] <= buf[left + 1])
      BY <1>2, <2>2, <3>1, <3>3 DEF maxIndex
    <3> QED BY <3>2, <3>3
  <2> QED BY <2>1, <2>2
<1> QED BY <1>1, <1>2, <1>3, <1>5 DEF HeapInv, HeapOrdered, upIndex

(* Once no word is counted there is nothing to order. *)
LEMMA DownReturnsKeeps == ASSUME HeapAssumption, HeapInv, downReturns PROVE HeapInv'
<1>1. CASE SiftsCounted
  BY <1>1, CountedDownReturnsKeeps
<1>2. CASE n = 0
  BY <1>2 DEF downReturns, HeapInv, TypeOK, HeapOrdered
<1> QED BY <1>1, <1>2 DEF HeapInv, SiftsDown, downReturns

(* Every step keeps HeapInv. *)
LEMMA NextHeapInv ==
  ASSUME HeapAssumption, Least >= 1
  PROVE  HeapInv /\ [Next]_vars => HeapInv'
<1> SUFFICES ASSUME HeapInv, [Next]_vars PROVE HeapInv'
  OBVIOUS
<1>1. CASE UNCHANGED vars
  BY <1>1 DEF vars, HeapInv, TypeOK, HeapOrdered, SiftsUp, SiftsDown, SiftsCounted, upIndex
<1> QED
  BY <1>1, EnqueueKeeps, UpKeeps, UpReturnsKeeps, DequeueKeeps, DownKeeps, DownReturnsKeeps DEF Next

(* upHeapQ() and downHeapQ() "maintain the heap invariant": between calls no
   value is greater than its parent, whatever was enqueued and dequeued. *)
THEOREM HeapStaysOrdered ==
  ASSUME HeapAssumption, Least >= 1
  PROVE  Spec => []HeapOrdered
<1>1. HeapInv => HeapOrdered
  BY DEF HeapInv
<1> QED BY <1>1, InitHeapInv, NextHeapInv, PTL DEF Spec
-----------------------------------------------------------------------------
(* The values in the words W of the buffer b, as a bag. *)
BagOf(b, W) == [v \in {b[i] : i \in W} |-> Cardinality({i \in W : b[i] = v})]

(* Induction over the natural numbers, with a set for what holds. *)
LEMMA NatSetInduction ==
  ASSUME NEW S, 0 \in S, \A m \in Nat : m \in S => m + 1 \in S
  PROVE  Nat \subseteq S
<1> SUFFICES ASSUME Nat \ S # {} PROVE FALSE
  OBVIOUS
<1>1. PICK k \in Nat \ S : \A y \in Nat \ S : ~ (<<y, k>> \in OpToRel(<, Nat))
  BY WFMin, NatLessThanWellFounded, Zenon
<1>2. \A y \in Nat \ S : ~ (y < k)
  BY <1>1, Zenon DEF OpToRel
<1>3. k # 0 /\ k - 1 \in Nat /\ k - 1 < k
  BY k \in Nat \ S
<1> QED BY <1>2, <1>3

(* One value more, and one less, in the terms of PriorityBag. *)
With(B, v) == priority!(+)(B, priority!SetToBag({v}))
Less(B, v) == priority!(-)(B, priority!SetToBag({v}))

LEMMA WithIs ==
  ASSUME NEW B, NEW v
  PROVE  With(B, v) = [e \in DOMAIN B \cup {v} |-> (IF e \in DOMAIN B THEN B[e] ELSE 0)
                                                  + (IF e = v THEN 1 ELSE 0)]
<1>1. \A e : (IF e \in {v} THEN [d \in {v} |-> 1][e] ELSE 0) = (IF e = v THEN 1 ELSE 0)
  OBVIOUS
<1> QED BY <1>1 DEF With, priority!(+), priority!SetToBag

LEMMA LessIs ==
  ASSUME NEW B, NEW v
  PROVE  LET C == [e \in DOMAIN B |-> IF e = v THEN B[e] - 1 ELSE B[e]]
         IN  Less(B, v) = [e \in {d \in DOMAIN B : C[d] > 0} |-> C[e]]
<1> DEFINE C == [e \in DOMAIN B |-> IF e = v THEN B[e] - 1 ELSE B[e]]
           C2 == [e \in DOMAIN B |-> IF e \in DOMAIN [d \in {v} |-> 1] THEN B[e] - [d \in {v} |-> 1][e] ELSE B[e]]
<1>1. C2 = C
  OBVIOUS
<1>2. Less(B, v) = [e \in {d \in DOMAIN C2 : C2[d] > 0} |-> C2[e]]
  BY Zenon DEF Less, priority!(-), priority!SetToBag
<1>3. DOMAIN C = DOMAIN B
  OBVIOUS
<1> HIDE DEF C, C2
<1>4. Less(B, v) = [e \in {d \in DOMAIN B : C[d] > 0} |-> C[e]]
  BY <1>1, <1>2, <1>3
<1> QED BY <1>4 DEF C

(* Each value of the bag is in at least one word. *)
LEMMA BagOfType ==
  ASSUME NEW b, NEW W, IsFiniteSet(W)
  PROVE  LET B == BagOf(b, W)
         IN  B = [v \in DOMAIN B |-> B[v]] /\ \A v \in DOMAIN B : B[v] \in Nat /\ B[v] > 0
<1> DEFINE B == BagOf(b, W)
<1>1. B = [v \in DOMAIN B |-> B[v]]
  BY Zenon DEF BagOf
<1>2. ASSUME NEW v \in DOMAIN B PROVE B[v] \in Nat /\ B[v] # 0
  <2>1. B[v] = Cardinality({i \in W : b[i] = v}) /\ {i \in W : b[i] = v} # {}
    BY DEF BagOf
  <2>2. IsFiniteSet({i \in W : b[i] = v})
    BY FS_Subset, Zenon
  <2> QED BY <2>1, <2>2, FS_EmptySet, FS_CardinalityType, Zenon
<1> HIDE DEF B
<1>3. \A v \in DOMAIN B : B[v] \in Nat /\ B[v] > 0
  BY <1>2
<1> QED BY <1>1, <1>3 DEF B

(* One more word of memory is one more value. *)
LEMMA BagOfAdd ==
  ASSUME NEW b, NEW W, IsFiniteSet(W), NEW j, j \notin W
  PROVE  BagOf(b, W \cup {j}) = With(BagOf(b, W), b[j])
<1> DEFINE At(V, v) == {i \in V : b[i] = v}
           B == BagOf(b, W)
           C == BagOf(b, W \cup {j})
<1>1. \A v : /\ At(W \cup {j}, v) = IF v = b[j] THEN At(W, v) \cup {j} ELSE At(W, v)
             /\ j \notin At(W, v)
  OBVIOUS
<1>2. \A v : IsFiniteSet(At(W, v)) /\ Cardinality(At(W, v)) \in Nat
  BY FS_Subset, FS_CardinalityType, Zenon
<1>3. ASSUME NEW v PROVE Cardinality(At(W, v) \cup {j}) = Cardinality(At(W, v)) + 1
  <2> DEFINE V == At(W, v)
  <2>1. IsFiniteSet(V) /\ j \notin V
    BY <1>1, <1>2
  <2> HIDE DEF V
  <2>2. Cardinality(V \cup {j}) = Cardinality(V) + 1
    BY <2>1, FS_AddElement, Zenon
  <2> QED BY <2>2 DEF V
<1>4. At(W, b[j]) = {} => Cardinality(At(W, b[j])) = 0
  BY FS_EmptySet, Zenon
<1>5. /\ DOMAIN B = {b[i] : i \in W} /\ DOMAIN C = DOMAIN B \cup {b[j]}
      /\ B = [v \in DOMAIN B |-> Cardinality(At(W, v))]
      /\ C = [v \in DOMAIN C |-> Cardinality(At(W \cup {j}, v))]
  BY Zenon DEF BagOf
<1>6. \A v \in DOMAIN C : C[v] = IF v = b[j] THEN Cardinality(At(W, v)) + 1 ELSE Cardinality(At(W, v))
  <2> SUFFICES ASSUME NEW v \in DOMAIN C
               PROVE  C[v] = IF v = b[j] THEN Cardinality(At(W, v)) + 1 ELSE Cardinality(At(W, v))
    OBVIOUS
  <2>1. C[v] = Cardinality(At(W \cup {j}, v))
    BY <1>5
  <2>2. At(W \cup {j}, v) = IF v = b[j] THEN At(W, v) \cup {j} ELSE At(W, v)
    BY <1>1
  <2> HIDE DEF At
  <2> QED BY <1>3, <2>1, <2>2
<1>7. \A v \in DOMAIN B : B[v] = Cardinality(At(W, v))
  BY <1>5
<1>8. b[j] \notin DOMAIN B => At(W, b[j]) = {}
  BY <1>5
<1> HIDE DEF At, B, C
<1>9. C = [v \in DOMAIN B \cup {b[j]} |-> (IF v \in DOMAIN B THEN B[v] ELSE 0)
                                           + (IF v = b[j] THEN 1 ELSE 0)]
  BY <1>2, <1>4, <1>5, <1>6, <1>7, <1>8
<1> QED BY <1>9, WithIs DEF B, C

(* The bag depends on the words that are counted and on nothing else. *)
LEMMA BagOfSame ==
  ASSUME NEW b, NEW c, NEW W, \A i \in W : b[i] = c[i]
  PROVE  BagOf(b, W) = BagOf(c, W)
<1>1. \A v : {i \in W : b[i] = v} = {i \in W : c[i] = v}
  OBVIOUS
<1>2. {b[i] : i \in W} = {c[i] : i \in W}
  OBVIOUS
<1> QED BY <1>1, <1>2, Zenon DEF BagOf

(* A value that is in another word is the same value: what upHeapQ does to the
   values that are counted, and dequeueHeapQ to the last one. *)
LEMMA BagOfMove ==
  ASSUME NEW b, NEW c, NEW W, IsFiniteSet(W), NEW j \in W, NEW k, k \notin W,
         c[k] = b[j], \A i \in W \ {j} : c[i] = b[i]
  PROVE  BagOf(c, (W \ {j}) \cup {k}) = BagOf(b, W)
<1>1. IsFiniteSet(W \ {j}) /\ W = (W \ {j}) \cup {j} /\ k \notin W \ {j} /\ j \notin W \ {j}
  BY FS_RemoveElement
<1>2. BagOf(b, W) = With(BagOf(b, W \ {j}), b[j])
  BY <1>1, BagOfAdd
<1>3. BagOf(c, (W \ {j}) \cup {k}) = With(BagOf(c, W \ {j}), c[k])
  BY <1>1, BagOfAdd
<1>4. BagOf(b, W \ {j}) = BagOf(c, W \ {j})
  BY BagOfSame
<1> QED BY <1>2, <1>3, <1>4

(* The order in which values are added does not matter. *)
LEMMA WithCommutes ==
  ASSUME NEW B, NEW v, NEW w, \A e \in DOMAIN B : B[e] \in Nat
  PROVE  With(With(B, v), w) = With(With(B, w), v)
<1> DEFINE n0(e) == IF e \in DOMAIN B THEN B[e] ELSE 0
           one(e, u) == IF e = u THEN 1 ELSE 0
<1>1. \A e, u : n0(e) \in Nat /\ one(e, u) \in Nat
  OBVIOUS
<1>2. ASSUME NEW s, NEW t
      PROVE  With(With(B, s), t) = [e \in DOMAIN B \cup {s, t} |-> n0(e) + one(e, s) + one(e, t)]
  <2> DEFINE C == With(B, s)
  <2>1. DOMAIN C = DOMAIN B \cup {s} /\ \A e \in DOMAIN C : C[e] = n0(e) + one(e, s)
    BY WithIs
  <2>2. With(C, t) = [e \in DOMAIN C \cup {t} |-> (IF e \in DOMAIN C THEN C[e] ELSE 0) + one(e, t)]
    BY WithIs
  <2> HIDE DEF C
  <2>3. \A e \in DOMAIN C \cup {t} : (IF e \in DOMAIN C THEN C[e] ELSE 0) = n0(e) + one(e, s)
    BY <2>1
  <2>4. DOMAIN C \cup {t} = DOMAIN B \cup {s, t}
    BY <2>1
  <2> HIDE DEF n0, one
  <2> QED BY <2>2, <2>3, <2>4 DEF C
<1> HIDE DEF n0, one
<1>3. \A e : n0(e) + one(e, v) + one(e, w) = n0(e) + one(e, w) + one(e, v)
  BY <1>1
<1>4. DOMAIN B \cup {v, w} = DOMAIN B \cup {w, v}
  OBVIOUS
<1>5. [e \in DOMAIN B \cup {v, w} |-> n0(e) + one(e, v) + one(e, w)]
        = [e \in DOMAIN B \cup {w, v} |-> n0(e) + one(e, w) + one(e, v)]
  BY <1>3, <1>4
<1>6. /\ With(With(B, v), w) = [e \in DOMAIN B \cup {v, w} |-> n0(e) + one(e, v) + one(e, w)]
      /\ With(With(B, w), v) = [e \in DOMAIN B \cup {w, v} |-> n0(e) + one(e, w) + one(e, v)]
  BY <1>2
<1> QED BY <1>5, <1>6

(* swap() between two words that are counted, as in downHeapQ. *)
LEMMA BagOfSwap ==
  ASSUME NEW b, NEW c, NEW W, IsFiniteSet(W), NEW j \in W, NEW k \in W, j # k,
         c[k] = b[j], c[j] = b[k], \A i \in W \ {j, k} : c[i] = b[i]
  PROVE  BagOf(c, W) = BagOf(b, W)
<1> DEFINE V == W \ {j, k}
<1>1. IsFiniteSet(V) /\ IsFiniteSet(V \cup {j})
  BY FS_Subset, FS_AddElement
<1>2. W = (V \cup {j}) \cup {k} /\ j \notin V /\ k \notin V \cup {j}
  OBVIOUS
<1>3. BagOf(b, V) = BagOf(c, V)
  BY BagOfSame
<1> HIDE DEF V
<1>4. BagOf(b, W) = With(With(BagOf(b, V), b[j]), b[k])
  BY <1>1, <1>2, BagOfAdd
<1>5. BagOf(c, W) = With(With(BagOf(b, V), b[k]), b[j])
  <2>1. BagOf(c, V \cup {j}) = With(BagOf(c, V), c[j])
    BY <1>1, <1>2, BagOfAdd
  <2>2. BagOf(c, (V \cup {j}) \cup {k}) = With(BagOf(c, V \cup {j}), c[k])
    BY <1>1, <1>2, BagOfAdd
  <2> QED BY <1>2, <1>3, <2>1, <2>2
<1>6. \A v \in DOMAIN BagOf(b, V) : BagOf(b, V)[v] \in Nat
  BY <1>1, BagOfType
<1> QED BY <1>4, <1>5, <1>6, WithCommutes

(* Removing what was added. *)
LEMMA LessWith ==
  ASSUME NEW b, NEW W, NEW v, IsFiniteSet(W)
  PROVE  LET C == With(BagOf(b, W), v)
         IN  Less(C, v) = BagOf(b, W) /\ v \in DOMAIN C
<1> DEFINE B == BagOf(b, W)
           C == With(B, v)
           D == [e \in DOMAIN C |-> IF e = v THEN C[e] - 1 ELSE C[e]]
<1>1. B = [e \in DOMAIN B |-> B[e]] /\ \A e \in DOMAIN B : B[e] \in Nat /\ B[e] > 0
  BY BagOfType
<1>2. /\ DOMAIN C = DOMAIN B \cup {v}
      /\ \A e \in DOMAIN C : C[e] = (IF e \in DOMAIN B THEN B[e] ELSE 0) + (IF e = v THEN 1 ELSE 0)
  BY WithIs
<1>3. Less(C, v) = [e \in {d \in DOMAIN C : D[d] > 0} |-> D[e]]
  BY LessIs
<1> HIDE DEF B, C
<1>4. \A e \in DOMAIN C : D[e] = IF e \in DOMAIN B THEN B[e] ELSE 0
  BY <1>1, <1>2
<1> HIDE DEF D
<1>5. {d \in DOMAIN C : D[d] > 0} = DOMAIN B
  <2>1. ASSUME NEW e \in DOMAIN C PROVE D[e] > 0 <=> e \in DOMAIN B
    <3>1. CASE e \in DOMAIN B
      BY <1>1, <1>4, <3>1
    <3>2. CASE e \notin DOMAIN B
      BY <1>4, <3>2
    <3> QED BY <3>1, <3>2
  <2> QED BY <1>2, <2>1
<1>6. Less(C, v) = B
  BY <1>1, <1>2, <1>3, <1>4, <1>5
<1> QED BY <1>2, <1>6 DEF B, C

(* The number of values in the bag. *)
LEMMA BagOfSize ==
  ASSUME NEW b, NEW W, IsFiniteSet(W)
  PROVE  priority!BagCardinality(BagOf(b, W)) = Cardinality(W)
<1> DEFINE B == BagOf(b, W)
           D == DOMAIN B
           In(S) == {i \in W : b[i] \in S}
           Sums(g) == g = [S \in SUBSET D |->
                             LET elt == CHOOSE e \in S : TRUE
                             IN  IF S = {} THEN 0 ELSE B[elt] + g[S \ {elt}]]
           h == CHOOSE g : Sums(g)
           c == [S \in SUBSET D |-> Cardinality(In(S))]
<1>1. priority!BagCardinality(B) = h[D]
  BY Zenon DEF priority!BagCardinality
<1>2. \A S : IsFiniteSet(In(S)) /\ Cardinality(In(S)) \in Nat
  BY FS_Subset, FS_CardinalityType, Zenon
<1>3. ASSUME NEW S \in SUBSET D, NEW e \in S
      PROVE  Cardinality(In(S)) = B[e] + Cardinality(In(S \ {e}))
  <2> DEFINE E == {i \in W : b[i] = e}
             R == In(S \ {e})
  <2>1. B[e] = Cardinality(E)
    BY Zenon DEF BagOf
  <2>2. In(S) = E \cup R /\ E \cap R = {}
    OBVIOUS
  <2>3. IsFiniteSet(E) /\ IsFiniteSet(R)
    BY FS_Subset, Zenon
  <2>4. Cardinality(E) \in Nat /\ Cardinality(R) \in Nat
    BY <2>3, FS_CardinalityType, Zenon
  <2> HIDE DEF E, R, In, B
  <2>5. Cardinality(E \cup R) = Cardinality(E) + Cardinality(R) - Cardinality(E \cap R)
    BY <2>3, FS_Union, Zenon
  <2>6. Cardinality(E \cap R) = 0
    BY <2>2, FS_EmptySet, Zenon
  <2>7. Cardinality(E \cup R) = Cardinality(E) + Cardinality(R)
    BY <2>4, <2>5, <2>6
  <2> QED BY <2>1, <2>2, <2>7 DEF R
<1>4. In({}) = {} /\ Cardinality(In({})) = 0
  <2>1. In({}) = {}
    OBVIOUS
  <2> QED BY <2>1, FS_EmptySet, Zenon
<1> HIDE DEF B, In
<1>5. Sums(c)
  <2> SUFFICES ASSUME NEW S \in SUBSET D
               PROVE  Cardinality(In(S)) = LET elt == CHOOSE e \in S : TRUE
                                           IN  IF S = {} THEN 0 ELSE B[elt] + c[S \ {elt}]
    BY Zenon
  <2>1. CASE S = {}
    BY <1>4, <2>1
  <2>2. CASE S # {}
    <3> DEFINE e == CHOOSE y \in S : TRUE
    <3>1. e \in S
      BY <2>2, Zenon
    <3> HIDE DEF e
    <3>2. c[S \ {e}] = Cardinality(In(S \ {e}))
      OBVIOUS
    <3> QED BY <1>3, <2>2, <3>1, <3>2, Zenon DEF e
  <2> QED BY <2>1, <2>2
<1>6. Sums(h)
  BY <1>5, Zenon
<1> HIDE DEF h
<1>7. ASSUME NEW S \in SUBSET D
      PROVE  IF S = {} THEN h[S] = 0 ELSE \E e \in S : h[S] = B[e] + h[S \ {e}]
  <2> DEFINE e == CHOOSE y \in S : TRUE
  <2>1. h[S] = IF S = {} THEN 0 ELSE B[e] + h[S \ {e}]
    BY <1>6, Zenon
  <2>2. S # {} => e \in S
    BY Zenon
  <2> QED BY <2>1, <2>2, Zenon
<1> DEFINE P == {k \in Nat : \A S \in SUBSET D : IsFiniteSet(S) /\ Cardinality(S) = k
                                               => h[S] = Cardinality(In(S))}
<1>8. 0 \in P
  BY <1>4, <1>7, FS_EmptySet
<1>9. ASSUME NEW k \in Nat, k \in P PROVE k + 1 \in P
  <2> SUFFICES ASSUME NEW S \in SUBSET D, IsFiniteSet(S), Cardinality(S) = k + 1
               PROVE  h[S] = Cardinality(In(S))
    OBVIOUS
  <2>1. S # {}
    BY FS_EmptySet
  <2>2. PICK e \in S : h[S] = B[e] + h[S \ {e}]
    BY <1>7, <2>1
  <2>3. IsFiniteSet(S \ {e}) /\ Cardinality(S \ {e}) = k
    <3>1. IsFiniteSet(S \ {e}) /\ Cardinality(S \ {e}) = Cardinality(S) - 1
      BY FS_RemoveElement, Zenon
    <3> QED BY <3>1
  <2>4. h[S \ {e}] = Cardinality(In(S \ {e}))
    BY <1>9, <2>3
  <2> QED BY <1>3, <2>2, <2>4
<1>10. Nat \subseteq P
  <2> HIDE DEF P
  <2> QED BY <1>8, <1>9, NatSetInduction, Zenon
<1>11. IsFiniteSet(D) /\ In(D) = W
  <2>1. D = {b[i] : i \in W}
    BY DEF B, BagOf
  <2>2. IsFiniteSet({b[i] : i \in W})
    <3> DEFINE f == [i \in W |-> b[i]]
    <3>1. f \in Surjection(W, {b[i] : i \in W})
      BY DEF Surjection
    <3> QED BY <3>1, FS_Surjection, Zenon
  <2> QED BY <2>1, <2>2 DEF In
<1>12. h[D] = Cardinality(W)
  BY <1>10, <1>11, FS_CardinalityType
<1> QED BY <1>1, <1>12 DEF B
-----------------------------------------------------------------------------
(* No value is greater than the root's. *)
LEMMA GreatestAtRoot ==
  ASSUME HeapAssumption, TypeOK, HeapOrdered, pc = "idle", NEW i \in 0..(n - 1)
  PROVE  buf[i] <= buf[0]
<1> DEFINE S == {k \in Nat : \A j \in 0..k : j < n => buf[j] <= buf[0]}
<1>1. n \in Nat /\ \A j \in 0..(n - 1) : buf[j] \in Nat
  BY DEF HeapAssumption, TypeOK, Words
<1>2. 0 \in S
  BY <1>1
<1>3. ASSUME NEW k \in Nat, k \in S PROVE k + 1 \in S
  <2> SUFFICES ASSUME k + 1 < n PROVE buf[k + 1] <= buf[0]
    BY <1>1, <1>3
  <2>1. /\ upIndex(k + 1) \in 0..k /\ upIndex(k + 1) < n
        /\ buf[k + 1] <= buf[upIndex(k + 1)]
    BY <1>1, Parent DEF HeapOrdered
  <2>2. buf[upIndex(k + 1)] <= buf[0]
    BY <1>3, <2>1
  <2> QED BY <1>1, <2>1, <2>2
<1>4. Nat \subseteq S
  <2> HIDE DEF S
  <2> QED BY <1>2, <1>3, NatSetInduction, Zenon
<1>5. i \in S /\ i \in 0..i /\ i < n
  BY <1>1, <1>4
<1> QED BY <1>5

(* The values of the heap are a bag of words, and each word is in memory. *)
LEMMA HeldWords ==
  ASSUME HeapAssumption, HeapInv
  PROVE  /\ held = BagOf(buf, heldWords) /\ held' = BagOf(buf', heldWords')
         /\ n \in Nat /\ start \in Nat /\ IsFiniteSet(heldWords)
<1>1. held = BagOf(buf, heldWords) /\ held' = BagOf(buf', heldWords')
  BY Zenon DEF held, BagOf
<1>2. n \in Nat /\ start \in Nat
  BY DEF HeapAssumption, HeapInv, TypeOK, Words
<1>3. IsFiniteSet(0..n) /\ heldWords \in SUBSET (0..n)
  BY <1>2, FS_Interval DEF heldWords
<1> QED BY <1>1, <1>2, <1>3, FS_Subset, Zenon

(* An empty heap is the empty bag. *)
LEMMA InitRefines == ASSUME HeapAssumption PROVE Init => priority!Init
<1> SUFFICES ASSUME Init PROVE priority!Init
  OBVIOUS
<1>1. heldWords = {} /\ x = 0
  BY DEF Init, newHeapQ, heldWords
<1>2. {buf[i] : i \in heldWords} = {}
  BY <1>1
<1>3. held = [v \in {} |-> 1]
  BY <1>2 DEF held
<1> QED BY <1>1, <1>3 DEF priority!Init, priority!EmptyBag, priority!SetToBag

(* enqueueHeapQ() writes a word that is not counted yet. *)
LEMMA EnqueueRefines ==
  ASSUME HeapAssumption, HeapInv, NEW v \in Values, enqueueHeapQ(v)
  PROVE  UNCHANGED <<held, x>>
<1>1. pc = "idle" /\ pc' = "up" /\ start' = n /\ n' = n /\ x' = x
      /\ buf' = [buf EXCEPT ![n] = v]
  BY DEF enqueueHeapQ
<1>2. heldWords = 0..(n - 1) /\ heldWords' = heldWords
  BY <1>1, HeldWords DEF heldWords
<1>3. \A i \in heldWords : buf'[i] = buf[i]
  BY <1>1, <1>2, HeldWords DEF HeapAssumption, HeapInv, TypeOK, Words
<1>4. BagOf(buf', heldWords) = BagOf(buf, heldWords)
  BY <1>3, BagOfSame
<1> QED BY <1>1, <1>2, <1>4, HeldWords

(* upHeapQ() moves a counted value to where the new one was. *)
LEMMA UpRefines == ASSUME HeapAssumption, HeapInv, upHeapQ PROVE UNCHANGED <<held, x>>
<1> DEFINE u == upIndex(start)
<1>1. /\ pc = "up" /\ pc' = "up" /\ start > 0 /\ start' = u /\ n' = n /\ x' = x
      /\ buf' = [buf EXCEPT ![u] = buf[start], ![start] = buf[u]]
  BY DEF upHeapQ, swap
<1>2. /\ n \in Nat /\ start \in 0..n /\ u \in 0..n /\ u # start
      /\ \A i \in 0..n : i \in DOMAIN buf
  BY <1>1, HeldWords, Parent DEF HeapAssumption, HeapInv, TypeOK, Words, SiftsUp
<1> HIDE DEF u
<1>3. /\ heldWords = {i \in 0..n : i # start} /\ heldWords' = {i \in 0..n : i # u}
  BY <1>1 DEF heldWords
<1>4. heldWords' = (heldWords \ {u}) \cup {start} /\ u \in heldWords /\ start \notin heldWords
  BY <1>2, <1>3
<1>5. buf'[start] = buf[u] /\ \A i \in heldWords \ {u} : buf'[i] = buf[i]
  BY <1>1, <1>2, <1>3
<1>6. BagOf(buf', (heldWords \ {u}) \cup {start}) = BagOf(buf, heldWords)
  BY <1>4, <1>5, BagOfMove, HeldWords
<1> QED BY <1>1, <1>4, <1>6, HeldWords

(* enqueueHeapQ() counts the new value: the abstract Enqueue. *)
LEMMA UpReturnsRefines == ASSUME HeapAssumption, HeapInv, upReturns PROVE priority!Enqueue
<1>1. /\ pc = "up" /\ pc' = "idle" /\ n' = n + 1 /\ x' = x /\ buf' = buf
      /\ n < size /\ start \in 0..n /\ buf[start] \in Values
  BY DEF upReturns, HeapInv, SiftsUp
<1>2. /\ heldWords = (0..n) \ {start} /\ heldWords' = heldWords \cup {start}
  BY <1>1, HeldWords DEF heldWords
<1>3. BagOf(buf, heldWords \cup {start}) = With(BagOf(buf, heldWords), buf[start])
  BY <1>2, BagOfAdd, HeldWords
<1>4. Cardinality(heldWords) = n
  <2>1. IsFiniteSet(0..n) /\ Cardinality(0..n) = n + 1
    BY HeldWords, FS_Interval
  <2>2. Cardinality((0..n) \ {start}) = Cardinality(0..n) - 1
    BY <1>1, <2>1, FS_RemoveElement, Zenon
  <2> QED BY <1>2, <2>1, <2>2, HeldWords
<1>5. priority!BagCardinality(held) < size
  BY <1>1, <1>4, BagOfSize, HeldWords
<1>6. held' = With(held, buf[start])
  BY <1>1, <1>2, <1>3, HeldWords
<1> QED BY <1>1, <1>5, <1>6 DEF priority!Enqueue, With

(* dequeueHeapQ() takes the root's value, which is the greatest, and moves the
   last one to its word: the abstract Dequeue. *)
LEMMA DequeueRefines ==
  ASSUME HeapAssumption, Least >= 1, HeapInv, dequeueHeapQ PROVE priority!Dequeue
<1> DEFINE W == 1..(n - 1)
<1>1. /\ pc = "idle" /\ n \in Nat /\ n >= 1 /\ n' = n - 1 /\ pc' = "down" /\ x' = buf[0]
      /\ buf' = [buf EXCEPT ![0] = buf[n - 1]]
      /\ \A i \in 0..(n - 1) : i \in DOMAIN buf
  <2>1. n \in Nat /\ n >= 1
    BY HeldWords DEF HeapAssumption, dequeueHeapQ
  <2>2. \A i \in 0..(n - 1) : i \in DOMAIN buf
    BY <2>1 DEF HeapAssumption, HeapInv, TypeOK, Words
  <2>3. n # 0 /\ n' = n - 1
    BY <2>1 DEF dequeueHeapQ, lessOne
  <2> QED BY <2>1, <2>2, <2>3 DEF dequeueHeapQ
<1>2. heldWords = W \cup {0} /\ heldWords' = 0..(n - 2) /\ 0 \notin W
  BY <1>1 DEF heldWords
<1>3. IsFiniteSet(W)
  <2>1. 1 \in Int /\ n - 1 \in Int
    BY <1>1
  <2> QED BY <2>1, FS_Interval, Zenon
<1>4. BagOf(buf', heldWords') = BagOf(buf, W)
  <2>1. CASE n = 1
    <3>1. heldWords' = {} /\ W = {}
      BY <1>2, <2>1
    <3> QED BY <3>1, BagOfSame
  <2>2. CASE n # 1
    <3>1. heldWords' = (W \ {n - 1}) \cup {0} /\ n - 1 \in W
      BY <1>1, <1>2, <2>2
    <3>2. buf'[0] = buf[n - 1] /\ \A i \in W \ {n - 1} : buf'[i] = buf[i]
      BY <1>1
    <3> HIDE DEF W
    <3>3. 0 \notin W
      BY <1>2, Zenon
    <3>4. BagOf(buf', (W \ {n - 1}) \cup {0}) = BagOf(buf, W)
      BY <1>3, <3>1, <3>2, <3>3, BagOfMove
    <3> QED BY <3>1, <3>4, Zenon
  <2> QED BY <2>1, <2>2
<1> HIDE DEF W
<1>5. BagOf(buf, W \cup {0}) = With(BagOf(buf, W), buf[0])
  BY <1>2, <1>3, BagOfAdd
<1>6. held' = Less(held, buf[0]) /\ buf[0] \in priority!BagToSet(held)
  BY <1>2, <1>3, <1>4, <1>5, LessWith, HeldWords DEF priority!BagToSet
<1>7. \A w \in priority!BagToSet(held) : w <= buf[0]
  <2>1. priority!BagToSet(held) = {buf[i] : i \in 0..(n - 1)}
    BY <1>1 DEF priority!BagToSet, held, heldWords
  <2> QED BY <1>1, <2>1, GreatestAtRoot DEF HeapInv
<1> QED BY <1>1, <1>6, <1>7 DEF priority!Dequeue, Less

(* downHeapQ() swaps two counted values. *)
LEMMA CountedDownRefines ==
  ASSUME HeapAssumption, HeapInv, SiftsCounted, downHeapQ PROVE UNCHANGED <<held, x>>
<1> DEFINE m == maxIndex
<1>1. /\ pc = "down" /\ pc' = "down" /\ left <= bottom /\ n' = n /\ x' = x
      /\ buf' = [buf EXCEPT ![start] = buf[m], ![m] = buf[start]]
  BY DEF downHeapQ, swap, Ordered
<1>2. /\ n \in Nat /\ start \in 0..(n - 1) /\ bottom = n - 1
      /\ \A i \in 0..(n - 1) : i \in DOMAIN buf
  BY <1>1, HeldWords DEF HeapAssumption, HeapInv, TypeOK, Words, SiftsCounted
<1>3. m \in 0..(n - 1) /\ m # start
  BY <1>1, <1>2 DEF maxIndex, left
<1> HIDE DEF m
<1>4. heldWords = 0..(n - 1) /\ heldWords' = 0..(n - 1)
  BY <1>1 DEF heldWords
<1>5. buf'[start] = buf[m] /\ buf'[m] = buf[start] /\ \A i \in heldWords \ {start, m} : buf'[i] = buf[i]
  BY <1>1, <1>2, <1>3, <1>4
<1>6. BagOf(buf', heldWords) = BagOf(buf, heldWords)
  BY <1>2, <1>3, <1>4, <1>5, BagOfSwap, HeldWords
<1> QED BY <1>1, <1>4, <1>6, HeldWords

(* What downHeapQ() moves after the last value was taken is not counted. *)
LEMMA DownRefines == ASSUME HeapAssumption, HeapInv, downHeapQ PROVE UNCHANGED <<held, x>>
<1>1. CASE SiftsCounted
  BY <1>1, CountedDownRefines
<1>2. CASE n = 0
  <2>1. n' = n /\ pc = "down" /\ pc' = "down" /\ x' = x
    BY DEF downHeapQ
  <2>2. heldWords = {} /\ heldWords' = {}
    BY <1>2, <2>1 DEF heldWords
  <2>3. BagOf(buf', {}) = BagOf(buf, {})
    BY BagOfSame
  <2> QED BY <2>1, <2>2, <2>3, HeldWords
<1> QED BY <1>1, <1>2 DEF HeapInv, SiftsDown, downHeapQ

(* Each step of the heap is one of the priority queue, or none. *)
LEMMA NextRefines ==
  ASSUME HeapAssumption, Least >= 1
  PROVE  HeapInv /\ [Next]_vars => [priority!Next]_<<held, x>>
<1> SUFFICES ASSUME HeapInv, [Next]_vars PROVE [priority!Next]_<<held, x>>
  OBVIOUS
<1>1. CASE downReturns
  BY <1>1 DEF downReturns, held, heldWords
<1>2. CASE UNCHANGED vars
  BY <1>2 DEF vars, held, heldWords
<1> QED
  BY <1>1, <1>2, EnqueueRefines, UpRefines, UpReturnsRefines, DequeueRefines, DownRefines
  DEF Next, priority!Next

(* enqueueHeapQ() and dequeueHeapQ() are a priority queue: nothing is lost,
   invented or duplicated by the swaps, and the greatest value comes out first. *)
THEOREM HeapImplementsPriority ==
  ASSUME HeapAssumption, Least >= 1
  PROVE  Spec => ImplementsPriority
<1> QED
  BY InitHeapInv, NextHeapInv, InitRefines, NextRefines, PTL
  DEF Spec, ImplementsPriority, priority!Spec
=============================================================================
