---------------------------- MODULE MachineProofs ---------------------------
(***************************************************************************)
(* Proofs about what interrupts and processes share: the run queue and ps, *)
(* critical regions, and the alarms of sleepers.                           *)
(***************************************************************************)
EXTENDS RunQueue, CriticalRegion, Alarms, FiniteSetTheorems, WellFoundedInduction, TLAPS

(***************************************************************************)
(* The run queue in memory, for any number of Procs.                       *)
(*                                                                         *)
(* The pointers of procRunQ form a ring through a sequence of Procs: QInv  *)
(* says so, and that the Procs on it are those alive but the running one,  *)
(* that a scan stands on an entry with the next one saved, and that ps     *)
(* stands on nothing it runs itself.  follow() finds the sequence again    *)
(* (FollowRing, by induction), which gives QueueIsSound and CursorOnQueue; *)
(* every step appends to it, takes one out, or leaves it (Moves), which    *)
(* gives ImplementsQueue.  With nobody waiting or dying the ring only      *)
(* turns (BusyInv), and ps, when it runs, finds it as it left it.          *)
(***************************************************************************)

(* The node that follows i others from the list head, when the entries of the
   list are q; the list head is before the first and behind the last. *)
nth(q, i) == IF i \in 1..Len(q) THEN q[i] ELSE procRunQ

Distinct(q) == \A i, j \in 1..Len(q) : q[i] = q[j] => i = j

(* The pointers f lead from the list head through q and back. *)
Leads(f, q) == \A i \in 0..Len(q) : f[nth(q, i)] = nth(q, i + 1)

Lists == [next : [Nodes -> Nodes \cup {Null}], prev : [Nodes -> Nodes \cup {Null}]]

(* A list in memory whose entries are q. *)
Ring(l, q) ==
  /\ q \in Seq(Procs) /\ Distinct(q)
  /\ l \in Lists /\ Leads(l.next, q)
  /\ \A i \in 0..Len(q) : l.prev[nth(q, i + 1)] = nth(q, i)
-----------------------------------------------------------------------------
(* Induction over the natural numbers, with a set for what holds. *)
LEMMA NatSetInduction ==
  ASSUME NEW S, 0 \in S, \A m \in Nat : m \in S => m + 1 \in S
  PROVE  Nat \subseteq S
<1> SUFFICES ASSUME Nat \ S # {} PROVE FALSE
  OBVIOUS
<1>1. PICK k \in Nat \ S : \A y \in Nat \ S : ~ (<<y, k>> \in OpToRel(<, Nat))
  BY WFMin, NatLessThanWellFounded, Zenon
<1>2. \A y \in Nat \ S : ~ (y < k)
  BY <1>1, Zenon DEF OpToRel
<1>3. k # 0 /\ k - 1 \in Nat /\ k - 1 < k
  BY k \in Nat \ S
<1> QED BY <1>2, <1>3

(* A Proc is on the queue at most once, so that the queue is no longer than
   procTable. *)
LEMMA QueueIsShort ==
  ASSUME RunQueueAssumption, NEW q \in Seq(Procs), Distinct(q)
  PROVE  Len(q) \in Nat /\ Len(q) <= MaxProc
<1>1. Len(q) \in Nat /\ MaxProc \in Nat
  BY DEF RunQueueAssumption
<1>2. q \in Injection(1..Len(q), 1..MaxProc)
  BY DEF Injection, IsInjective, Distinct, Procs
<1>3. IsFiniteSet(1..MaxProc) /\ Cardinality(1..MaxProc) = MaxProc
  BY <1>1, FS_Interval, SMTT(30)
<1>4. Cardinality(1..Len(q)) = Len(q)
  <2>1. \A a, b \in Int : Cardinality(a..b) = IF a > b THEN 0 ELSE b - a + 1
    BY FS_Interval, Zenon
  <2>2. 1 \in Int /\ Len(q) \in Int
    BY <1>1
  <2>3. Cardinality(1..Len(q)) = IF 1 > Len(q) THEN 0 ELSE Len(q) - 1 + 1
    BY <2>1, <2>2, Zenon
  <2> QED BY <1>1, <2>3
<1>5. Cardinality(1..Len(q)) <= Cardinality(1..MaxProc)
  BY <1>2, <1>3, FS_Injection, Zenon
<1> QED BY <1>1, <1>3, <1>4, <1>5

(* The nodes of a list. *)
LEMMA NthNode ==
  ASSUME RunQueueAssumption, NEW q \in Seq(Procs)
  PROVE  /\ Len(q) \in Nat
         /\ \A i \in Int : nth(q, i) \in Nodes /\ nth(q, i) # Null
         /\ \A i \in 1..Len(q) : nth(q, i) = q[i] /\ q[i] \in Procs /\ q[i] # procRunQ
         /\ nth(q, 0) = procRunQ /\ nth(q, Len(q) + 1) = procRunQ
<1>1. Len(q) \in Nat /\ MaxProc \in Nat
  BY DEF RunQueueAssumption
<1>2. \A i \in 1..Len(q) : q[i] \in Procs
  OBVIOUS
<1>3. \A p \in Procs : p # procRunQ /\ p # Null /\ p \in Nodes
  BY <1>1 DEF Procs, procRunQ, Null, Nodes
<1>4. procRunQ \in Nodes /\ procRunQ # Null
  BY DEF procRunQ, Null, Nodes
<1>5. ASSUME NEW i \in Int PROVE nth(q, i) \in Nodes /\ nth(q, i) # Null
  BY <1>2, <1>3, <1>4 DEF nth
<1>6. \A i \in 1..Len(q) : nth(q, i) = q[i]
  BY DEF nth
<1>7. nth(q, 0) = procRunQ /\ nth(q, Len(q) + 1) = procRunQ
  BY <1>1 DEF nth
<1> QED BY <1>1, <1>2, <1>3, <1>5, <1>6, <1>7

(* Following pointers that lead through q yields q. *)
LEMMA FollowRing ==
  ASSUME RunQueueAssumption, NEW f, NEW q \in Seq(Procs), Distinct(q), Leads(f, q)
  PROVE  follow(f) = q
<1> DEFINE M == MaxProc + 1
           n == Len(q)
           unrolled(g, m) == [i \in 0..m |-> IF i = 0 THEN procRunQ
                                        ELSE IF g[i - 1] = Null THEN Null ELSE f[g[i - 1]]]
           at == CHOOSE g : g = unrolled(g, M)
<1>1. n \in Nat /\ n <= MaxProc /\ MaxProc \in Nat /\ M \in Nat
  BY QueueIsShort DEF RunQueueAssumption
<1>2. \E g : g = unrolled(g, M)
  <2> DEFINE S == {m \in Nat : \E g : g = unrolled(g, m)}
  <2>1. 0 \in S
    <3>1. [i \in 0..0 |-> procRunQ] = unrolled([i \in 0..0 |-> procRunQ], 0)
      OBVIOUS
    <3> QED BY <3>1
  <2>2. ASSUME NEW m \in Nat, m \in S PROVE m + 1 \in S
    <3>1. PICK g : g = unrolled(g, m)
      BY <2>2
    <3> DEFINE h == [i \in 0..(m + 1) |->
                       IF i <= m THEN g[i] ELSE IF g[m] = Null THEN Null ELSE f[g[m]]]
    <3>2. \A i \in 0..m : h[i] = g[i]
      OBVIOUS
    <3>3. \A i \in 0..(m + 1) :
            h[i] = IF i = 0 THEN procRunQ ELSE IF h[i - 1] = Null THEN Null ELSE f[h[i - 1]]
      <4> SUFFICES ASSUME NEW i \in 0..(m + 1)
                   PROVE  h[i] = IF i = 0 THEN procRunQ
                                 ELSE IF h[i - 1] = Null THEN Null ELSE f[h[i - 1]]
        OBVIOUS
      <4>1. CASE i = m + 1
        <5>1. i # 0 /\ i - 1 = m /\ m \in 0..m /\ ~(i <= m)
          BY <4>1
        <5>2. h[i] = IF g[m] = Null THEN Null ELSE f[g[m]]
          BY <5>1
        <5>3. h[i - 1] = g[m]
          BY <3>2, <5>1
        <5> HIDE DEF h
        <5> QED BY <5>1, <5>2, <5>3
      <4>2. CASE i # m + 1
        <5>1. i \in 0..m /\ (i # 0 => i - 1 \in 0..m)
          BY <4>2
        <5>2. g[i] = IF i = 0 THEN procRunQ ELSE IF g[i - 1] = Null THEN Null ELSE f[g[i - 1]]
          BY <3>1, <5>1
        <5> QED BY <3>2, <5>1, <5>2
      <4> QED BY <4>1, <4>2
    <3>4. h = [i \in 0..(m + 1) |-> h[i]]
      OBVIOUS
    <3> HIDE DEF h
    <3>5. h = unrolled(h, m + 1)
      BY <3>3, <3>4
    <3>6. m + 1 \in Nat
      OBVIOUS
    <3> HIDE DEF unrolled
    <3> QED BY <3>5, <3>6
  <2>3. Nat \subseteq S
    <3> HIDE DEF S
    <3> QED BY <2>1, <2>2, NatSetInduction, Zenon
  <2> QED BY <1>1, <2>3
<1>3. at = unrolled(at, M)
  <2> HIDE DEF unrolled, M
  <2> QED BY <1>2, Zenon
<1>4. \A i \in 0..M : at[i] = IF i = 0 THEN procRunQ
                               ELSE IF at[i - 1] = Null THEN Null ELSE f[at[i - 1]]
  <2> HIDE DEF at, M
  <2> QED BY <1>3
<1>5. follow(f) = LET back == {i \in 1..M : at[i] = procRunQ}
                  IN  IF back = {} THEN <<procRunQ>>
                      ELSE LET k == CHOOSE i \in back : \A j \in back : i <= j
                           IN  [i \in 1..(k - 1) |-> at[i]]
  BY DEF follow
<1> HIDE DEF at, unrolled
<1>6. \A i \in 0..(n + 1) : at[i] = nth(q, i)
  <2> DEFINE S == {i \in Nat : i <= n + 1 => at[i] = nth(q, i)}
  <2>1. 0 \in S
    BY <1>1, <1>4, NthNode
  <2>2. ASSUME NEW i \in Nat, i \in S PROVE i + 1 \in S
    <3> SUFFICES ASSUME i + 1 <= n + 1 PROVE at[i + 1] = nth(q, i + 1)
      OBVIOUS
    <3>1. at[i] = nth(q, i) /\ i \in 0..n /\ i + 1 \in 0..M /\ i + 1 # 0 /\ (i + 1) - 1 = i
      BY <1>1, <2>2
    <3>2. nth(q, i) # Null /\ f[nth(q, i)] = nth(q, i + 1)
      BY <3>1, NthNode DEF Leads
    <3>3. at[i + 1] = IF at[i] = Null THEN Null ELSE f[at[i]]
      BY <1>4, <3>1
    <3> QED BY <3>1, <3>2, <3>3
  <2>3. Nat \subseteq S
    <3> HIDE DEF S
    <3> QED BY <2>1, <2>2, NatSetInduction, Zenon
  <2> QED BY <1>1, <2>3
<1> DEFINE back == {i \in 1..M : at[i] = procRunQ}
           k == CHOOSE i \in back : \A j \in back : i <= j
<1>7. n + 1 \in back /\ \A j \in back : n + 1 <= j
  <2>1. at[n + 1] = procRunQ /\ \A i \in 1..n : at[i] # procRunQ
    BY <1>1, <1>6, NthNode
  <2> QED BY <1>1, <2>1
<1>8. k = n + 1
  <2>1. \A j \in back : j \in Int
    OBVIOUS
  <2>2. k \in back /\ \A j \in back : k <= j
    <3> HIDE DEF back
    <3> QED BY <1>7
  <2> HIDE DEF k, back
  <2> QED BY <1>1, <1>7, <2>1, <2>2
<1>9. follow(f) = [i \in 1..(k - 1) |-> at[i]]
  BY <1>5, <1>7
<1> HIDE DEF k
<1>10. follow(f) = [i \in 1..n |-> at[i]]
  BY <1>1, <1>8, <1>9
<1>11. \A i \in 1..n : at[i] = q[i]
  BY <1>1, <1>6, NthNode
<1> QED BY <1>10, <1>11

(* The places of a list are different nodes; the list head has two. *)
LEMMA NthDistinct ==
  ASSUME RunQueueAssumption, NEW q \in Seq(Procs), Distinct(q)
  PROVE  /\ \A i, j \in 0..Len(q) : nth(q, i) = nth(q, j) => i = j
         /\ \A i, j \in 1..(Len(q) + 1) : nth(q, i) = nth(q, j) => i = j
<1>1. /\ Len(q) \in Nat /\ nth(q, 0) = procRunQ /\ nth(q, Len(q) + 1) = procRunQ
      /\ \A i \in 1..Len(q) : nth(q, i) = q[i] /\ q[i] # procRunQ
  BY NthNode
<1>2. ASSUME NEW i \in 0..Len(q), NEW j \in 0..Len(q), nth(q, i) = nth(q, j) PROVE i = j
  BY <1>1, <1>2 DEF Distinct
<1>3. ASSUME NEW i \in 1..(Len(q) + 1), NEW j \in 1..(Len(q) + 1), nth(q, i) = nth(q, j)
      PROVE  i = j
  BY <1>1, <1>3 DEF Distinct
<1> QED BY <1>2, <1>3

(* The pointers of a list lead through its entries, in both directions. *)
LEMMA RingIsFollowed ==
  ASSUME RunQueueAssumption, NEW l, NEW q, Ring(l, q)
  PROVE  /\ follow(l.next) = q
         /\ follow(l.prev) = [i \in DOMAIN q |-> q[Len(q) + 1 - i]]
<1> DEFINE n == Len(q)
           r == [i \in 1..n |-> q[n + 1 - i]]
<1>1. q \in Seq(Procs) /\ n \in Nat /\ Distinct(q) /\ DOMAIN q = 1..n
  BY DEF Ring
<1>2. follow(l.next) = q
  BY FollowRing DEF Ring
<1>3. r \in Seq(Procs) /\ Len(r) = n
  <2>1. \A i \in 1..n : n + 1 - i \in 1..n
    BY <1>1
  <2>2. r \in [1..n -> Procs]
    BY <1>1, <2>1
  <2> HIDE DEF n
  <2> QED BY <1>1, <2>2
<1>4. Distinct(r)
  <2> SUFFICES ASSUME NEW i \in 1..n, NEW j \in 1..n, r[i] = r[j] PROVE i = j
    BY <1>3 DEF Distinct
  <2>1. n + 1 - i \in 1..n /\ n + 1 - j \in 1..n /\ q[n + 1 - i] = q[n + 1 - j]
    BY <1>1
  <2>2. n + 1 - i = n + 1 - j
    BY <1>1, <2>1 DEF Distinct
  <2> QED BY <1>1, <2>2
<1>5. \A i \in 0..(n + 1) : nth(r, i) = nth(q, n + 1 - i)
  BY <1>1, <1>3 DEF nth
<1> HIDE DEF r
<1>6. Leads(l.prev, r)
  <2> SUFFICES ASSUME NEW i \in 0..n PROVE l.prev[nth(r, i)] = nth(r, i + 1)
    BY <1>3 DEF Leads
  <2>1. /\ i \in 0..(n + 1) /\ i + 1 \in 0..(n + 1) /\ n - i \in 0..n
        /\ n + 1 - i = (n - i) + 1 /\ n + 1 - (i + 1) = n - i
    <3>1. n \in Nat /\ i \in 0..n
      BY <1>1
    <3> HIDE DEF n
    <3> QED BY <3>1
  <2>2. l.prev[nth(q, (n - i) + 1)] = nth(q, n - i)
    BY <2>1 DEF Ring
  <2> QED BY <1>5, <2>1, <2>2
<1>7. follow(l.prev) = r
  BY <1>3, <1>4, <1>6, FollowRing
<1> QED BY <1>1, <1>2, <1>7 DEF r
-----------------------------------------------------------------------------
(* listAddBefore() the list head appends: only pointers of the new entry, of
   the last one and of the list head change. *)
LEMMA RingAppend ==
  ASSUME RunQueueAssumption, NEW l, NEW q, Ring(l, q),
         NEW p \in Procs, \A i \in 1..Len(q) : q[i] # p
  PROVE  LET m == listAddBefore(l, p, procRunQ) IN
         /\ Ring(m, Append(q, p))
         /\ \A x \in Procs : x # p /\ (\A i \in 1..Len(q) : q[i] # x) => m.next[x] = l.next[x]
<1> DEFINE n == Len(q)
           a == Append(q, p)
           m == listAddBefore(l, p, procRunQ)
           last == nth(q, n)
<1>1. /\ q \in Seq(Procs) /\ n \in Nat /\ Distinct(q)
      /\ l \in Lists
      /\ \A i \in 0..n : l.next[nth(q, i)] = nth(q, i + 1) /\ l.prev[nth(q, i + 1)] = nth(q, i)
  BY DEF Ring, Leads
<1>2. /\ \A i \in 0..(n + 1) : nth(q, i) \in Nodes
      /\ \A i \in 1..n : nth(q, i) = q[i]
      /\ nth(q, 0) = procRunQ /\ nth(q, n + 1) = procRunQ
  BY <1>1, NthNode
<1>3. l.prev[procRunQ] = last /\ last \in Nodes /\ procRunQ \in Nodes /\ p \in Nodes /\ p # procRunQ
  BY <1>1, <1>2 DEF Nodes, Procs, procRunQ, RunQueueAssumption
<1>4. last # p /\ \A i \in 0..(n + 1) : nth(q, i) # p
  <2>1. ASSUME NEW i \in 0..(n + 1) PROVE nth(q, i) # p
    BY <1>3 DEF nth
  <2> QED BY <1>1, <2>1
<1>5. /\ m \in Lists
      /\ m.next = [l.next EXCEPT ![p] = procRunQ, ![last] = p]
      /\ m.prev = [l.prev EXCEPT ![procRunQ] = p, ![p] = last]
  BY <1>1, <1>3 DEF listAddBefore, listAdd, Lists
<1> HIDE DEF m, last
<1>6. /\ m.next[p] = procRunQ /\ m.next[last] = p
      /\ \A x \in Nodes : x # p /\ x # last => m.next[x] = l.next[x]
      /\ m.prev[procRunQ] = p /\ m.prev[p] = last
      /\ \A x \in Nodes : x # p /\ x # procRunQ => m.prev[x] = l.prev[x]
  BY <1>1, <1>3, <1>4, <1>5 DEF Lists
<1>7. a \in Seq(Procs) /\ Len(a) = n + 1 /\ (\A i \in 1..n : a[i] = q[i]) /\ a[n + 1] = p
  BY <1>1
<1>8. Distinct(a)
  <2> HIDE DEF a
  <2> SUFFICES ASSUME NEW i \in 1..(n + 1), NEW j \in 1..(n + 1), a[i] = a[j] PROVE i = j
    BY <1>7 DEF Distinct
  <2>1. i \in 1..n \/ i = n + 1
    BY <1>1
  <2>2. j \in 1..n \/ j = n + 1
    BY <1>1
  <2> QED BY <1>1, <1>7, <2>1, <2>2 DEF Distinct
<1> HIDE DEF a
<1>9. /\ \A i \in 0..n : nth(a, i) = nth(q, i)
      /\ nth(a, n + 1) = p /\ nth(a, n + 2) = procRunQ
  BY <1>1, <1>7 DEF nth
<1>10. ASSUME NEW i \in 0..(n + 1)
       PROVE  m.next[nth(a, i)] = nth(a, i + 1) /\ m.prev[nth(a, i + 1)] = nth(a, i)
  <2>1. CASE i < n
    <3>1. nth(q, i) # last /\ nth(q, i) # p
      <4>1. i \in 0..n /\ n \in 0..n /\ i # n
        BY <1>1, <2>1
      <4> QED BY <1>1, <1>4, <4>1, NthDistinct DEF last
    <3>2. nth(q, i + 1) # procRunQ /\ nth(q, i + 1) # p
      <4>1. i + 1 \in 1..(n + 1) /\ n + 1 \in 1..(n + 1) /\ i + 1 # n + 1
        BY <1>1, <2>1
      <4> QED BY <1>1, <1>2, <1>4, <4>1, NthDistinct
    <3>3. /\ i \in 0..n /\ i + 1 \in 0..n /\ nth(a, i) = nth(q, i) /\ nth(a, i + 1) = nth(q, i + 1)
          /\ nth(q, i) \in Nodes /\ nth(q, i + 1) \in Nodes
      BY <1>1, <1>2, <1>9, <2>1
    <3> QED BY <1>1, <1>6, <3>1, <3>2, <3>3
  <2>2. CASE i = n
    <3>1. nth(a, n) = last /\ nth(a, n + 1) = p
      BY <1>1, <1>9 DEF last
    <3> QED BY <1>6, <2>2, <3>1
  <2>3. CASE i = n + 1
    <3>1. i + 1 = n + 2
      BY <1>1, <2>3
    <3> QED BY <1>6, <1>9, <2>3, <3>1
  <2> QED BY <1>1, <2>1, <2>2, <2>3
<1>11. Ring(m, a)
  BY <1>5, <1>7, <1>8, <1>10 DEF Ring, Leads
<1>12. ASSUME NEW x \in Procs, x # p, \A i \in 1..n : q[i] # x PROVE m.next[x] = l.next[x]
  <2>1. x # procRunQ /\ x \in Nodes
    BY DEF Nodes, Procs, procRunQ
  <2>2. last # x
    BY <1>1, <1>2, <1>12, <2>1 DEF last
  <2> QED BY <1>6, <1>12, <2>1, <2>2
<1> QED BY <1>11, <1>12 DEF m, a

(* What is left of the entries when the k-th is taken out. *)
without(q, k) == [i \in 1..(Len(q) - 1) |-> IF i < k THEN q[i] ELSE q[i + 1]]

(* __listUnlink() takes an entry out of the list. *)
LEMMA RingRemove ==
  ASSUME RunQueueAssumption, NEW l, NEW q, Ring(l, q), NEW k \in 1..Len(q), NEW m,
         m \in Lists,
         m.next[nth(q, k - 1)] = nth(q, k + 1), m.prev[nth(q, k + 1)] = nth(q, k - 1),
         \A x \in Nodes : x # q[k] /\ x # nth(q, k - 1) => m.next[x] = l.next[x],
         \A x \in Nodes : x # q[k] /\ x # nth(q, k + 1) => m.prev[x] = l.prev[x]
  PROVE  Ring(m, without(q, k))
<1> DEFINE n == Len(q)
           w == without(q, k)
<1>1. /\ q \in Seq(Procs) /\ n \in Nat /\ Distinct(q) /\ k \in Nat /\ k >= 1 /\ k <= n
      /\ \A i \in 0..n : l.next[nth(q, i)] = nth(q, i + 1) /\ l.prev[nth(q, i + 1)] = nth(q, i)
  BY DEF Ring, Leads
<1>2. /\ \A i \in 0..(n + 1) : nth(q, i) \in Nodes
      /\ \A i \in 1..n : nth(q, i) = q[i] /\ q[i] \in Procs
      /\ nth(q, 0) = procRunQ /\ nth(q, n + 1) = procRunQ
  BY <1>1, NthNode
<1>3. w \in Seq(Procs) /\ Len(w) = n - 1 /\ n - 1 \in Nat
      /\ \A i \in 1..(n - 1) : w[i] = IF i < k THEN q[i] ELSE q[i + 1]
  <2>1. w \in [1..(n - 1) -> Procs] /\ n - 1 \in Nat
    BY <1>1, <1>2 DEF without
  <2>2. \A i \in 1..(n - 1) : w[i] = IF i < k THEN q[i] ELSE q[i + 1]
    BY DEF without
  <2> HIDE DEF w, n
  <2> QED BY <2>1, <2>2
<1> HIDE DEF w
<1>4. Distinct(w)
  <2> SUFFICES ASSUME NEW i \in 1..(n - 1), NEW j \in 1..(n - 1), w[i] = w[j] PROVE i = j
    BY <1>3 DEF Distinct
  <2> DEFINE up(e) == IF e < k THEN e ELSE e + 1
  <2>1. up(i) \in 1..n /\ up(j) \in 1..n
    BY <1>1, <1>3
  <2>2. w[i] = q[up(i)] /\ w[j] = q[up(j)]
    BY <1>3
  <2>3. up(i) = up(j)
    <3>1. \A a, b \in 1..n : q[a] = q[b] => a = b
      BY <1>1 DEF Distinct
    <3>2. q[up(i)] = q[up(j)]
      BY <2>2
    <3> HIDE DEF up, n
    <3> QED BY <2>1, <3>1, <3>2
  <2> QED BY <1>1, <2>3
<1>5. \A i \in 0..n : nth(w, i) = IF i < k THEN nth(q, i) ELSE nth(q, i + 1)
  <2> SUFFICES ASSUME NEW i \in 0..n
               PROVE  nth(w, i) = IF i < k THEN nth(q, i) ELSE nth(q, i + 1)
    OBVIOUS
  <2>1. CASE i = 0
    BY <1>1, <1>2, <1>3, <2>1 DEF nth
  <2>2. CASE i = n
    BY <1>1, <1>2, <1>3, <2>2 DEF nth
  <2>3. CASE i \in 1..(n - 1)
    <3>1. nth(w, i) = w[i] /\ nth(q, i) = q[i] /\ nth(q, i + 1) = q[i + 1]
      BY <1>1, <1>2, <1>3, <2>3 DEF nth
    <3> QED BY <1>3, <2>3, <3>1
  <2> QED BY <1>1, <2>1, <2>2, <2>3
<1>6. /\ \A i, j \in 0..n : nth(q, i) = nth(q, j) => i = j
      /\ \A i, j \in 1..(n + 1) : nth(q, i) = nth(q, j) => i = j
  BY <1>1, NthDistinct
<1>7. ASSUME NEW i \in 0..(n - 1) PROVE m.next[nth(w, i)] = nth(w, i + 1)
  <2>1. CASE i = k - 1
    <3>1. i < k /\ ~(i + 1 < k) /\ (i + 1) + 1 = k + 1 /\ i \in 0..n /\ i + 1 \in 0..n
      BY <1>1, <2>1
    <3> QED BY <1>5, <2>1, <3>1
  <2>2. CASE i < k - 1
    <3>1. i < k /\ i + 1 < k /\ i \in 0..n /\ i + 1 \in 0..n /\ k - 1 \in 0..n /\ k \in 0..n /\ i # k
      BY <1>1, <2>2
    <3>2. nth(q, i) # nth(q, k) /\ nth(q, i) # nth(q, k - 1) /\ nth(q, i) \in Nodes
      BY <1>1, <1>2, <1>6, <2>2, <3>1
    <3>3. nth(q, k) = q[k]
      BY <1>2
    <3> QED BY <1>1, <1>5, <3>1, <3>2, <3>3
  <2>3. CASE i > k - 1
    <3> DEFINE j == i + 1
    <3>1. ~(i < k) /\ ~(j < k) /\ i \in 0..n /\ j \in 0..n /\ k - 1 \in 0..n /\ k \in 0..n
          /\ j # k /\ j # k - 1
      BY <1>1, <2>3
    <3>2. nth(q, j) # nth(q, k) /\ nth(q, j) # nth(q, k - 1) /\ nth(q, j) \in Nodes
      BY <1>1, <1>2, <1>6, <3>1
    <3>3. nth(q, k) = q[k]
      BY <1>2
    <3>4. m.next[nth(q, j)] = nth(q, j + 1)
      BY <1>1, <3>1, <3>2, <3>3
    <3>5. nth(w, i) = nth(q, j) /\ nth(w, j) = nth(q, j + 1)
      BY <1>5, <3>1
    <3> QED BY <3>4, <3>5
  <2> QED BY <1>1, <2>1, <2>2, <2>3
<1>8. ASSUME NEW i \in 0..(n - 1) PROVE m.prev[nth(w, i + 1)] = nth(w, i)
  <2>1. CASE i = k - 1
    <3>1. i < k /\ ~(i + 1 < k) /\ (i + 1) + 1 = k + 1 /\ i \in 0..n /\ i + 1 \in 0..n
      BY <1>1, <2>1
    <3> QED BY <1>5, <2>1, <3>1
  <2>2. CASE i < k - 1
    <3> DEFINE j == i + 1
    <3>1. /\ i < k /\ j < k /\ i \in 0..n /\ j \in 0..n /\ j \in 1..(n + 1)
          /\ k \in 1..(n + 1) /\ k + 1 \in 1..(n + 1) /\ j # k /\ j # k + 1
      BY <1>1, <2>2
    <3>2. nth(q, j) # nth(q, k) /\ nth(q, j) # nth(q, k + 1) /\ nth(q, j) \in Nodes
      BY <1>2, <1>6, <3>1
    <3>3. nth(q, k) = q[k]
      BY <1>2
    <3>4. m.prev[nth(q, j)] = nth(q, i)
      BY <1>1, <3>1, <3>2, <3>3
    <3> QED BY <1>5, <3>1, <3>4
  <2>3. CASE i > k - 1
    <3> DEFINE j == i + 1
               h == j + 1
    <3>1. /\ ~(i < k) /\ ~(j < k) /\ i \in 0..n /\ j \in 0..n /\ h \in 0..(n + 1) /\ h \in 1..(n + 1)
          /\ k \in 1..(n + 1) /\ k + 1 \in 1..(n + 1) /\ h # k /\ h # k + 1
      BY <1>1, <2>3
    <3>2. nth(q, h) # nth(q, k) /\ nth(q, h) # nth(q, k + 1) /\ nth(q, h) \in Nodes
      BY <1>2, <1>6, <3>1
    <3>3. nth(q, k) = q[k]
      BY <1>2
    <3>4. m.prev[nth(q, h)] = nth(q, j)
      BY <1>1, <3>1, <3>2, <3>3
    <3>5. nth(w, i) = nth(q, j) /\ nth(w, j) = nth(q, h)
      BY <1>5, <3>1
    <3> QED BY <3>4, <3>5
  <2> QED BY <1>1, <2>1, <2>2, <2>3
<1> QED BY <1>3, <1>4, <1>7, <1>8 DEF Ring, Leads, w

(* Taking an entry out with listUnlink() and INIT_LIST_HEAD(), or with
   listUnlinkAndInit(): the list is whole without it, and its own pointers
   lead to itself. *)
LEMMA RingUnlink ==
  ASSUME RunQueueAssumption, NEW l, NEW q, Ring(l, q), NEW k \in 1..Len(q), NEW m,
         m = listUnlinkAndInit(l, q[k]) \/ m = INIT_LIST_HEAD(listUnlink(l, q[k]), q[k])
  PROVE  /\ Ring(m, without(q, k)) /\ m.next[q[k]] = q[k]
         /\ \A x \in Procs : (\A i \in 1..Len(q) : q[i] # x) => m.next[x] = l.next[x]
<1> DEFINE n == Len(q)
           p == q[k]
           a == nth(q, k - 1)
           b == nth(q, k + 1)
<1>1. /\ q \in Seq(Procs) /\ n \in Nat /\ Distinct(q) /\ l \in Lists
      /\ k \in 0..n /\ k - 1 \in 0..n /\ k \in 1..(n + 1) /\ k + 1 \in 1..(n + 1)
      /\ (k - 1) + 1 = k /\ k # k - 1 /\ k # k + 1 /\ nth(q, k) = p
  BY DEF Ring, nth
<1>2. l.next[p] = b /\ l.prev[p] = a
  BY <1>1 DEF Ring, Leads
<1>3. a # p /\ b # p /\ a \in Nodes /\ b \in Nodes /\ p \in Nodes
  <2>1. a # p
    BY <1>1, NthDistinct
  <2>2. b # p
    BY <1>1, NthDistinct
  <2>3. k - 1 \in Int /\ k \in Int /\ k + 1 \in Int
    BY <1>1
  <2> QED BY <1>1, <2>1, <2>2, <2>3, NthNode
<1> HIDE DEF p, a, b
<1>4. /\ m \in Lists
      /\ \A x \in Nodes : m.next[x] = IF x = p THEN p ELSE IF x = a THEN b ELSE l.next[x]
      /\ \A x \in Nodes : m.prev[x] = IF x = p THEN p ELSE IF x = b THEN a ELSE l.prev[x]
  <2>1. CASE m = listUnlinkAndInit(l, p)
    BY <1>1, <1>2, <1>3, <2>1 DEF listUnlinkAndInit, unlinkBetween, INIT_LIST_HEAD, Lists
  <2>2. CASE m = INIT_LIST_HEAD(listUnlink(l, p), p)
    <3> DEFINE u == unlinkBetween(l, a, b)
               v == listUnlink(l, p)
    <3>1. u \in Lists /\ u.next = [l.next EXCEPT ![a] = b] /\ u.prev = [l.prev EXCEPT ![b] = a]
      BY <1>1, <1>3 DEF unlinkBetween, Lists
    <3>2. v = [u EXCEPT !.prev[p] = Null, !.next[p] = Null]
      BY <1>2 DEF listUnlink
    <3> HIDE DEF u, v
    <3>3. v \in Lists /\ v.next = [u.next EXCEPT ![p] = Null] /\ v.prev = [u.prev EXCEPT ![p] = Null]
      BY <1>3, <3>1, <3>2 DEF Lists
    <3>4. m \in Lists /\ m.next = [v.next EXCEPT ![p] = p] /\ m.prev = [v.prev EXCEPT ![p] = p]
      BY <1>3, <2>2, <3>3 DEF INIT_LIST_HEAD, Lists, v
    <3> QED BY <1>1, <1>3, <3>1, <3>3, <3>4 DEF Lists
  <2> QED BY <2>1, <2>2 DEF p
<1>5. m.next[a] = b /\ m.prev[b] = a /\ m.next[p] = p
  BY <1>3, <1>4
<1>6. /\ \A x \in Nodes : x # p /\ x # a => m.next[x] = l.next[x]
      /\ \A x \in Nodes : x # p /\ x # b => m.prev[x] = l.prev[x]
  BY <1>4
<1>7. Ring(m, without(q, k))
  BY <1>4, <1>5, <1>6, RingRemove DEF p, a, b
<1>8. ASSUME NEW x \in Procs, \A i \in 1..n : q[i] # x PROVE m.next[x] = l.next[x]
  <2>1. x \in Nodes /\ x # procRunQ
    BY DEF Nodes, Procs, procRunQ
  <2>2. x # p /\ x # a
    BY <1>1, <1>8, <2>1 DEF p, a, nth
  <2> QED BY <1>6, <2>1, <2>2
<1> QED BY <1>5, <1>7, <1>8 DEF p
-----------------------------------------------------------------------------
(* Who is on the queue: everything alive but the running process. *)
Queued(p) == state[p] \notin {"Free", "Running"}

(* The queue, the scheduler between two steps and ps between two of its own.
   A recycled Proc leads to itself; a scan stands on an entry and has saved
   the next one; ps holds runQLock and does not stand on its own Proc. *)
QInv ==
  /\ TypeOK
  /\ \E q : Ring(links, q) /\ Members(q) = {p \in Procs : Queued(p)}
  /\ phase = "idle" => rp \in Procs
  /\ phase # "idle" => rp = BadProc
  /\ \A p \in Procs : state[p] = "Running" <=> p = rp
  /\ \A p \in Procs : state[p] = "Free" => links.next[p] = p
  /\ phase = "scan" =>
       /\ pos \in Procs => Queued(pos)
       /\ save = LIST_NEXT_ENTRY_OR_NULL(links, pos, procRunQ)
  /\ pc \in {"print", "next"} => runQLock = Ps /\ cursor # Ps
  /\ pc = "next" => cursor \in Procs

(* The invariant says what the properties say. *)
LEMMA QInvIsSound ==
  ASSUME RunQueueAssumption, QInv
  PROVE  QueueIsSound /\ CursorOnQueue
<1>1. PICK q : Ring(links, q) /\ Members(q) = {p \in Procs : Queued(p)}
  BY DEF QInv
<1>2. /\ follow(links.next) = q
      /\ follow(links.prev) = [i \in DOMAIN q |-> q[Len(q) + 1 - i]]
  BY <1>1, RingIsFollowed
<1>3. OnQueue = {p \in Procs : Queued(p)}
  BY <1>1, <1>2 DEF OnQueue
<1>4. QueueIsSound
  BY <1>2, <1>3 DEF QueueIsSound, LinksAgree, QueueIsComplete, Queued, QInv
<1>5. CursorOnQueue
  <2> SUFFICES ASSUME Runs(Ps), pc \in {"print", "next"}, cursor \in Procs
               PROVE  cursor \in OnQueue \/ state[cursor] = "Free"
    BY DEF CursorOnQueue, recycledUnderPs, QInv, TypeOK, Nodes
  <2>1. state[cursor] # "Running"
    BY DEF QInv, Runs
  <2> QED BY <1>3, <2>1 DEF Queued
<1> QED BY <1>4, <1>5
-----------------------------------------------------------------------------
(* At first ps runs and the others are queued by their pids. *)
LEMMA InitQInv ==
  ASSUME RunQueueAssumption, Init
  PROVE  QInv /\ Ring(links, [i \in 1..(MaxProc - 1) |-> IF i < Ps THEN i ELSE i + 1])
<1> DEFINE q == [i \in 1..(MaxProc - 1) |-> IF i < Ps THEN i ELSE i + 1]
           at(i) == IF i \in DOMAIN q THEN q[i] ELSE procRunQ
           place(p) == IF p = procRunQ THEN 0 ELSE CHOOSE i \in DOMAIN q : q[i] = p
           n == MaxProc - 1
<1>1. /\ links = [next |-> [x \in Nodes |-> IF x = Ps THEN x ELSE at(place(x) + 1)],
                  prev |-> [x \in Nodes |-> IF x = Ps THEN x
                                            ELSE IF x = procRunQ THEN at(Len(q)) ELSE at(place(x) - 1)]]
      /\ state = [p \in Procs |-> IF p = Ps THEN "Running" ELSE "Ready"]
      /\ rp = Ps /\ runQLock = procRunQ
      /\ pc = "start" /\ cursor = Null /\ listed = {} /\ due = {}
      /\ phase = "idle" /\ pos = Null /\ save = Null
  BY DEF Init
<1>2. MaxProc \in Nat /\ n \in Nat /\ Ps \in 1..MaxProc /\ Ps \in Int
  BY DEF RunQueueAssumption, Procs
<1>3. q \in Seq(Procs) /\ Len(q) = n /\ DOMAIN q = 1..n
  <2>1. q \in [1..n -> Procs]
    BY <1>2 DEF Procs
  <2> HIDE DEF q
  <2> QED BY <1>2, <2>1
<1>4. Distinct(q) /\ \A i \in 1..n : q[i] # Ps
  BY <1>2, <1>3 DEF Distinct
<1>5. \A p \in Procs : p # Ps => \E i \in 1..n : q[i] = p
  <2> SUFFICES ASSUME NEW p \in Procs, p # Ps PROVE \E i \in 1..n : q[i] = p
    OBVIOUS
  <2>1. CASE p < Ps
    <3>1. p \in 1..n /\ q[p] = p
      BY <1>2, <2>1 DEF Procs
    <3> QED BY <3>1
  <2>2. CASE p > Ps
    <3>1. p - 1 \in 1..n /\ q[p - 1] = p
      BY <1>2, <2>2 DEF Procs
    <3> QED BY <3>1
  <2> QED BY <1>2, <2>1, <2>2 DEF Procs
<1> HIDE DEF q
<1>6. \A i \in Int : at(i) = nth(q, i)
  BY <1>3 DEF nth
<1>7. /\ \A i \in 1..n : place(q[i]) = i
      /\ place(procRunQ) = 0
  BY <1>3, <1>4, NthNode DEF Distinct
<1>8. \A i \in Int : at(i) \in Nodes
  BY <1>3, <1>6, NthNode
<1>9. \A x \in Nodes : x # Ps => place(x) \in 0..n
  BY <1>2, <1>3, <1>5, <1>7 DEF Nodes
<1> HIDE DEF at, place
<1>10. links \in Lists
  BY <1>1, <1>2, <1>3, <1>8, <1>9 DEF Lists
<1>11. /\ procRunQ \in Nodes /\ procRunQ # Ps
       /\ \A i \in 1..n : q[i] \in Nodes /\ q[i] # Ps /\ q[i] # procRunQ
  BY <1>2, <1>3, <1>4, NthNode DEF Nodes, procRunQ
<1>12. ASSUME NEW i \in 0..n
       PROVE  links.next[nth(q, i)] = nth(q, i + 1) /\ links.prev[nth(q, i + 1)] = nth(q, i)
  <2>1. /\ nth(q, 0) = procRunQ /\ nth(q, n + 1) = procRunQ
        /\ \A j \in 1..n : nth(q, j) = q[j]
    BY <1>3, NthNode
  <2>2. links.next[nth(q, i)] = nth(q, i + 1)
    <3>1. nth(q, i) \in Nodes /\ nth(q, i) # Ps /\ place(nth(q, i)) = i
      BY <1>2, <1>7, <1>11, <2>1
    <3> QED BY <1>1, <1>2, <1>6, <3>1
  <2>3. links.prev[nth(q, i + 1)] = nth(q, i)
    <3>1. CASE i = n
      BY <1>1, <1>2, <1>3, <1>6, <1>11, <2>1, <3>1
    <3>2. CASE i < n
      <4>1. /\ i + 1 \in 1..n /\ nth(q, i + 1) = q[i + 1] /\ place(q[i + 1]) = i + 1
            /\ (i + 1) - 1 = i
        BY <1>2, <1>7, <2>1, <3>2
      <4> QED BY <1>1, <1>6, <1>11, <4>1
    <3> QED BY <1>2, <3>1, <3>2
  <2> QED BY <2>2, <2>3
<1>13. Ring(links, q)
  BY <1>3, <1>4, <1>10, <1>12 DEF Ring, Leads
<1>14. Members(q) = {p \in Procs : Queued(p)}
  <2>1. Members(q) = {p \in Procs : p # Ps}
    BY <1>3, <1>4, <1>5 DEF Members
  <2> QED BY <1>1, <2>1 DEF Queued
<1>15. TypeOK
  BY <1>1, <1>2, <1>10 DEF TypeOK, Lists, Procs, States
<1>16. QInv
  BY <1>1, <1>2, <1>13, <1>14, <1>15 DEF QInv, Procs
<1> QED BY <1>13, <1>16 DEF q
-----------------------------------------------------------------------------
(* The type and the length of a concatenation. *)
LEMMA ConcatSeq ==
  ASSUME NEW S, NEW s \in Seq(S), NEW t \in Seq(S)
  PROVE  s \o t \in Seq(S) /\ Len(s \o t) = Len(s) + Len(t)
  OBVIOUS

(* Taking the k-th entry out, in the terms of ProcQueue. *)
LEMMA RemoveAtIs ==
  ASSUME NEW q \in Seq(Procs), NEW k \in 1..Len(q)
  PROVE  Queue!RemoveAt(q, k) = without(q, k)
<1> DEFINE n == Len(q)
           a == SubSeq(q, 1, k - 1)
           b == SubSeq(q, k + 1, n)
           w == without(q, k)
<1>1. n \in Nat /\ k \in 1..n /\ k - 1 \in Nat /\ k - 1 <= n /\ n - k \in Nat
  OBVIOUS
<1>2. a \in Seq(Procs) /\ Len(a) = k - 1 /\ \A i \in 1..(k - 1) : a[i] = q[i]
  BY <1>1
<1>3. b \in Seq(Procs) /\ Len(b) = n - k /\ \A i \in 1..(n - k) : b[i] = q[k + i]
  BY <1>1
<1>4. Queue!RemoveAt(q, k) = a \o b
  BY DEF Queue!RemoveAt
<1>5. w \in Seq(Procs) /\ Len(w) = n - 1
      /\ \A i \in 1..(n - 1) : w[i] = IF i < k THEN q[i] ELSE q[i + 1]
  <2>1. w \in [1..(n - 1) -> Procs] /\ n - 1 \in Nat
    BY <1>1 DEF without
  <2>2. \A i \in 1..(n - 1) : w[i] = IF i < k THEN q[i] ELSE q[i + 1]
    BY DEF without
  <2> HIDE DEF w, n
  <2> QED BY <2>1, <2>2
<1> HIDE DEF a, b, n, w
<1>6. a \o b \in Seq(Procs) /\ Len(a \o b) = n - 1
  <2>1. a \o b \in Seq(Procs) /\ Len(a \o b) = Len(a) + Len(b)
    BY <1>2, <1>3, ConcatSeq
  <2> QED BY <1>1, <1>2, <1>3, <2>1
<1>7. ASSUME NEW i \in 1..(n - 1) PROVE (a \o b)[i] = w[i]
  <2>1. CASE i < k
    <3>1. i \in 1..Len(a)
      BY <1>1, <1>2, <2>1
    <3>2. (a \o b)[i] = a[i]
      BY <1>2, <1>3, <3>1
    <3> QED BY <1>2, <1>5, <2>1, <3>1, <3>2
  <2>2. CASE i >= k
    <3>1. i - (k - 1) \in 1..(n - k) /\ k + (i - (k - 1)) = i + 1 /\ i > Len(a) /\ i <= Len(a) + Len(b)
      BY <1>1, <1>2, <1>3, <2>2
    <3>2. (a \o b)[i] = b[i - (k - 1)]
      BY <1>2, <1>3, <3>1
    <3>3. b[i - (k - 1)] = q[i + 1]
      BY <1>3, <3>1
    <3>4. ~(i < k)
      BY <1>1, <2>2
    <3> QED BY <1>5, <3>2, <3>3, <3>4
  <2>3. i < k \/ i >= k
    BY <1>1
  <2> QED BY <2>1, <2>2, <2>3, Zenon
<1>8. a \o b = w
  BY <1>5, <1>6, <1>7
<1> QED BY <1>4, <1>8 DEF w

(* What the queue is after a step, and that the step is one of a queue. *)
Moves ==
  /\ \E q : Ring(links', q) /\ Members(q) = {p \in Procs : state'[p] \notin {"Free", "Running"}}
  /\ \A p \in Procs : state'[p] = "Free" => links'.next[p] = p
  /\ [Queue!Next]_(follow(links.next))

(* A process is queued. *)
LEMMA QueueGrows ==
  ASSUME RunQueueAssumption, QInv, NEW p \in Procs, ~Queued(p),
         NEW s, s \notin {"Free", "Running"},
         links' = listAddBefore(links, p, procRunQ), state' = [state EXCEPT ![p] = s]
  PROVE  Moves
<1>1. PICK q : Ring(links, q) /\ Members(q) = {x \in Procs : Queued(x)}
  BY DEF QInv
<1>2. q \in Seq(Procs) /\ Distinct(q) /\ DOMAIN q = 1..Len(q) /\ Len(q) \in Nat
  BY <1>1 DEF Ring
<1>3. \A i \in 1..Len(q) : q[i] # p
  BY <1>1, <1>2 DEF Members
<1>4. /\ Ring(links', Append(q, p))
      /\ \A x \in Procs : x # p /\ (\A i \in 1..Len(q) : q[i] # x) => links'.next[x] = links.next[x]
  BY <1>1, <1>3, RingAppend
<1>5. \A x \in Procs : state'[x] = IF x = p THEN s ELSE state[x]
  BY DEF QInv, TypeOK
<1>6. Members(Append(q, p)) = {x \in Procs : state'[x] \notin {"Free", "Running"}}
  <2>1. Members(Append(q, p)) = Members(q) \cup {p}
    <3>1. /\ DOMAIN Append(q, p) = 1..(Len(q) + 1) /\ Append(q, p)[Len(q) + 1] = p
          /\ \A i \in 1..Len(q) : Append(q, p)[i] = q[i]
      BY <1>2
    <3>2. 1..(Len(q) + 1) = (1..Len(q)) \cup {Len(q) + 1}
      BY <1>2
    <3> QED BY <1>2, <3>1, <3>2 DEF Members
  <2> QED BY <1>1, <1>5, <2>1 DEF Queued
<1>7. ASSUME NEW x \in Procs, state'[x] = "Free" PROVE links'.next[x] = x
  <2>1. x # p /\ state[x] = "Free"
    BY <1>5, <1>7
  <2>2. \A i \in 1..Len(q) : q[i] # x
    BY <1>1, <1>2, <2>1 DEF Members, Queued
  <2> QED BY <1>4, <2>1, <2>2 DEF QInv
<1>8. follow(links.next) = q /\ follow(links.next)' = Append(q, p)
  BY <1>1, <1>4, RingIsFollowed
<1>9. Queue!Enqueue(p)
  BY <1>2, <1>3, <1>8 DEF Queue!Enqueue, Queue!Range
<1> QED BY <1>4, <1>6, <1>7, <1>9 DEF Moves, Queue!Next

(* A process is taken off the queue. *)
LEMMA QueueShrinks ==
  ASSUME RunQueueAssumption, QInv, NEW p \in Procs, Queued(p),
         NEW s, s \in {"Free", "Running"},
         \/ links' = listUnlinkAndInit(links, p)
         \/ links' = INIT_LIST_HEAD(listUnlink(links, p), p),
         state' = [state EXCEPT ![p] = s]
  PROVE  Moves
<1>1. PICK q : Ring(links, q) /\ Members(q) = {x \in Procs : Queued(x)}
  BY DEF QInv
<1>2. q \in Seq(Procs) /\ Distinct(q) /\ DOMAIN q = 1..Len(q) /\ Len(q) \in Nat
  BY <1>1 DEF Ring
<1>3. PICK k \in 1..Len(q) : q[k] = p
  BY <1>1, <1>2 DEF Members
<1>4. /\ Ring(links', without(q, k)) /\ links'.next[p] = p
      /\ \A x \in Procs : (\A i \in 1..Len(q) : q[i] # x) => links'.next[x] = links.next[x]
  BY <1>1, <1>3, RingUnlink
<1>5. \A x \in Procs : state'[x] = IF x = p THEN s ELSE state[x]
  BY DEF QInv, TypeOK
<1>6. Members(without(q, k)) = {x \in Procs : state'[x] \notin {"Free", "Running"}}
  <2>1. /\ without(q, k) \in Seq(Procs) /\ DOMAIN without(q, k) = 1..(Len(q) - 1)
        /\ \A i \in 1..(Len(q) - 1) : without(q, k)[i] = IF i < k THEN q[i] ELSE q[i + 1]
    BY <1>4 DEF Ring, without
  <2>2. Members(without(q, k)) \subseteq Members(q) \ {p}
    <3> SUFFICES ASSUME NEW i \in 1..(Len(q) - 1) PROVE without(q, k)[i] \in Members(q) \ {p}
      BY <2>1 DEF Members
    <3> DEFINE j == IF i < k THEN i ELSE i + 1
    <3>1. j \in 1..Len(q) /\ j # k /\ without(q, k)[i] = q[j]
      BY <1>2, <2>1
    <3> QED BY <1>2, <1>3, <3>1 DEF Members, Distinct
  <2>3. Members(q) \ {p} \subseteq Members(without(q, k))
    <3> SUFFICES ASSUME NEW j \in 1..Len(q), j # k PROVE q[j] \in Members(without(q, k))
      BY <1>2, <1>3 DEF Members
    <3> DEFINE i == IF j < k THEN j ELSE j - 1
    <3>1. i \in 1..(Len(q) - 1) /\ without(q, k)[i] = q[j]
      BY <1>2, <2>1
    <3> QED BY <2>1, <3>1 DEF Members
  <2> QED BY <1>1, <1>5, <2>2, <2>3 DEF Queued
<1>7. ASSUME NEW x \in Procs, state'[x] = "Free" PROVE links'.next[x] = x
  <2>1. CASE x = p
    BY <1>4, <2>1
  <2>2. CASE x # p
    <3>1. state[x] = "Free"
      BY <1>5, <1>7, <2>2
    <3>2. \A i \in 1..Len(q) : q[i] # x
      BY <1>1, <1>2, <3>1 DEF Members, Queued
    <3> QED BY <1>4, <3>1, <3>2 DEF QInv
  <2> QED BY <2>1, <2>2
<1>8. follow(links.next) = q /\ follow(links.next)' = without(q, k)
  BY <1>1, <1>4, RingIsFollowed
<1>9. Queue!Take(k)
  BY <1>2, <1>8, RemoveAtIs DEF Queue!Take
<1> QED BY <1>2, <1>4, <1>6, <1>7, <1>8, <1>9 DEF Moves, Queue!Next

(* The queue stays as it is, and nobody on it or off it changes sides. *)
LEMMA QueueStays ==
  ASSUME RunQueueAssumption, QInv, UNCHANGED links,
         \A p \in Procs : state'[p] \notin {"Free", "Running"} <=> Queued(p),
         \A p \in Procs : state'[p] = "Free" => state[p] = "Free"
  PROVE  Moves
<1>1. PICK q : Ring(links, q) /\ Members(q) = {x \in Procs : Queued(x)}
  BY DEF QInv
<1>2. follow(links.next)' = follow(links.next)
  BY <1>1, RingIsFollowed
<1> QED BY <1>1, <1>2 DEF Moves, QInv

(* What follows an entry of the queue, and what the list head leads to, is on
   the queue or is the list head; an entry does not follow itself. *)
LEMMA NextOnQueue ==
  ASSUME RunQueueAssumption, QInv, NEW x \in Nodes, x = procRunQ \/ Queued(x)
  PROVE  /\ links.next[x] \in Nodes
         /\ links.next[x] \in Procs => Queued(links.next[x])
         /\ x \in Procs => links.next[x] # x
<1>1. PICK q : Ring(links, q) /\ Members(q) = {p \in Procs : Queued(p)}
  BY DEF QInv
<1>2. q \in Seq(Procs) /\ Distinct(q) /\ DOMAIN q = 1..Len(q) /\ Len(q) \in Nat
  BY <1>1 DEF Ring
<1>3. PICK i \in 0..Len(q) : x = nth(q, i)
  <2>1. CASE x = procRunQ
    BY <1>2, <2>1, NthNode
  <2>2. CASE x # procRunQ
    <3>1. x \in Members(q)
      BY <1>1, <2>2 DEF Nodes
    <3> QED BY <1>2, <3>1, NthNode DEF Members
  <2> QED BY <2>1, <2>2
<1>4. links.next[x] = nth(q, i + 1)
  BY <1>1, <1>3 DEF Ring, Leads
<1>5. i + 1 \in 1..Len(q) \/ i + 1 = Len(q) + 1
  BY <1>2
<1>6. CASE i + 1 = Len(q) + 1
  <2>1. links.next[x] = procRunQ /\ procRunQ \notin Procs /\ procRunQ \in Nodes
    BY <1>2, <1>4, <1>6, NthNode DEF Nodes, Procs, procRunQ
  <2> QED BY <2>1
<1>7. CASE i + 1 \in 1..Len(q)
  <2>1. links.next[x] = q[i + 1] /\ q[i + 1] \in Members(q)
    BY <1>2, <1>4, <1>7, NthNode DEF Members
  <2>2. nth(q, i + 1) # nth(q, i)
    <3>1. i \in 0..Len(q) /\ i + 1 \in 0..Len(q) /\ i # i + 1
      BY <1>2, <1>7
    <3> QED BY <1>2, <3>1, NthDistinct
  <2> QED BY <1>1, <1>3, <1>4, <2>1, <2>2 DEF Nodes
<1> QED BY <1>5, <1>6, <1>7
-----------------------------------------------------------------------------
(* The invariant of the queue after a step that moves it rightly; what is left
   to show is about the scheduler and ps. *)
LEMMA MovesQInv ==
  ASSUME Moves, TypeOK',
         (phase = "idle" => rp \in Procs)', (phase # "idle" => rp = BadProc)',
         (\A p \in Procs : state[p] = "Running" <=> p = rp)',
         (phase = "scan" =>
            /\ pos \in Procs => Queued(pos)
            /\ save = LIST_NEXT_ENTRY_OR_NULL(links, pos, procRunQ))',
         (pc \in {"print", "next"} => runQLock = Ps /\ cursor # Ps)',
         (pc = "next" => cursor \in Procs)'
  PROVE  QInv'
BY DEF Moves, QInv, Queued

(* ps reads the queue and writes nothing the scheduler looks at. *)
LEMMA PsKeeps ==
  ASSUME RunQueueAssumption, QInv, ps
  PROVE  QInv' /\ Moves
<1>1. UNCHANGED <<links, state, rp, scanVars>> /\ Runs(Ps) /\ runQLock' \in {Ps, procRunQ}
  BY DEF ps, psLock, psPrint, psNext, psUnlock, QInv, TypeOK
<1>2. Moves
  BY <1>1, QueueStays DEF Queued
<1>3. /\ state[Ps] = "Running" /\ Ps \in Procs /\ Ps # procRunQ /\ Ps # Null /\ procRunQ \in Nodes
      /\ TypeOK
  BY <1>1 DEF QInv, Runs, RunQueueAssumption, Procs, procRunQ, Null, Nodes
<1>4. /\ TypeOK'
      /\ (pc \in {"print", "next"} => runQLock = Ps /\ cursor # Ps)'
      /\ (pc = "next" => cursor \in Procs)'
  <2>1. CASE psLock
    <3> DEFINE first == links.next[procRunQ]
    <3>1. first \in Nodes /\ first # Ps
      BY <1>3, NextOnQueue DEF Queued
    <3>2. OnQueue \subseteq Procs
      BY QInvIsSound DEF QueueIsSound, QueueIsComplete
    <3>3. cursor' \in {Null, first} /\ pc' = "print" /\ runQLock' = Ps /\ listed' = {Ps} /\ due' = OnQueue
      BY <2>1 DEF psLock, LIST_FIRST_ENTRY_OR_NULL
    <3> HIDE DEF first
    <3> QED BY <1>1, <1>3, <3>1, <3>2, <3>3 DEF TypeOK, scanVars
  <2>2. CASE psPrint
    BY <1>1, <1>3, <2>2 DEF psPrint, TypeOK, scanVars, QInv, Nodes
  <2>3. CASE psNext
    <3>1. /\ cursor \in Procs /\ cursor # Ps /\ cursor' = links.next[cursor] /\ pc' = "print"
          /\ runQLock = Ps /\ UNCHANGED <<runQLock, listed, due>>
      BY <2>3 DEF psNext, QInv
    <3>2. state[cursor] # "Running"
      BY <1>1, <3>1 DEF QInv, Runs
    <3>3. cursor' \in Nodes /\ cursor' # Ps
      <4>1. CASE state[cursor] = "Free"
        BY <3>1, <4>1 DEF QInv, Nodes
      <4>2. CASE Queued(cursor)
        BY <1>3, <3>1, <4>2, NextOnQueue DEF Queued, Nodes
      <4> QED BY <3>2, <4>1, <4>2 DEF Queued
    <3> QED BY <1>1, <1>3, <3>1, <3>3 DEF TypeOK, scanVars
  <2>4. CASE psUnlock
    BY <1>1, <1>3, <2>4 DEF psUnlock, TypeOK, scanVars
  <2> QED BY <2>1, <2>2, <2>3, <2>4 DEF ps
<1>5. /\ (phase = "idle" => rp \in Procs)' /\ (phase # "idle" => rp = BadProc)'
      /\ (\A p \in Procs : state[p] = "Running" <=> p = rp)'
      /\ (phase = "scan" =>
            /\ pos \in Procs => Queued(pos)
            /\ save = LIST_NEXT_ENTRY_OR_NULL(links, pos, procRunQ))'
  BY <1>1 DEF QInv, Runs, scanVars
<1> QED BY <1>2, <1>4, <1>5, MovesQInv

(* schedProc(): nobody else runs, and ps does not hold runQLock. *)
LEMMA SchedProcKeeps ==
  ASSUME RunQueueAssumption, QInv, NEW p \in Procs, NEW q \in Procs, schedProc(p, q)
  PROVE  QInv' /\ Moves
<1>1. /\ phase = "idle" /\ rp = p /\ state[q] = "Free" /\ runQLock = procRunQ
      /\ links' = listAddBefore(links, q, procRunQ)
      /\ state' = [state EXCEPT ![q] = "Ready"] /\ UNCHANGED <<rp, psVars, scanVars>>
  BY DEF schedProc, Runs
<1>2. Moves
  BY <1>1, QueueGrows DEF Queued
<1>3. links' \in Lists
  BY <1>2 DEF Moves, Ring
<1>4. TypeOK'
  BY <1>1, <1>3 DEF QInv, TypeOK, Lists, States, psVars, scanVars
<1>5. (\A x \in Procs : state[x] = "Running" <=> x = rp)'
  BY <1>1 DEF QInv, TypeOK
<1>6. Ps # procRunQ
  BY DEF RunQueueAssumption, Procs, procRunQ
<1> QED BY <1>1, <1>2, <1>4, <1>5, <1>6, MovesQInv DEF QInv, psVars, scanVars

(* wake(): the process stays where it is. *)
LEMMA WakeKeeps ==
  ASSUME RunQueueAssumption, QInv, NEW q \in Procs, wake(q)
  PROVE  QInv' /\ Moves
<1>1. /\ phase # "scan" /\ state[q] = "Waiting" /\ state' = [state EXCEPT ![q] = "Ready"]
      /\ UNCHANGED <<links, rp, psVars, scanVars>>
  BY DEF wake
<1>2. \A p \in Procs : state'[p] = IF p = q THEN "Ready" ELSE state[p]
  BY <1>1 DEF QInv, TypeOK
<1>3. Moves
  BY <1>1, <1>2, QueueStays DEF Queued
<1>4. TypeOK'
  BY <1>1 DEF QInv, TypeOK, States, psVars, scanVars
<1> QED BY <1>1, <1>2, <1>3, <1>4, MovesQInv DEF QInv, psVars, scanVars

(* scheduleProc(): the running process is queued, and nobody runs. *)
LEMMA ScheduleKeeps ==
  ASSUME RunQueueAssumption, QInv, NEW s \in {"Ready", "Waiting", "Dead"}, scheduleProc(s)
  PROVE  QInv' /\ Moves
<1>1. /\ phase = "idle" /\ rp \in Procs /\ rp' = BadProc /\ phase' = "pick"
      /\ links' = listAddBefore(links, rp, procRunQ)
      /\ state' = [state EXCEPT ![rp] = s] /\ UNCHANGED <<psVars, pos, save>>
  BY DEF scheduleProc, queueProc
<1>2. state[rp] = "Running"
  BY <1>1 DEF QInv
<1>3. Moves
  BY <1>1, <1>2, QueueGrows DEF Queued
<1>4. links' \in Lists
  BY <1>3 DEF Moves, Ring
<1>5. TypeOK'
  BY <1>1, <1>4 DEF QInv, TypeOK, Lists, States, psVars
<1>6. BadProc \notin Procs
  BY DEF BadProc, Procs
<1>7. \A p \in Procs : state'[p] # "Running"
  BY <1>1 DEF QInv, TypeOK
<1> QED BY <1>1, <1>3, <1>5, <1>6, <1>7, MovesQInv DEF QInv, psVars

(* The cursors of a scan: LIST_FIRST_ENTRY_OR_NULL(). *)
LEMMA BeginScanKeeps ==
  ASSUME RunQueueAssumption, QInv, beginScan
  PROVE  QInv' /\ Moves
<1>1. /\ phase = "pick" /\ phase' = "scan"
      /\ pos' = LIST_FIRST_ENTRY_OR_NULL(links, procRunQ)
      /\ save' = LIST_NEXT_ENTRY_OR_NULL(links, pos', procRunQ)
      /\ UNCHANGED <<links, state, rp, psVars>>
  BY DEF beginScan
<1>2. Moves
  BY <1>1, QueueStays DEF Queued
<1>3. procRunQ \in Nodes /\ Null \notin Procs
  BY DEF Nodes, Null, Procs
<1>4. pos' \in Nodes \cup {Null} /\ (pos' \in Procs => Queued(pos'))
  BY <1>1, <1>3, NextOnQueue DEF LIST_FIRST_ENTRY_OR_NULL
<1>5. save' \in Nodes \cup {Null}
  BY <1>1, <1>4 DEF LIST_NEXT_ENTRY_OR_NULL, QInv, TypeOK
<1>6. TypeOK'
  BY <1>1, <1>4, <1>5 DEF QInv, TypeOK, psVars
<1> QED BY <1>1, <1>2, <1>4, <1>6, MovesQInv DEF QInv, Queued, psVars

(* A Proc that cannot run is passed over. *)
LEMMA ScanNotReadyKeeps ==
  ASSUME RunQueueAssumption, QInv, scanNotReady
  PROVE  QInv' /\ Moves
<1>1. /\ phase = "scan" /\ pos \in Procs /\ pos' = save
      /\ save' = LIST_NEXT_ENTRY_OR_NULL(links, save, procRunQ)
      /\ UNCHANGED <<links, state, rp, psVars, phase>>
  BY DEF scanNotReady, advance
<1>2. Moves
  BY <1>1, QueueStays DEF Queued
<1>3. pos \in Nodes /\ pos \notin {procRunQ, Null} /\ Queued(pos)
  BY <1>1 DEF Nodes, Procs, procRunQ, Null, QInv
<1>4. save = links.next[pos]
  BY <1>1, <1>3 DEF QInv, LIST_NEXT_ENTRY_OR_NULL
<1>5. save \in Nodes /\ (save \in Procs => Queued(save))
  BY <1>3, <1>4, NextOnQueue
<1>6. TypeOK'
  BY <1>1, <1>5 DEF QInv, TypeOK, psVars, LIST_NEXT_ENTRY_OR_NULL
<1> QED BY <1>1, <1>2, <1>5, <1>6, MovesQInv DEF QInv, Queued, psVars

(* A Dead one is unlinked and recycled: the saved cursor is another entry, and
   the entry behind that is read from the list as it is then. *)
LEMMA ScanDeadKeeps ==
  ASSUME RunQueueAssumption, QInv, scanDead
  PROVE  QInv' /\ Moves
<1>1. /\ phase = "scan" /\ pos \in Procs /\ state[pos] = "Dead"
      /\ links' = INIT_LIST_HEAD(listUnlink(links, pos), pos)
      /\ state' = [state EXCEPT ![pos] = "Free"]
      /\ pos' = save /\ save' = LIST_NEXT_ENTRY_OR_NULL(links', save, procRunQ)
      /\ UNCHANGED <<rp, psVars, phase>>
  BY DEF scanDead, advance, recycled
<1>2. Moves
  BY <1>1, QueueShrinks DEF Queued
<1>3. pos \in Nodes /\ pos \notin {procRunQ, Null} /\ Queued(pos)
  BY <1>1 DEF Nodes, Procs, procRunQ, Null, QInv
<1>4. save = links.next[pos]
  BY <1>1, <1>3 DEF QInv, LIST_NEXT_ENTRY_OR_NULL
<1>5. save \in Nodes /\ (save \in Procs => Queued(save)) /\ save # pos
  BY <1>1, <1>3, <1>4, NextOnQueue
<1>6. \A p \in Procs : state'[p] = IF p = pos THEN "Free" ELSE state[p]
  BY <1>1 DEF QInv, TypeOK
<1>7. links' \in Lists
  BY <1>2 DEF Moves, Ring
<1>8. save' \in Nodes \cup {Null}
  BY <1>1, <1>5, <1>7 DEF LIST_NEXT_ENTRY_OR_NULL, Lists
<1>9. TypeOK'
  BY <1>1, <1>5, <1>7, <1>8 DEF QInv, TypeOK, psVars, Lists, States
<1>10. (\A p \in Procs : state[p] = "Running" <=> p = rp)'
  BY <1>1, <1>6 DEF QInv
<1> QED BY <1>1, <1>2, <1>5, <1>6, <1>9, <1>10, MovesQInv DEF QInv, Queued, psVars

(* A Ready one is taken off and runs. *)
LEMMA ScanReadyKeeps ==
  ASSUME RunQueueAssumption, QInv, scanReady
  PROVE  QInv' /\ Moves
<1>1. /\ phase = "scan" /\ pos \in Procs /\ state[pos] = "Ready"
      /\ links' = listUnlinkAndInit(links, pos)
      /\ state' = [state EXCEPT ![pos] = "Running"]
      /\ rp' = pos /\ phase' = "idle" /\ pos' = Null /\ save' = Null /\ UNCHANGED psVars
  BY DEF scanReady
<1>2. Moves
  BY <1>1, QueueShrinks DEF Queued
<1>3. \A p \in Procs : state[p] # "Running"
  BY <1>1 DEF QInv, BadProc, Procs
<1>4. \A p \in Procs : state'[p] = IF p = pos THEN "Running" ELSE state[p]
  BY <1>1 DEF QInv, TypeOK
<1>5. links' \in Lists
  BY <1>2 DEF Moves, Ring
<1>6. TypeOK'
  BY <1>1, <1>5 DEF QInv, TypeOK, psVars, Lists, States
<1> QED BY <1>1, <1>2, <1>3, <1>4, <1>6, MovesQInv DEF QInv, psVars

(* The scan has found nobody. *)
LEMMA EndScanKeeps ==
  ASSUME RunQueueAssumption, QInv, endScan
  PROVE  QInv' /\ Moves
<1>1. /\ phase = "scan" /\ phase' = "pick" /\ pos' = Null /\ save' = Null
      /\ UNCHANGED <<links, state, rp, psVars>>
  BY DEF endScan
<1>2. Moves
  BY <1>1, QueueStays DEF Queued
<1>3. TypeOK'
  BY <1>1 DEF QInv, TypeOK, psVars
<1> QED BY <1>1, <1>2, <1>3, MovesQInv DEF QInv, psVars

(* Every step keeps the queue whole and is a step of a queue. *)
LEMMA NextQInv ==
  ASSUME RunQueueAssumption, QInv, [Next]_vars
  PROVE  QInv' /\ [Queue!Next]_(follow(links.next))
<1>1. CASE UNCHANGED vars
  <2>1. Moves
    BY <1>1, QueueStays DEF Queued, vars
  <2>2. QInv'
    BY <1>1 DEF QInv, TypeOK, Queued, vars, psVars, scanVars
  <2> QED BY <2>1, <2>2 DEF Moves
<1>2. CASE ps
  BY <1>2, PsKeeps DEF Moves
<1>3. CASE scheduler
  BY <1>3, ScheduleKeeps, BeginScanKeeps, ScanDeadKeeps, ScanNotReadyKeeps,
     ScanReadyKeeps, EndScanKeeps DEF scheduler, Moves
<1>4. ASSUME NEW p \in Procs, NEW q \in Procs, schedProc(p, q)
      PROVE  QInv' /\ [Queue!Next]_(follow(links.next))
  BY <1>4, SchedProcKeeps DEF Moves
<1>5. ASSUME NEW q \in Procs, wake(q)
      PROVE  QInv' /\ [Queue!Next]_(follow(links.next))
  BY <1>5, WakeKeeps DEF Moves
<1> QED BY <1>1, <1>2, <1>3, <1>4, <1>5 DEF Next
-----------------------------------------------------------------------------
(* For any number of Procs, whoever waits, dies or is spawned: the run queue is
   whole in both directions and holds everything alive but the running process,
   in every state of the scan (nextRunnableProc, scheduleProc, schedProc). *)
THEOREM QueueStaysSound == ASSUME RunQueueAssumption PROVE Spec => []QueueIsSound
<1>1. QInv => QueueIsSound
  BY QInvIsSound
<1>2. Init => QInv
  BY InitQInv
<1>3. QInv /\ [Next]_vars => QInv'
  BY NextQInv
<1> QED BY <1>1, <1>2, <1>3, PTL DEF Spec

(* ... and ps, preempted anywhere, does not stand on a Proc that is off the
   queue, unless it was recycled (cmdPs__Main). *)
THEOREM PsStaysOnQueue == ASSUME RunQueueAssumption PROVE Spec => []CursorOnQueue
<1>1. QInv => CursorOnQueue
  BY QInvIsSound
<1>2. Init => QInv
  BY InitQInv
<1>3. QInv /\ [Next]_vars => QInv'
  BY NextQInv
<1> QED BY <1>1, <1>2, <1>3, PTL DEF Spec

(* The pointers implement the queue that Sched takes procRunQ for. *)
THEOREM LinksImplementQueue == ASSUME RunQueueAssumption PROVE Spec => ImplementsQueue
<1>1. Init => Queue!Init
  <2> SUFFICES ASSUME Init PROVE Queue!Init
    OBVIOUS
  <2>1. PICK q : Ring(links, q)
    BY InitQInv DEF QInv
  <2>2. follow(links.next) = q /\ q \in Seq(Procs) /\ Distinct(q)
    BY <2>1, RingIsFollowed DEF Ring
  <2> QED BY <2>2 DEF Queue!Init, Queue!IsInjective, Distinct
<1>2. Init => QInv
  BY InitQInv
<1>3. QInv /\ [Next]_vars => QInv' /\ [Queue!Next]_(follow(links.next))
  BY NextQInv
<1> QED BY <1>1, <1>2, <1>3, PTL DEF Spec, ImplementsQueue, Queue!Spec
-----------------------------------------------------------------------------
(* When nobody waits or dies, the queue only turns.  The Procs have places in
   the order in which they run: ps is at 0 and the others follow. *)
pid(j) == IF j = 0 THEN Ps ELSE IF j < Ps THEN j ELSE j + 1

plus(b, i) == IF b + i >= MaxProc THEN b + i - MaxProc ELSE b + i

Places == 0..(MaxProc - 1)

(* The queue behind the process at place b. *)
Turned(q, b) == \A i \in 1..Len(q) : q[i] = pid(plus(b, i))

BusyInv ==
  /\ \A p \in Procs : state[p] = IF p = rp THEN "Running" ELSE "Ready"
  /\ \E q, b : /\ Ring(links, q) /\ b \in Places /\ Turned(q, b)
               /\ phase = "idle" => Len(q) = MaxProc - 1 /\ rp = pid(b)
               /\ phase # "idle" => Len(q) = MaxProc
  /\ phase = "scan" => pos = links.next[procRunQ] /\ pos \in Procs

(* ps has listed the Procs at the places before the one it stands on. *)
WalkInv ==
  /\ pc \in {"print", "next"} /\ cursor \in Procs =>
       \E i \in 1..(MaxProc - 1) :
         /\ cursor = pid(i)
         /\ \A j \in 0..(i - 1) : pid(j) \in listed
         /\ pc = "next" => cursor \in listed
  /\ pc = "done" \/ (pc = "print" /\ cursor \in {Null, procRunQ}) => Procs \subseteq listed

(* Every Proc has one place. *)
LEMMA PlacesAre ==
  ASSUME RunQueueAssumption
  PROVE  /\ MaxProc \in Nat /\ MaxProc >= 1 /\ Ps \in Int
         /\ \A j \in Places : pid(j) \in Procs
         /\ \A i, j \in Places : pid(i) = pid(j) => i = j
         /\ \A p \in Procs : \E j \in Places : p = pid(j)
         /\ pid(0) = Ps /\ 0 \in Places
         /\ \A b \in Places : plus(b, MaxProc) = b
         /\ \A b \in Places : \A i \in 1..MaxProc : plus(b, i) \in Places
         /\ \A b \in Places : \A i \in 1..(MaxProc - 1) : plus(plus(b, 1), i) = plus(b, i + 1)
         /\ \A i \in Places : plus(0, i) = i
<1>1. MaxProc \in Nat /\ Ps \in 1..MaxProc /\ Ps \in Int
  BY DEF RunQueueAssumption, Procs
<1>2. ASSUME NEW p \in Procs PROVE \E j \in Places : p = pid(j)
  <2>1. CASE p = Ps
    BY <1>1, <2>1 DEF pid, Places
  <2>2. CASE p < Ps
    <3>1. p \in Places /\ p = pid(p)
      BY <1>1, <2>2 DEF pid, Procs, Places
    <3> QED BY <3>1
  <2>3. CASE p > Ps
    <3>1. p - 1 \in Places /\ p = pid(p - 1)
      BY <1>1, <2>3 DEF pid, Procs, Places
    <3> QED BY <3>1
  <2> QED BY <1>1, <2>1, <2>2, <2>3 DEF Procs
<1>3. /\ \A j \in Places : pid(j) \in Procs
      /\ \A i, j \in Places : pid(i) = pid(j) => i = j
      /\ pid(0) = Ps /\ 0 \in Places
  BY <1>1 DEF pid, Procs, Places
<1>4. /\ \A b \in Places : plus(b, MaxProc) = b
      /\ \A b \in Places : \A i \in 1..MaxProc : plus(b, i) \in Places
      /\ \A b \in Places : \A i \in 1..(MaxProc - 1) : plus(plus(b, 1), i) = plus(b, i + 1)
      /\ \A i \in Places : plus(0, i) = i
  BY <1>1 DEF plus, Places
<1> QED BY <1>1, <1>2, <1>3, <1>4

(* Init queues the others in the order of their places. *)
LEMMA InitBusy == ASSUME RunQueueAssumption, Init PROVE BusyInv /\ WalkInv
<1> DEFINE q == [i \in 1..(MaxProc - 1) |-> IF i < Ps THEN i ELSE i + 1]
<1>1. Ring(links, q)
  BY InitQInv
<1>2. /\ state = [p \in Procs |-> IF p = Ps THEN "Running" ELSE "Ready"]
      /\ rp = Ps /\ pc = "start" /\ phase = "idle"
  BY DEF Init
<1>3. Len(q) = MaxProc - 1
  <2>1. MaxProc - 1 \in Nat
    BY PlacesAre
  <2> QED BY <2>1
<1>4. Turned(q, 0)
  <2>1. ASSUME NEW i \in 1..(MaxProc - 1) PROVE q[i] = pid(plus(0, i))
    BY PlacesAre DEF pid, Places
  <2> HIDE DEF q
  <2> QED BY <1>3, <2>1 DEF Turned
<1> HIDE DEF q
<1>5. 0 \in Places /\ rp = pid(0)
  BY <1>2, PlacesAre
<1> QED BY <1>1, <1>2, <1>3, <1>4, <1>5 DEF BusyInv, WalkInv

(* What the scheduler does when everyone is busy: it queues the process that
   ran and takes the first one off. *)
LEMMA NextBusy ==
  ASSUME RunQueueAssumption, Waiters = {}, Mortals = {}, QInv, BusyInv, [Next]_vars
  PROVE  BusyInv'
<1>1. PICK q, b : /\ Ring(links, q) /\ b \in Places /\ Turned(q, b)
                  /\ phase = "idle" => Len(q) = MaxProc - 1 /\ rp = pid(b)
                  /\ phase # "idle" => Len(q) = MaxProc
  BY DEF BusyInv
<1>2. q \in Seq(Procs) /\ Distinct(q) /\ MaxProc \in Nat /\ MaxProc >= 1
  BY <1>1, PlacesAre DEF Ring
<1>3. phase # "idle" => /\ links.next[procRunQ] = q[1] /\ q[1] \in Procs /\ 1 \in 1..Len(q)
                        /\ rp \notin Procs
  <2> SUFFICES ASSUME phase # "idle"
               PROVE  /\ links.next[procRunQ] = q[1] /\ q[1] \in Procs /\ 1 \in 1..Len(q)
                      /\ rp \notin Procs
    OBVIOUS
  <2>1. 1 \in 1..Len(q) /\ 0 \in 0..Len(q) /\ 0 + 1 = 1
    BY <1>1, <1>2
  <2>2. links.next[nth(q, 0)] = nth(q, 0 + 1)
    BY <1>1, <2>1 DEF Ring, Leads
  <2>3. nth(q, 0) = procRunQ /\ nth(q, 1) = q[1] /\ q[1] \in Procs
    BY <1>2, <2>1, NthNode
  <2>4. rp \notin Procs
    BY DEF QInv, BadProc, Procs
  <2> QED BY <2>1, <2>2, <2>3, <2>4
<1>4. ASSUME UNCHANGED <<links, state, rp, phase, pos>> PROVE BusyInv'
  BY <1>4 DEF BusyInv
<1>5. CASE UNCHANGED vars
  BY <1>4, <1>5 DEF vars, scanVars
<1>6. CASE ps
  BY <1>4, <1>6 DEF ps, psLock, psPrint, psNext, psUnlock, scanVars
<1>7. ASSUME NEW s \in {"Ready", "Waiting", "Dead"}, scheduleProc(s) PROVE BusyInv'
  <2>1. /\ s = "Ready" /\ phase = "idle" /\ rp \in Procs /\ rp' = BadProc /\ phase' = "pick"
        /\ links' = listAddBefore(links, rp, procRunQ) /\ state' = [state EXCEPT ![rp] = "Ready"]
    BY <1>7 DEF scheduleProc, queueProc
  <2>2. \A i \in 1..Len(q) : q[i] # rp
    <3> SUFFICES ASSUME NEW i \in 1..(MaxProc - 1) PROVE pid(plus(b, i)) # pid(b)
      BY <1>1, <2>1 DEF Turned
    <3>1. plus(b, i) # b /\ plus(b, i) \in Places
      BY <1>1, <1>2 DEF plus, Places
    <3> QED BY <1>1, <3>1, PlacesAre
  <2>3. Ring(links', Append(q, rp))
    BY <1>1, <2>1, <2>2, RingAppend
  <2>4. /\ Len(Append(q, rp)) = MaxProc /\ Append(q, rp)[MaxProc] = rp
        /\ \A i \in 1..(MaxProc - 1) : Append(q, rp)[i] = q[i]
    BY <1>1, <1>2, <2>1
  <2>5. Turned(Append(q, rp), b)
    <3> SUFFICES ASSUME NEW i \in 1..MaxProc PROVE Append(q, rp)[i] = pid(plus(b, i))
      BY <2>4 DEF Turned
    <3>1. CASE i = MaxProc
      BY <1>1, <2>1, <2>4, <3>1, PlacesAre
    <3>2. CASE i # MaxProc
      BY <1>1, <1>2, <2>1, <2>4, <3>2 DEF Turned
    <3> QED BY <3>1, <3>2
  <2>6. \A p \in Procs : state'[p] = "Ready" /\ p # rp'
    BY <2>1 DEF BusyInv, QInv, TypeOK, BadProc, Procs
  <2> QED BY <1>1, <2>1, <2>3, <2>4, <2>5, <2>6 DEF BusyInv
<1>8. CASE beginScan
  <2>1. UNCHANGED <<links, state, rp>> /\ phase = "pick" /\ phase' = "scan"
        /\ pos' = LIST_FIRST_ENTRY_OR_NULL(links, procRunQ)
    BY <1>8 DEF beginScan
  <2>2. procRunQ \notin Procs
    BY DEF Procs, procRunQ
  <2>3. pos' = q[1]
    BY <1>3, <2>1, <2>2 DEF LIST_FIRST_ENTRY_OR_NULL, listIsEmpty
  <2> QED BY <1>1, <1>3, <2>1, <2>3 DEF BusyInv
<1>9. phase = "scan" => state[pos] = "Ready" /\ pos = q[1]
  BY <1>3 DEF BusyInv
<1>10. CASE scanReady
  <2>1. /\ phase = "scan" /\ links' = listUnlinkAndInit(links, q[1])
        /\ rp' = q[1] /\ state' = [state EXCEPT ![q[1]] = "Running"] /\ phase' = "idle"
    BY <1>9, <1>10 DEF scanReady
  <2>2. Ring(links', without(q, 1))
    BY <1>1, <1>3, <2>1, RingUnlink
  <2>3. /\ Len(without(q, 1)) = MaxProc - 1
        /\ \A i \in 1..(MaxProc - 1) : without(q, 1)[i] = q[i + 1]
    <3>1. without(q, 1) = [i \in 1..(MaxProc - 1) |-> q[i + 1]]
      BY <1>1, <2>1 DEF without
    <3>2. MaxProc - 1 \in Nat
      BY <1>2
    <3> QED BY <3>1, <3>2
  <2>4. rp' = pid(plus(b, 1)) /\ plus(b, 1) \in Places
    BY <1>1, <1>2, <1>3, <2>1, PlacesAre DEF Turned
  <2>5. Turned(without(q, 1), plus(b, 1))
    <3> SUFFICES ASSUME NEW i \in 1..(MaxProc - 1) PROVE q[i + 1] = pid(plus(plus(b, 1), i))
      BY <2>3 DEF Turned
    <3>1. i + 1 \in 1..Len(q)
      BY <1>1, <1>2, <2>1
    <3> QED BY <1>1, <3>1, PlacesAre DEF Turned
  <2>6. \A p \in Procs : state'[p] = IF p = rp' THEN "Running" ELSE "Ready"
    BY <1>3, <2>1 DEF BusyInv, QInv, TypeOK
  <2> QED BY <2>1, <2>2, <2>3, <2>4, <2>5, <2>6 DEF BusyInv
<1>11. ~scanDead /\ ~scanNotReady
  BY <1>9 DEF scanDead, scanNotReady
<1>12. ~endScan
  BY <1>3, <1>9 DEF endScan, Procs, Null, procRunQ
<1>13. \A p, x \in Procs : ~schedProc(p, x) /\ ~wake(x)
  BY DEF BusyInv, schedProc, wake
<1> QED BY <1>5, <1>6, <1>7, <1>8, <1>10, <1>11, <1>12, <1>13 DEF Next, scheduler

(* ps runs when the queue has turned to where it was, and goes on to the next
   place. *)
LEMMA NextWalk ==
  ASSUME RunQueueAssumption, QInv, BusyInv, WalkInv, [Next]_vars
  PROVE  WalkInv'
<1>1. /\ MaxProc \in Nat /\ MaxProc >= 1
      /\ \A p \in Procs : p # procRunQ /\ p # Null
  <2>1. MaxProc \in Nat /\ MaxProc >= 1
    BY PlacesAre
  <2> QED BY <2>1 DEF Procs, procRunQ, Null
<1>2. ASSUME UNCHANGED <<pc, cursor, listed>> PROVE WalkInv'
  BY <1>2 DEF WalkInv
<1>3. ASSUME Runs(Ps)
      PROVE  \E q \in Seq(Procs) :
               /\ Len(q) = MaxProc - 1 /\ Leads(links.next, q)
               /\ \A i \in 1..(MaxProc - 1) : q[i] = pid(i)
  <2>1. PICK q, b : /\ Ring(links, q) /\ b \in Places /\ Turned(q, b)
                    /\ Len(q) = MaxProc - 1 /\ Ps = pid(b)
    BY <1>3 DEF BusyInv, Runs
  <2>2. b = 0
    BY <2>1, PlacesAre
  <2>3. \A i \in 1..(MaxProc - 1) : q[i] = pid(i)
    <3> SUFFICES ASSUME NEW i \in 1..(MaxProc - 1) PROVE q[i] = pid(i)
      OBVIOUS
    <3>1. q[i] = pid(plus(0, i))
      BY <2>1, <2>2 DEF Turned
    <3>2. plus(0, i) = i
      BY <1>1 DEF plus
    <3> QED BY <3>1, <3>2
  <2> QED BY <2>1, <2>3 DEF Ring
<1>4. CASE psLock
  <2>1. /\ pc' = "print" /\ listed' = {Ps} /\ cursor' = LIST_FIRST_ENTRY_OR_NULL(links, procRunQ)
        /\ Runs(Ps)
    BY <1>4 DEF psLock
  <2>2. PICK q \in Seq(Procs) : /\ Len(q) = MaxProc - 1 /\ Leads(links.next, q)
                                /\ \A i \in 1..(MaxProc - 1) : q[i] = pid(i)
    BY <1>3, <2>1
  <2>3. links.next[procRunQ] = nth(q, 1)
    <3>1. 0 \in 0..Len(q) /\ nth(q, 0) = procRunQ /\ 0 + 1 = 1
      BY <1>1, <2>2, NthNode
    <3>2. links.next[nth(q, 0)] = nth(q, 0 + 1)
      BY <2>2, <3>1 DEF Leads
    <3> QED BY <3>1, <3>2
  <2>4. CASE MaxProc = 1
    <3>1. nth(q, 1) = procRunQ /\ Procs = {Ps}
      BY <2>2, <2>4 DEF nth, RunQueueAssumption, Procs
    <3>2. cursor' = Null
      BY <2>1, <2>3, <3>1 DEF LIST_FIRST_ENTRY_OR_NULL, listIsEmpty
    <3> QED BY <1>1, <2>1, <3>1, <3>2 DEF WalkInv
  <2>5. CASE MaxProc > 1
    <3>1. 1 \in 1..(MaxProc - 1)
      BY <1>1, <2>5
    <3>2. nth(q, 1) = pid(1) /\ pid(1) \in Procs
      BY <2>2, <3>1, NthNode
    <3>3. cursor' = pid(1)
      BY <1>1, <2>1, <2>3, <3>2 DEF LIST_FIRST_ENTRY_OR_NULL, listIsEmpty
    <3>4. \A j \in 0..(1 - 1) : pid(j) \in listed'
      BY <2>1, PlacesAre
    <3> QED BY <1>1, <2>1, <3>1, <3>2, <3>3, <3>4 DEF WalkInv
  <2> QED BY <1>1, <2>4, <2>5
<1>5. CASE psPrint
  <2>1. /\ pc = "print" /\ cursor \notin {Null, procRunQ} /\ listed' = listed \cup {cursor}
        /\ pc' = "next" /\ cursor' = cursor
    BY <1>5 DEF psPrint
  <2>2. cursor \in Procs
    BY <2>1 DEF QInv, TypeOK, Nodes
  <2> QED BY <2>1, <2>2 DEF WalkInv
<1>6. CASE psNext
  <2>1. /\ pc = "next" /\ cursor \in Procs /\ cursor' = links.next[cursor] /\ pc' = "print"
        /\ listed' = listed /\ Runs(Ps)
    BY <1>6 DEF psNext, QInv
  <2>2. PICK i \in 1..(MaxProc - 1) :
          /\ cursor = pid(i) /\ cursor \in listed
          /\ \A j \in 0..(i - 1) : pid(j) \in listed
    BY <2>1 DEF WalkInv
  <2>3. PICK q \in Seq(Procs) : /\ Len(q) = MaxProc - 1 /\ Leads(links.next, q)
                                /\ \A j \in 1..(MaxProc - 1) : q[j] = pid(j)
    BY <1>3, <2>1
  <2>4. cursor' = nth(q, i + 1)
    <3>1. nth(q, i) = cursor /\ i \in 0..Len(q)
      BY <1>1, <2>2, <2>3, NthNode
    <3> QED BY <2>1, <2>3, <3>1 DEF Leads
  <2>5. \A j \in 0..i : pid(j) \in listed'
    <3>1. \A j \in 0..i : j = i \/ j \in 0..(i - 1)
      OBVIOUS
    <3> QED BY <2>1, <2>2, <3>1
  <2>6. CASE i = MaxProc - 1
    <3>1. cursor' = procRunQ
      BY <1>1, <2>3, <2>4, <2>6 DEF nth
    <3>2. \A j \in Places : pid(j) \in listed'
      BY <2>5, <2>6 DEF Places
    <3>3. Procs \subseteq listed'
      BY <3>2, PlacesAre
    <3> QED BY <1>1, <2>1, <3>1, <3>3 DEF WalkInv
  <2>7. CASE i < MaxProc - 1
    <3>1. i + 1 \in 1..(MaxProc - 1) /\ (i + 1) - 1 = i
      BY <1>1, <2>7
    <3>2. cursor' = pid(i + 1) /\ cursor' \in Procs
      BY <2>3, <2>4, <3>1, NthNode
    <3> QED BY <1>1, <2>1, <2>5, <3>1, <3>2 DEF WalkInv
  <2> QED BY <1>1, <2>6, <2>7
<1>7. CASE psUnlock
  BY <1>7 DEF psUnlock, WalkInv
<1>8. CASE scheduler
  BY <1>2, <1>8 DEF scheduler, scheduleProc, beginScan, scanDead, scanNotReady, scanReady,
                    endScan, psVars
<1>9. ASSUME NEW p \in Procs, NEW x \in Procs, schedProc(p, x) \/ wake(x) PROVE WalkInv'
  BY <1>2, <1>9 DEF schedProc, wake, psVars
<1>10. CASE UNCHANGED vars
  BY <1>2, <1>10 DEF vars, psVars
<1> QED BY <1>4, <1>5, <1>6, <1>7, <1>8, <1>9, <1>10 DEF Next, ps

(* For any number of busy processes ps lists every one that was there when it
   began, wherever it is preempted: the queue turns as a whole, and has turned
   once when ps goes on (cmdPs__Main, nextRunnableProc). *)
THEOREM BusyPsListsAll ==
  ASSUME RunQueueAssumption, Waiters = {}, Mortals = {}
  PROVE  Spec => []ListsAll
<1>1. QInv /\ WalkInv => ListsAll
  BY DEF QInv, TypeOK, WalkInv, ListsAll
<1>2. Init => QInv /\ BusyInv /\ WalkInv
  BY InitQInv, InitBusy
<1>3. QInv /\ BusyInv /\ WalkInv /\ [Next]_vars => (QInv /\ BusyInv /\ WalkInv)'
  BY NextQInv, NextBusy, NextWalk
<1> QED BY <1>1, <1>2, <1>3, PTL DEF Spec
-----------------------------------------------------------------------------

(***************************************************************************)
(* Critical regions exclude each other and give the machine back as they   *)
(* found it, for any number of threads and any depth of nesting, in system *)
(* calls and in the processes' own code, until the first time another      *)
(* thread takes a step while one is in a region of its own code.           *)
(***************************************************************************)

(* Where a thread is says how deep it is, whatever the counter does. *)
Nested(t) ==
  /\ step[t] = "out" => depth[t] = 0
  /\ step[t] \in {"in", "unload", "unstore"} => depth[t] > 0
  /\ step[t] \in {"test", "cpsid", "load", "store"} => depth[t] < MaxDepth

(* The thread that has the machine is inside enterCriticalRegion, a region, or
   leaveCriticalRegion. *)
Holding(t) ==
  /\ step[t] \in {"test", "load", "store", "in", "unload", "unstore", "untest", "cpsie"}
  /\ step[t] = "test" => depth[t] > 0
  /\ step[t] \in {"store", "unstore"} => reg[t] = depth[t]
  /\ step[t] = "cpsie" => depth[t] = 0

(* The counter is the depth of the one thread h that has the machine, if any,
   and every other thread is still in front of its cpsid.  It has masked
   interrupts, or it runs its own code and could not. *)
HeldBy(h) ==
  /\ \A t \in Threads : t # h => step[t] \in {"out", "test", "cpsid"} /\ depth[t] = 0
  /\ h = NoThread => criticalRegionCount = 0 /\ primask = NoThread
  /\ h # NoThread => /\ h \in Threads /\ criticalRegionCount = depth[h] /\ Holding(h)
                     /\ primask = IF user[h] THEN NoThread ELSE h

(* RegionsHold is not inductive: it does not say that what a thread loaded is
   what it will overwrite, nor that a thread that has read 0 is not yet in. *)
RegionInv ==
  /\ RegionTypeOK /\ \A t \in Threads : Nested(t)
  /\ ~ split => \E h \in Threads \cup {NoThread} : HeldBy(h)

(* Nothing is in a region when the machine starts. *)
LEMMA InitRegionInv == ASSUME RegionAssumption PROVE RegionInit => RegionInv
<1> SUFFICES ASSUME RegionInit PROVE RegionInv
  OBVIOUS
<1>1. RegionTypeOK
  <2>1. 0 \in 0..MaxDepth
    BY DEF RegionAssumption
  <2>2. depth \in [Threads -> 0..MaxDepth] /\ reg \in [Threads -> Int]
    BY <2>1 DEF RegionInit
  <2>3. step \in [Threads -> RegionSteps]
    BY DEF RegionInit, RegionSteps
  <2>4. user \in [Threads -> BOOLEAN] /\ split \in BOOLEAN
    BY Zenon DEF RegionInit
  <2>5. criticalRegionCount \in Int /\ primask \in Threads \cup {NoThread}
    BY DEF RegionInit
  <2> QED BY <2>2, <2>3, <2>4, <2>5 DEF RegionTypeOK
<1>2. \A t \in Threads : Nested(t)
  BY DEF RegionInit, Nested
<1>3. HeldBy(NoThread)
  BY DEF RegionInit, HeldBy
<1> QED BY <1>1, <1>2, <1>3 DEF RegionInv

(* Each access to the counter or the mask keeps the types and the depths. *)
LEMMA NextNested ==
  ASSUME RegionAssumption, RegionInv, RegionNext
  PROVE  RegionTypeOK' /\ \A t \in Threads : Nested(t)'
<1> USE DEF RegionAssumption, RegionInv, RegionTypeOK, RegionSteps, Nested, goto
<1>1. PICK t \in Threads : begin(t) \/ nest(t) \/ entering(t) \/ exiting(t)
  BY DEF RegionNext
<1>2. CASE begin(t)
  BY <1>2 DEF begin
<1>3. CASE nest(t)
  BY <1>3 DEF nest
<1>4. CASE testCount(t)
  BY <1>4 DEF testCount
<1>5. CASE DISABLE_INTERRUPTS(t)
  BY <1>5 DEF DISABLE_INTERRUPTS
<1>6. CASE loadCount(t)
  BY <1>6 DEF loadCount
<1>7. CASE increment(t)
  BY <1>7 DEF increment
<1>8. CASE leave(t)
  BY <1>8 DEF leave
<1>9. CASE decrement(t)
  BY <1>9 DEF decrement
<1>10. CASE untestCount(t)
  BY <1>10 DEF untestCount, left
<1>11. CASE ENABLE_INTERRUPTS(t)
  BY <1>11 DEF ENABLE_INTERRUPTS, left
<1> QED
  BY <1>1, <1>2, <1>3, <1>4, <1>5, <1>6, <1>7, <1>8, <1>9, <1>10, <1>11 DEF entering, exiting

(* As long as no region of a thread's own code is split, one thread has the
   machine, or nobody. *)
LEMMA NextHeld ==
  ASSUME RegionAssumption, RegionInv, RegionNext, ~ split'
  PROVE  \E h \in Threads \cup {NoThread} : HeldBy(h)'
<1> USE DEF RegionAssumption, RegionInv, RegionTypeOK, RegionSteps, Nested, Holding, HeldBy, goto
<1>1. PICK t \in Threads : begin(t) \/ nest(t) \/ entering(t) \/ exiting(t)
  BY DEF RegionNext
<1>2. PICK h \in Threads \cup {NoThread} : HeldBy(h) /\ (h # NoThread => t = h)
  <2>1. ~ split /\ primask \in {NoThread, t} /\ \A u \in Threads \ {t} : ~ (user[u] /\ step[u] # "out")
    BY <1>1 DEF begin, nest, entering, exiting, testCount, DISABLE_INTERRUPTS, loadCount, increment,
                leave, decrement, untestCount, ENABLE_INTERRUPTS
  <2>2. PICK h \in Threads \cup {NoThread} : HeldBy(h)
    BY <2>1
  <2>3. h # NoThread => t = h
    BY <2>1, <2>2
  <2> QED BY <2>2, <2>3
<1>3. CASE begin(t)
  <2>1. h = NoThread /\ HeldBy(NoThread)'
    BY <1>1, <1>2, <1>3 DEF begin
  <2> QED BY <2>1
<1>4. CASE nest(t)
  <2>1. HeldBy(t)'
    BY <1>1, <1>2, <1>4 DEF nest
  <2> QED BY <2>1
<1>5. CASE testCount(t)
  <2>1. HeldBy(h)'
    BY <1>1, <1>2, <1>5 DEF testCount
  <2> QED BY <2>1
<1>6. CASE DISABLE_INTERRUPTS(t)
  <2>1. HeldBy(t)'
    BY <1>1, <1>2, <1>6 DEF DISABLE_INTERRUPTS, privileged
  <2> QED BY <2>1
<1>7. CASE loadCount(t)
  <2>1. HeldBy(t)'
    BY <1>1, <1>2, <1>7 DEF loadCount
  <2> QED BY <2>1
<1>8. CASE increment(t)
  <2>1. HeldBy(t)'
    BY <1>1, <1>2, <1>8 DEF increment
  <2> QED BY <2>1
<1>9. CASE leave(t)
  <2>1. HeldBy(t)'
    BY <1>1, <1>2, <1>9 DEF leave
  <2> QED BY <2>1
<1>10. CASE decrement(t)
  <2>1. HeldBy(t)'
    BY <1>1, <1>2, <1>10 DEF decrement
  <2> QED BY <2>1
<1>11. CASE untestCount(t)
  <2>1. HeldBy(t)'
    BY <1>1, <1>2, <1>11 DEF untestCount, left
  <2> QED BY <2>1
<1>12. CASE ENABLE_INTERRUPTS(t)
  <2>1. HeldBy(NoThread)'
    BY <1>1, <1>2, <1>12 DEF ENABLE_INTERRUPTS, privileged, left
  <2> QED BY <2>1
<1> QED
  BY <1>1, <1>3, <1>4, <1>5, <1>6, <1>7, <1>8, <1>9, <1>10, <1>11, <1>12 DEF entering, exiting

(* Every step keeps RegionInv. *)
LEMMA NextRegionInv ==
  ASSUME RegionAssumption
  PROVE  RegionInv /\ [RegionNext]_regionVars => RegionInv'
<1>1. ASSUME RegionInv, RegionNext PROVE RegionInv'
  BY <1>1, NextNested, NextHeld DEF RegionInv
<1>2. ASSUME RegionInv, UNCHANGED regionVars PROVE RegionInv'
  BY <1>2 DEF regionVars, RegionInv, RegionTypeOK, Nested, HeldBy, Holding
<1> QED BY <1>1, <1>2

(* Only the thread that has the machine can be in a region. *)
LEMMA RegionInvSuffices == ASSUME RegionAssumption PROVE RegionInv => RegionsHold
<1> SUFFICES ASSUME RegionInv, ~ split PROVE RegionsExclude /\ CountReturnsToZero
  BY DEF RegionInv, RegionsHold
<1> DEFINE In == {t \in Threads : depth[t] > 0}
<1>1. PICK h \in Threads \cup {NoThread} : HeldBy(h)
  BY DEF RegionInv
<1>2. In = {} \/ In = {h}
  BY <1>1 DEF HeldBy
<1>3. Cardinality(In) <= 1
  <2> HIDE DEF In
  <2>1. Cardinality({}) = 0 /\ Cardinality({h}) = 1
    BY FS_EmptySet, FS_Singleton, Zenon
  <2> QED BY <1>2, <2>1
<1>4. CountReturnsToZero
  BY <1>1 DEF HeldBy, CountReturnsToZero, Holding
<1> QED BY <1>3, <1>4 DEF RegionsExclude

(* enterCriticalRegion and leaveCriticalRegion, in system calls and in the
   processes' own code: no two threads are in a region at once, however regions
   nest and wherever threads are preempted between the accesses to
   criticalRegionCount, and with nobody in one the count is 0 and interrupts are
   enabled, until a thread is preempted in a region of its own code by one that
   enters or leaves a region. *)
THEOREM RegionsHoldUnlessSplit ==
  ASSUME RegionAssumption
  PROVE  RegionSpec => []RegionsHold
  BY InitRegionInv, NextRegionInv, RegionInvSuffices, PTL DEF RegionSpec
-----------------------------------------------------------------------------

(***************************************************************************)
(* Sleepers and their alarms, for any number of processes, any durations   *)
(* and any length of time: nobody is woken early, and the timer's handler  *)
(* signals no process that is gone, as long as nobody is killed or         *)
(* continued during a sleep; and if somebody is, only the later processes  *)
(* and sleeps of that pid are affected.                                    *)
(***************************************************************************)

(* A queued alarm is that of a process which still sleeps, for the time it asked
   for, and it was not signalled yet; a signal that is pending is for a process
   in its sleep; and a sleep whose alarm is not queued any more has lasted.
   Nothing is said of the disturbed pids: their alarms come late, for whoever
   has the pid then. *)
AlarmInv ==
  /\ AlarmsTypeOK
  /\ \A a \in alarms : a.pid \notin disturbed =>
       /\ a.wakeTime = until[a.pid] /\ ~ sigAlarm[a.pid]
       /\ procState[a.pid] # "Dead" /\ ~ Awake(a.pid)
  /\ \A p \in Pid \ disturbed : sigAlarm[p] => ~ Awake(p)
  /\ \A p \in Pid \ disturbed : systime >= until[p] \/ HasAlarm(p)
  /\ SleepLasts
  /\ AlarmFindsProcess
-----------------------------------------------------------------------------
(* recycleProc() puts a Proc at the tail of the free list. *)
LEMMA AppendToSet ==
  ASSUME NEW S, NEW s \in Seq(S), NEW x \in S, IsInjective(s), x \notin ToSet(s)
  PROVE  /\ Append(s, x) \in Seq(S) /\ IsInjective(Append(s, x))
         /\ ToSet(Append(s, x)) = ToSet(s) \cup {x}
<1> DEFINE t == Append(s, x)
<1>1. /\ t \in Seq(S) /\ DOMAIN t = 1..(Len(s) + 1) /\ DOMAIN s = 1..Len(s) /\ Len(s) \in Nat
      /\ \A i \in 1..Len(s) : t[i] = s[i]
      /\ t[Len(s) + 1] = x
  OBVIOUS
<1>2. ToSet(t) = ToSet(s) \cup {x}
  BY <1>1 DEF ToSet
<1>3. IsInjective(t)
  BY <1>1 DEF ToSet, IsInjective
<1> QED BY <1>1, <1>2, <1>3

(* newProc() takes the head of the free list. *)
LEMMA TailToSet ==
  ASSUME NEW S, NEW s \in Seq(S), s # <<>>, IsInjective(s)
  PROVE  /\ Tail(s) \in Seq(S) /\ IsInjective(Tail(s)) /\ Head(s) \in ToSet(s)
         /\ ToSet(Tail(s)) = ToSet(s) \ {Head(s)}
<1> DEFINE t == Tail(s)
<1>1. /\ t \in Seq(S) /\ Len(s) \in Nat \ {0} /\ DOMAIN s = 1..Len(s)
      /\ DOMAIN t = 1..(Len(s) - 1)
      /\ \A i \in 1..(Len(s) - 1) : t[i] = s[i + 1]
      /\ Head(s) = s[1]
  OBVIOUS
<1>2. Head(s) \in ToSet(s)
  BY <1>1 DEF ToSet
<1>3. IsInjective(t)
  BY <1>1 DEF IsInjective
<1>4. \A i \in 2..Len(s) : s[i] # s[1] /\ i - 1 \in DOMAIN t /\ t[i - 1] = s[i]
  BY <1>1 DEF IsInjective
<1>5. \A y \in ToSet(s) : y = s[1] \/ \E i \in 2..Len(s) : y = s[i]
  BY <1>1 DEF ToSet
<1>6. \A i \in DOMAIN t : i + 1 \in 2..Len(s) /\ t[i] = s[i + 1]
  BY <1>1
<1>7. ASSUME NEW y \in ToSet(s) \ {Head(s)} PROVE y \in ToSet(t)
  <2>1. PICK i \in 2..Len(s) : y = s[i]
    BY <1>1, <1>5
  <2> QED BY <1>4, <2>1 DEF ToSet
<1>8. ASSUME NEW y \in ToSet(t) PROVE y \in ToSet(s) \ {Head(s)}
  BY <1>1, <1>4, <1>6 DEF ToSet
<1> QED BY <1>1, <1>2, <1>3, <1>7, <1>8
-----------------------------------------------------------------------------
(* No process and no alarm exists when the machine starts. *)
LEMMA InitAlarmInv == ASSUME AlarmsAssumption PROVE AlarmsInit => AlarmInv
<1> SUFFICES ASSUME AlarmsInit PROVE AlarmInv
  OBVIOUS
<1>1. Pids \in Seq(Pid) /\ DOMAIN Pids = 1..Len(Pids)
  BY DEF AlarmsAssumption, Pid, ToSet
<1>2. AlarmsTypeOK
  <2>1. ToSet(procFreelist) = Pid /\ {p \in Pid : procState[p] = "Dead"} = Pid
    BY DEF AlarmsInit, Pid
  <2>2. procFreelist \in Seq(Pid) /\ IsInjective(procFreelist)
    BY <1>1 DEF AlarmsAssumption, AlarmsInit
  <2>3. /\ procState \in [Pid -> {"Dead", "Ready", "Waiting", "Stopped"}]
        /\ armed \in [Pid -> BOOLEAN]
        /\ sigAlarm \in [Pid -> BOOLEAN] /\ fault \in BOOLEAN
    BY DEF AlarmsInit
  <2>4. /\ life \in [Pid -> 0..MaxLives] /\ until \in [Pid -> 0..MaxTime]
        /\ systime \in 0..MaxTime /\ alarms \subseteq AlarmChain /\ disturbed \subseteq Pid
    BY DEF AlarmsAssumption, AlarmsInit
  <2> QED BY <2>1, <2>2, <2>3, <2>4 DEF AlarmsTypeOK
<1> QED BY <1>2 DEF AlarmsInit, AlarmInv, Awake, HasAlarm, SleepLasts, AlarmFindsProcess

(* Each step of a process, of the timers and of the handler keeps AlarmInv. *)
LEMMA NextAlarmInv ==
  ASSUME AlarmsAssumption
  PROVE  AlarmInv /\ [AlarmsNext]_alarmVars => AlarmInv'
<1> SUFFICES ASSUME AlarmInv, [AlarmsNext]_alarmVars PROVE AlarmInv'
  OBVIOUS
<1> USE DEF Awake, HasAlarm
<1>1. CASE newProc
  <2> DEFINE q == Head(procFreelist)
  <2>1. /\ procFreelist' \in Seq(Pid) /\ IsInjective(procFreelist') /\ q \in ToSet(procFreelist)
        /\ ToSet(procFreelist') = ToSet(procFreelist) \ {q}
    BY <1>1, TailToSet DEF newProc, AlarmInv, AlarmsTypeOK
  <2>2. q \in Pid /\ procState[q] = "Dead"
    BY <2>1 DEF AlarmInv, AlarmsTypeOK
  <2> HIDE DEF q
  <2>3. /\ life[q] < MaxLives /\ procState' = [procState EXCEPT ![q] = "Ready"]
        /\ life' = [life EXCEPT ![q] = @ + 1] /\ sigAlarm' = [sigAlarm EXCEPT ![q] = FALSE]
        /\ until' = [until EXCEPT ![q] = 0] /\ ~ fault
        /\ UNCHANGED <<systime, alarms, armed, fault, disturbed>>
    BY <1>1 DEF newProc, q
  <2>4. \A a \in alarms : a.pid \notin disturbed => a.pid # q
    BY <2>2 DEF AlarmInv
  <2>5. AlarmsTypeOK'
    BY <2>1, <2>2, <2>3, SMTT(30) DEF AlarmsAssumption, AlarmInv, AlarmsTypeOK
  <2>6. SleepLasts' /\ AlarmFindsProcess'
    BY <2>2, <2>3 DEF AlarmInv, AlarmsTypeOK, SleepLasts, AlarmFindsProcess
  <2> QED BY <2>2, <2>3, <2>4, <2>5, <2>6 DEF AlarmInv, AlarmsTypeOK, AlarmChain
<1>2. ASSUME NEW p \in Pid, ~ fault, NEW d \in Durations, writeTimer(p, d) PROVE AlarmInv'
  <2> DEFINE a == [wakeTime |-> wakeTime(d), pid |-> p]
  <2>1. a \in AlarmChain
    BY DEF wakeTime, AlarmsAssumption, AlarmInv, AlarmsTypeOK, AlarmChain
  <2>2. /\ alarms' = alarms \cup {a} /\ procState[p] = "Ready" /\ ~ armed[p]
        /\ armed' = [armed EXCEPT ![p] = TRUE]
        /\ until' = [until EXCEPT ![p] = systime + d] /\ systime + d <= MaxTime
        /\ a.pid = p /\ a.wakeTime = systime + d
        /\ UNCHANGED <<systime, procFreelist, procState, sigAlarm, life, fault, disturbed>>
    BY <1>2 DEF writeTimer, wakeTime
  <2> HIDE DEF a
  <2>3. AlarmsTypeOK'
    BY <2>1, <2>2 DEF AlarmsAssumption, AlarmInv, AlarmsTypeOK
  <2>4. SleepLasts' /\ AlarmFindsProcess'
    BY <2>2 DEF AlarmInv, AlarmsTypeOK, SleepLasts, AlarmFindsProcess
  <2>5. \A q \in Pid \ disturbed' : systime' >= until'[q] \/ HasAlarm(q)'
    BY <2>2 DEF AlarmInv, AlarmsTypeOK
  <2>6. /\ \A b \in alarms' : b.pid \notin disturbed' =>
             /\ b.wakeTime = until'[b.pid] /\ ~ sigAlarm'[b.pid]
             /\ procState'[b.pid] # "Dead" /\ ~ Awake(b.pid)'
        /\ \A q \in Pid \ disturbed' : sigAlarm'[q] => ~ Awake(q)'
    BY <2>2 DEF AlarmInv, AlarmsTypeOK, AlarmChain
  <2> QED BY <2>3, <2>4, <2>5, <2>6 DEF AlarmInv
<1>3. ASSUME NEW p \in Pid, ~ fault, syssleep(p) PROVE AlarmInv'
  BY <1>3 DEF syssleep, AlarmInv, AlarmsTypeOK, SleepLasts, AlarmFindsProcess, AlarmChain
<1>4. ASSUME NEW p \in Pid, ~ fault, NEW to \in {"Ready", "Stopped"}, signalled(p, to),
             disturbed' \in SUBSET Pid, disturbed \subseteq disturbed',
             to = "Ready" /\ HasAlarm(p) /\ ~ armed[p] => p \in disturbed'
      PROVE  AlarmInv'
  <2>1. /\ procState[p] # "Dead" /\ procState' = [procState EXCEPT ![p] = to]
        /\ sigAlarm' = [sigAlarm EXCEPT ![p] = FALSE]
        /\ UNCHANGED <<systime, alarms, procFreelist, armed, life, until, fault>>
    BY <1>4 DEF signalled
  <2>2. AlarmsTypeOK'
    BY <1>4, <2>1 DEF AlarmInv, AlarmsTypeOK
  <2>3. SleepLasts' /\ AlarmFindsProcess'
    BY <1>4, <2>1 DEF AlarmInv, AlarmsTypeOK, SleepLasts, AlarmFindsProcess
  <2>4. /\ \A b \in alarms' : b.pid \notin disturbed' =>
             /\ b.wakeTime = until'[b.pid] /\ ~ sigAlarm'[b.pid]
             /\ procState'[b.pid] # "Dead" /\ ~ Awake(b.pid)'
        /\ \A q \in Pid \ disturbed' : sigAlarm'[q] => ~ Awake(q)'
        /\ \A q \in Pid \ disturbed' : systime' >= until'[q] \/ HasAlarm(q)'
    BY <1>4, <2>1 DEF AlarmInv, AlarmsTypeOK, AlarmChain
  <2> QED BY <2>2, <2>3, <2>4 DEF AlarmInv
<1>5. ASSUME NEW p \in Pid, ~ fault, procState[p] # "Dead", recycleProc(p),
             disturbed' \in SUBSET Pid, disturbed \subseteq disturbed',
             HasAlarm(p) => p \in disturbed'
      PROVE  AlarmInv'
  <2>1. /\ procFreelist' \in Seq(Pid) /\ IsInjective(procFreelist')
        /\ ToSet(procFreelist') = ToSet(procFreelist) \cup {p}
    BY <1>5, AppendToSet DEF recycleProc, AlarmInv, AlarmsTypeOK
  <2>2. AlarmsTypeOK'
    BY <1>5, <2>1 DEF recycleProc, AlarmInv, AlarmsTypeOK
  <2>3. SleepLasts' /\ AlarmFindsProcess'
    BY <1>5 DEF recycleProc, AlarmInv, AlarmsTypeOK, SleepLasts, AlarmFindsProcess
  <2> QED BY <1>5, <2>2, <2>3 DEF recycleProc, AlarmInv, AlarmsTypeOK, AlarmChain
<1>6. ASSUME NEW p \in Pid, ~ fault, exits(p) PROVE AlarmInv'
  <2>1. HasAlarm(p) => p \in disturbed
    BY <1>6 DEF exits, AlarmInv
  <2> QED BY <1>5, <1>6, <2>1 DEF exits, AlarmInv, AlarmsTypeOK
<1>7. ASSUME NEW p \in Pid, ~ fault, processSigAbort(p) PROVE AlarmInv'
  BY <1>5, <1>7 DEF processSigAbort, AlarmInv, AlarmsTypeOK
<1>8. ASSUME NEW p \in Pid, ~ fault, processSigAlarm(p) PROVE AlarmInv'
  <2>1. HasAlarm(p) => p \in disturbed
    BY <1>8 DEF processSigAlarm, AlarmInv
  <2> QED BY <1>4, <1>8, <2>1 DEF processSigAlarm, AlarmInv, AlarmsTypeOK
<1>9. ASSUME NEW p \in Pid, ~ fault, processSigStop(p) PROVE AlarmInv'
  BY <1>4, <1>9 DEF processSigStop, AlarmInv, AlarmsTypeOK
<1>10. ASSUME NEW p \in Pid, ~ fault, processSigContinue(p) PROVE AlarmInv'
  BY <1>4, <1>10 DEF processSigContinue, AlarmInv, AlarmsTypeOK
<1>11. CASE toieHandler
  <2>1. /\ systime \in Nat /\ systime' = systime + 1 /\ systime < MaxTime /\ MaxTime \in Nat
        /\ UNCHANGED <<alarms, procFreelist, procState, armed, life, disturbed, sigAlarm, until, fault>>
    BY <1>11 DEF toieHandler, procVars, AlarmsAssumption, AlarmInv, AlarmsTypeOK
  <2>2. AlarmsTypeOK'
    BY <2>1 DEF AlarmInv, AlarmsTypeOK
  <2>3. \A p \in Pid : systime >= until[p] => systime' >= until'[p]
    BY <2>1 DEF AlarmInv, AlarmsTypeOK
  <2> QED BY <2>1, <2>2, <2>3 DEF AlarmInv, SleepLasts, AlarmFindsProcess
<1>12. CASE pdbHandler
  <2> DEFINE fired == {a.pid : a \in {b \in alarms : isDue(b)}}
  <2>1. /\ ~ fault /\ alarms' = {a \in alarms : ~ isDue(a)}
        /\ sigAlarm' = [p \in Pid |-> sigAlarm[p] \/ (p \in fired /\ procState[p] # "Dead")]
        /\ fault' = (\E p \in fired : procState[p] = "Dead")
        /\ UNCHANGED <<systime, procFreelist, procState, armed, life, disturbed, until>>
    BY <1>12 DEF pdbHandler, procVars
  <2>2. AlarmsTypeOK'
    BY <2>1 DEF AlarmInv, AlarmsTypeOK
  <2>3. \A p \in fired : /\ p \in Pid
                         /\ p \notin disturbed => /\ systime >= until[p] /\ ~ Awake(p)
                                                 /\ procState[p] # "Dead"
    BY DEF isDue, AlarmInv, AlarmsTypeOK, AlarmChain
  <2>4. SleepLasts' /\ AlarmFindsProcess'
    BY <2>1, <2>3 DEF AlarmInv, SleepLasts, AlarmFindsProcess
  <2>5. \A a \in alarms' : a.pid \notin disturbed' => a.pid \notin fired
    BY <2>1, <2>3 DEF isDue, AlarmInv, AlarmsTypeOK, AlarmChain
  <2>6. \A p \in Pid \ disturbed' : systime' >= until'[p] \/ HasAlarm(p)'
    <3> SUFFICES ASSUME NEW p \in Pid \ disturbed, HasAlarm(p), ~ (systime >= until[p])
                 PROVE  HasAlarm(p)'
      BY <2>1 DEF AlarmInv
    <3>1. PICK a \in alarms : a.pid = p
      OBVIOUS
    <3>2. p \notin fired
      BY <2>3
    <3> QED BY <2>1, <3>1, <3>2
  <2>7. /\ \A b \in alarms' : b.pid \notin disturbed' =>
             /\ b.wakeTime = until'[b.pid] /\ ~ sigAlarm'[b.pid]
             /\ procState'[b.pid] # "Dead" /\ ~ Awake(b.pid)'
        /\ \A q \in Pid \ disturbed' : sigAlarm'[q] => ~ Awake(q)'
    BY <2>1, <2>3, <2>5 DEF AlarmInv, AlarmsTypeOK, AlarmChain
  <2> QED BY <2>2, <2>4, <2>6, <2>7 DEF AlarmInv
<1>13. CASE UNCHANGED alarmVars
  BY <1>13 DEF alarmVars, procVars, AlarmInv, AlarmsTypeOK, SleepLasts, AlarmFindsProcess
<1> QED
  BY <1>1, <1>2, <1>3, <1>6, <1>7, <1>8, <1>9, <1>10, <1>11, <1>12, <1>13 DEF AlarmsNext, process

(* syssleep, pdbHandler and syspostsignal: a process that sleeps runs on no
   earlier than it asked for, and the handler finds the process of every alarm,
   whoever is stopped, continued or killed, except for the pids whose process was
   killed asleep or woken by fg. *)
THEOREM SleepersAreReached ==
  ASSUME AlarmsAssumption
  PROVE  AlarmsSpec => []AlarmsReachSleepers
<1>1. AlarmInv => AlarmsReachSleepers
  BY DEF AlarmInv, AlarmsReachSleepers
<1> QED BY <1>1, InitAlarmInv, NextAlarmInv, PTL DEF AlarmsSpec
=============================================================================
