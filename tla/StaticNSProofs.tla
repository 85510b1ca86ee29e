--------------------------- MODULE StaticNSProofs ---------------------------
(***************************************************************************)
(* What the moves in a static namespace do, for every table that holds a   *)
(* tree: where a step of a walk leads, which names a directory has, and    *)
(* how its reads go on one after the other.                                *)
(***************************************************************************)
EXTENDS StaticNS, FiniteSetTheorems, SequenceTheorems, WellFoundedInduction, TLAPS

(* A table of n nodes in breadth first order and a sentinel: the nodes' crumbs tell
   their own index and that of a node before them; the root's parent is no index. *)
MaxTable == ParentIdxs - 1

IsTree(ns, n) ==
  /\ n \in 1..MaxTable /\ DOMAIN ns = 0..n
  /\ \A i \in 0..(n - 1) : STATICNS_CRUMB_SELF_IDX(ns[i].crumb) = i
  /\ \A i \in 1..(n - 1) : STATICNS_CRUMB_PARENT_IDX(ns[i].crumb) \in 0..(i - 1)
  /\ \A i, j \in 1..(n - 1) :
       i <= j => STATICNS_CRUMB_PARENT_IDX(ns[i].crumb) <= STATICNS_CRUMB_PARENT_IDX(ns[j].crumb)
  /\ \A i \in {0, n} : STATICNS_CRUMB_PARENT_IDX(ns[i].crumb) = MaxTable
  /\ \A i \in 0..n : ~ STATICNS_CRUMB_ISSENTINEL(ns[i].crumb)
-----------------------------------------------------------------------------
(* A set that has 0 and with every number the next one has them all. *)
LEMMA NatSetInduction ==
  ASSUME NEW S, 0 \in S, \A m \in Nat : m \in S => m + 1 \in S
  PROVE  Nat \subseteq S
<1> SUFFICES ASSUME Nat \ S # {} PROVE FALSE
  OBVIOUS
<1>1. PICK k \in Nat \ S : \A y \in Nat \ S : ~ (<<y, k>> \in OpToRel(<, Nat))
  BY WFMin, NatLessThanWellFounded, Zenon
<1>2. \A y \in Nat \ S : ~ (y < k)
  BY <1>1, Zenon DEF OpToRel
<1>3. k # 0 /\ k - 1 \in Nat /\ k - 1 < k
  BY k \in Nat \ S
<1> QED BY <1>2, <1>3

(* g holds the values of n steps f from init, each made of the one before. *)
Unrolled(g, V, init, f, n) ==
  /\ g \in [0..n -> V] /\ g[0] = init
  /\ \A k \in 1..n : g[k] = f[<<g[k - 1], k>>]

(* There is such a g: the functions that are defined by recursion exist. *)
LEMMA Unrolls ==
  ASSUME NEW V, NEW init \in V, NEW n \in Nat, NEW f \in [V \X (1..n) -> V]
  PROVE  \E g : Unrolled(g, V, init, f, n)
<1> DEFINE Good(g, m) == /\ g \in [0..m -> V] /\ g[0] = init
                         /\ \A k \in 1..m : g[k] = f[<<g[k - 1], k>>]
           S == {m \in Nat : m <= n => \E g : Good(g, m)}
<1>1. 0 \in S
  <2>1. Good([k \in 0..0 |-> init], 0)
    OBVIOUS
  <2> HIDE DEF Good
  <2> QED BY <2>1
<1>2. ASSUME NEW m \in Nat, m \in S PROVE m + 1 \in S
  <2> SUFFICES ASSUME m + 1 <= n PROVE \E g : Good(g, m + 1)
    BY DEF S
  <2>1. PICK g : Good(g, m)
    BY <1>2
  <2>2. g[m] \in V /\ m + 1 \in 1..n /\ \A k \in 0..m : g[k] \in V
    BY <2>1
  <2> DEFINE x == f[<<g[m], m + 1>>]
             h == [k \in 0..(m + 1) |-> IF k <= m THEN g[k] ELSE x]
  <2>3. x \in V
    BY <2>2
  <2> HIDE DEF x
  <2>4. h \in [0..(m + 1) -> V] /\ h[0] = init
    BY <2>1, <2>2, <2>3
  <2>5. ASSUME NEW k \in 1..(m + 1) PROVE h[k] = f[<<h[k - 1], k>>]
    <3>1. h[k - 1] = g[k - 1] /\ (k # m + 1 => h[k] = g[k]) /\ (k = m + 1 => h[k] = x)
      OBVIOUS
    <3>2. CASE k = m + 1
      <4>1. k - 1 = m
        BY <3>2
      <4> QED BY <3>1, <3>2, <4>1 DEF x
    <3>3. CASE k # m + 1
      <4>1. k \in 1..m
        BY <3>3
      <4>2. g[k] = f[<<g[k - 1], k>>]
        BY <2>1, <4>1
      <4> HIDE DEF h
      <4> QED BY <3>1, <3>3, <4>2
    <3> QED BY <3>2, <3>3
  <2> HIDE DEF h
  <2> QED BY <2>4, <2>5
<1>3. n \in S
  <2> HIDE DEF S
  <2> QED BY <1>1, <1>2, NatSetInduction
<1> QED BY <1>3 DEF Unrolled

(* Min of a set of numbers is its least. *)
LEMMA MinIs ==
  ASSUME NEW S \in SUBSET Nat, S # {}
  PROVE  Min(S) \in S /\ \A y \in S : Min(S) <= y
<1>1. PICK k \in S : \A y \in S : ~ (<<y, k>> \in OpToRel(<, Nat))
  BY WFMin, NatLessThanWellFounded, Zenon
<1>2. \A y \in S : ~ (y < k)
  BY <1>1, Zenon DEF OpToRel
<1>3. \A y \in S : k <= y
  BY <1>2
<1>4. Min(S) = CHOOSE x \in S : \A y \in S : x <= y
  BY DEF Min
<1> QED BY <1>3, <1>4, Zenon

(* Max of a set with a greatest number is that number. *)
LEMMA MaxIs ==
  ASSUME NEW S, NEW m \in S, m \in Int, \A y \in S : y \in Int /\ y <= m
  PROVE  Max(S) = m
<1>1. Max(S) = CHOOSE x \in S : \A y \in S : x >= y
  BY DEF Max
<1>2. \A y \in S : m >= y
  OBVIOUS
<1>3. Max(S) \in S /\ \A y \in S : Max(S) >= y
  BY <1>1, <1>2, Zenon
<1>4. Max(S) >= m /\ Max(S) \in Int /\ Max(S) <= m
  BY <1>3
<1> QED BY <1>4
-----------------------------------------------------------------------------
(* The widths of the two indices in a fid. *)
LEMMA WidthsAre ==
  /\ ParentIdxs \in Nat /\ ParentIdxs > 100 /\ SelfIdxs \in Nat /\ SelfIdxs = 16 * ParentIdxs
  BY SMT DEF ParentIdxs, SelfIdxs

(* Packing two numbers in one, and taking them apart again. *)
LEMMA RemainderIs ==
  ASSUME NEW w \in Nat \ {0}, NEW a \in 0..(w - 1), NEW p \in Nat
  PROVE  (p * w + a) % w = a /\ (p * w + a) \div w = p
  BY SMT

(* A number below the modulus is its own remainder. *)
LEMMA SmallRemainder ==
  ASSUME NEW w \in Nat \ {0}, NEW a \in 0..(w - 1)
  PROVE  a % w = a
  BY SMT

(* What the sentinel's parent index keeps of it in its bits. *)
LEMMA SentinelParent ==
  ASSUME NEW v \in Nat, v > 1
  PROVE  (16 * v - 1) % v = v - 1
  BY SMT

(* A crumb tells the indices it was made of, as far as they fit its bits. *)
LEMMA CrumbIs ==
  ASSUME NEW parent \in 0..(SelfIdxs - 1), NEW self \in 0..(SelfIdxs - 1), NEW flags
  PROVE  LET c == MKSTATICNS_CRUMB(parent, self, flags)
         IN  /\ STATICNS_CRUMB_SELF_IDX(c) = self
             /\ STATICNS_CRUMB_PARENT_IDX(c) = parent % ParentIdxs
             /\ c.flags = flags \cup {"ISSTATIC"}
             /\ STATICNS_CRUMB_ISSENTINEL(c) => parent % ParentIdxs = 0 /\ self = SelfIdxs - 1
<1> DEFINE p == parent % ParentIdxs
           c == MKSTATICNS_CRUMB(parent, self, flags)
<1>1. p \in 0..(ParentIdxs - 1) /\ p \in 0..(SelfIdxs - 1) /\ p \in Nat /\ SelfIdxs \in Nat \ {0}
  BY WidthsAre
<1>2. c.fid = p * SelfIdxs + self /\ c.flags = flags \cup {"ISSTATIC"}
  BY <1>1, SmallRemainder DEF MKSTATICNS_CRUMB, MKSTATICNS_FID
<1> HIDE DEF p, c
<1>3. c.fid % SelfIdxs = self /\ (c.fid \div SelfIdxs) % SelfIdxs = p
  <2>1. (p * SelfIdxs + self) % SelfIdxs = self /\ (p * SelfIdxs + self) \div SelfIdxs = p
    BY <1>1, RemainderIs
  <2>2. p % SelfIdxs = p
    BY <1>1, SmallRemainder
  <2> QED BY <1>2, <2>1, <2>2
<1>4. c.fid = SelfIdxs - 1 => p = 0 /\ self = SelfIdxs - 1
  <2> SUFFICES ASSUME c.fid = SelfIdxs - 1 PROVE p = 0 /\ self = SelfIdxs - 1
    OBVIOUS
  <2>1. SelfIdxs - 1 \in 0..(SelfIdxs - 1) /\ 0 \in Nat /\ 0 * SelfIdxs + (SelfIdxs - 1) = SelfIdxs - 1
    BY <1>1
  <2>2. (0 * SelfIdxs + (SelfIdxs - 1)) \div SelfIdxs = 0
    BY <1>1, <2>1, RemainderIs
  <2>3. (p * SelfIdxs + self) \div SelfIdxs = p
    BY <1>1, RemainderIs
  <2>4. p = 0
    BY <1>2, <2>1, <2>2, <2>3
  <2> QED BY <1>1, <1>2, <2>4
<1> QED BY <1>1, <1>2, <1>3, <1>4 DEF p, c, STATICNS_CRUMB_SELF_IDX,
     STATICNS_CRUMB_PARENT_IDX, STATICNS_CRUMB_ISSENTINEL, STATICNS_SENTINEL

(* The table of entries whose crumbs were made for their places holds a tree. *)
LEMMA StaticTableIsTree ==
  ASSUME NEW E, NEW entries \in Seq(E), NEW par, NEW flags,
         Len(entries) \in 1..MaxTable,
         par[1] = STATICNS_SENTINEL,
         \A i \in 2..Len(entries) : par[i] \in 0..(i - 2),
         \A i, j \in 2..Len(entries) : i <= j => par[i] <= par[j],
         \A i \in 1..Len(entries) :
           entries[i].crumb = MKSTATICNS_CRUMB(par[i], i - 1, flags[i])
  PROVE  /\ IsTree(StaticTable(entries), Len(entries))
         /\ \A i \in 1..Len(entries) : StaticTable(entries)[i - 1] = entries[i]
<1> DEFINE n == Len(entries)
           ns == StaticTable(entries)
<1>1. /\ MaxTable = ParentIdxs - 1 /\ STATICNS_SENTINEL = SelfIdxs - 1 /\ n \in 1..MaxTable
      /\ n <= SelfIdxs - 1 /\ SelfIdxs \in Nat /\ SelfIdxs > 1 /\ MaxTable \in Nat /\ MaxTable < SelfIdxs - 1
  BY WidthsAre DEF MaxTable, STATICNS_SENTINEL
<1>2. /\ DOMAIN ns = 0..n
      /\ \A i \in 0..(n - 1) : ns[i] = entries[i + 1]
      /\ ns[n].crumb = MKSTATICNS_CRUMB(STATICNS_SENTINEL, STATICNS_SENTINEL, {})
  <2> DEFINE e == Entry(NoName, MKSTATICNS_SENTINEL_CRUMB, 0, NoContents)
  <2>1. ns = [i \in 0..n |-> IF i < n THEN entries[i + 1] ELSE e]
    BY DEF StaticTable
  <2>2. e.crumb = MKSTATICNS_CRUMB(STATICNS_SENTINEL, STATICNS_SENTINEL, {})
    BY Zenon DEF MKSTATICNS_SENTINEL_CRUMB, Entry
  <2> HIDE DEF ns, e
  <2>3. n \in 0..n /\ ~ (n < n) /\ \A i \in 0..(n - 1) : i \in 0..n /\ i < n
    BY <1>1
  <2>4. DOMAIN ns = 0..n /\ ns[n] = e /\ \A i \in 0..(n - 1) : ns[i] = entries[i + 1]
    BY <2>1, <2>3
  <2> QED BY <2>2, <2>4
<1> HIDE DEF ns
<1>7. (SelfIdxs - 1) % ParentIdxs = MaxTable /\ MaxTable # 0
  BY WidthsAre, SentinelParent DEF MaxTable
<1>3. ASSUME NEW i \in 0..(n - 1)
      PROVE  /\ STATICNS_CRUMB_SELF_IDX(ns[i].crumb) = i
             /\ STATICNS_CRUMB_PARENT_IDX(ns[i].crumb) = IF i = 0 THEN MaxTable ELSE par[i + 1]
             /\ i # 0 => par[i + 1] \in 0..(i - 1)
             /\ ~ STATICNS_CRUMB_ISSENTINEL(ns[i].crumb)
  <2>1. i + 1 \in 1..n /\ (i + 1) - 1 = i /\ i \in 0..(SelfIdxs - 1) /\ i # SelfIdxs - 1
    BY <1>1
  <2>2. ns[i].crumb = MKSTATICNS_CRUMB(par[i + 1], i, flags[i + 1])
    BY <1>2, <2>1
  <2>3. i # 0 => par[i + 1] \in 0..(i - 1)
    <3> SUFFICES ASSUME i # 0 PROVE par[i + 1] \in 0..(i - 1)
      OBVIOUS
    <3>1. i + 1 \in 2..n /\ (i + 1) - 2 = i - 1
      BY <2>1
    <3> QED BY <3>1
  <2>4. /\ par[i + 1] \in 0..(SelfIdxs - 1)
        /\ par[i + 1] % ParentIdxs = IF i = 0 THEN MaxTable ELSE par[i + 1]
    <3>1. CASE i = 0
      <4>1. par[i + 1] = SelfIdxs - 1
        BY <1>1, <3>1
      <4> QED BY <1>1, <1>7, <3>1, <4>1
    <3>2. CASE i # 0
      <4>1. par[i + 1] \in 0..(ParentIdxs - 1) /\ par[i + 1] \in 0..(SelfIdxs - 1)
        BY <1>1, <2>3, <3>2
      <4>2. ParentIdxs \in Nat \ {0}
        BY WidthsAre
      <4>3. par[i + 1] % ParentIdxs = par[i + 1]
        BY <4>1, <4>2, SmallRemainder
      <4> QED BY <3>2, <4>1, <4>3
    <3> QED BY <3>1, <3>2
  <2> QED BY <2>1, <2>2, <2>3, <2>4, CrumbIs
<1>4. /\ STATICNS_CRUMB_PARENT_IDX(ns[n].crumb) = MaxTable
      /\ ~ STATICNS_CRUMB_ISSENTINEL(ns[n].crumb)
  <2>1. SelfIdxs - 1 \in 0..(SelfIdxs - 1)
    BY <1>1
  <2> QED BY <1>1, <1>2, <1>7, <2>1, CrumbIs
<1>5. IsTree(ns, n)
  <2>1. \A i \in 1..(n - 1) : i \in 0..(n - 1) /\ i # 0
    BY <1>1
  <2>2. 0 \in 0..(n - 1)
    BY <1>1
  <2>3. \A i \in 0..n : i \in 0..(n - 1) \/ i = n
    BY <1>1
  <2>4. ASSUME NEW i \in 1..(n - 1), NEW j \in 1..(n - 1), i <= j
        PROVE  STATICNS_CRUMB_PARENT_IDX(ns[i].crumb) <= STATICNS_CRUMB_PARENT_IDX(ns[j].crumb)
    <3>1. i + 1 \in 2..n /\ j + 1 \in 2..n /\ i + 1 <= j + 1
      BY <1>1, <2>4
    <3>2. par[i + 1] <= par[j + 1]
      BY <3>1
    <3> QED BY <1>3, <2>1, <3>2
  <2>5. MaxTable = ParentIdxs - 1 /\ n \in 1..MaxTable /\ DOMAIN ns = 0..n
    BY <1>1, <1>2
  <2>6. \A i \in 0..(n - 1) : STATICNS_CRUMB_SELF_IDX(ns[i].crumb) = i
    BY <1>3
  <2>7. \A i \in 1..(n - 1) : STATICNS_CRUMB_PARENT_IDX(ns[i].crumb) \in 0..(i - 1)
    BY <1>3, <2>1
  <2>8. \A i \in {0, n} : STATICNS_CRUMB_PARENT_IDX(ns[i].crumb) = MaxTable
    BY <1>3, <1>4, <2>2
  <2>9. \A i \in 0..n : ~ STATICNS_CRUMB_ISSENTINEL(ns[i].crumb)
    BY <1>3, <1>4, <2>3
  <2> QED BY <2>4, <2>5, <2>6, <2>7, <2>8, <2>9 DEF IsTree
<1>6. \A i \in 1..n : i - 1 \in 0..(n - 1) /\ (i - 1) + 1 = i
  BY <1>1
<1> QED BY <1>2, <1>5, <1>6 DEF ns
-----------------------------------------------------------------------------
(* The nodes of a directory. *)
Kids(ns, n, i) == {j \in 1..(n - 1) : STATICNS_CRUMB_PARENT_IDX(ns[j].crumb) = i}

(* WalkDown finds the first child, if there is one. *)
LEMMA DownIs ==
  ASSUME NEW ns, NEW n, IsTree(ns, n), NEW i \in 0..(n - 1)
  PROVE  WalkDown(ns, ns[i].crumb) =
           IF ~ISDIR(ns[i].crumb) THEN ENOENT
           ELSE IF Kids(ns, n, i) = {} THEN PastEnd ELSE Min(Kids(ns, n, i))
<1> DEFINE par(j) == STATICNS_CRUMB_PARENT_IDX(ns[j].crumb)
           child == {j \in DOMAIN ns : par(j) = i}
           stops == {j \in DOMAIN ns : j >= i /\ (j \in child \/ STATICNS_CRUMB_ISSENTINEL(ns[j].crumb))}
<1>1. /\ n \in Nat /\ n <= MaxTable /\ MaxTable \in Nat /\ DOMAIN ns = 0..n
      /\ STATICNS_CRUMB_SELF_IDX(ns[i].crumb) = i
  BY WidthsAre DEF IsTree, MaxTable
<1>2. par(0) = MaxTable /\ par(n) = MaxTable /\ \A j \in 1..(n - 1) : par(j) \in 0..(j - 1)
  BY DEF IsTree
<1>3. \A j \in 0..n : ~ STATICNS_CRUMB_ISSENTINEL(ns[j].crumb)
  BY DEF IsTree
<1>4. child = Kids(ns, n, i)
  <2>1. \A j \in 0..n : j = 0 \/ j = n \/ j \in 1..(n - 1)
    BY <1>1
  <2>2. i # MaxTable
    BY <1>1
  <2>3. \A j \in 1..(n - 1) : j \in 0..n
    BY <1>1
  <2> HIDE DEF par
  <2>4. \A j \in DOMAIN ns : par(j) = i => j \in 1..(n - 1)
    BY <1>1, <1>2, <2>1, <2>2
  <2>5. child = {j \in 1..(n - 1) : par(j) = i}
    BY <1>1, <2>3, <2>4
  <2> QED BY <2>5 DEF Kids, par
<1>5. stops = child
  <2>1. \A j \in child : j >= i
    <3>1. \A j \in child : j \in 1..(n - 1) /\ par(j) = i
      BY <1>4 DEF Kids
    <3> HIDE DEF par, child
    <3> QED BY <1>1, <1>2, <3>1
  <2>2. \A j \in child : j \in DOMAIN ns
    OBVIOUS
  <2> HIDE DEF child, par
  <2> QED BY <1>1, <1>3, <2>1, <2>2
<1>6. WalkDown(ns, ns[i].crumb) = IF ~ISDIR(ns[i].crumb) THEN ENOENT
        ELSE IF stops = {} THEN PastEnd
        ELSE IF Min(stops) \in child THEN Min(stops) ELSE ENOENT
  BY <1>1 DEF WalkDown
<1> HIDE DEF child, stops
<1>7. stops # {} => Min(stops) \in child
  <2>1. stops \in SUBSET Nat
    BY <1>1, <1>4, <1>5 DEF Kids
  <2> QED BY <1>5, <2>1, MinIs
<1> QED BY <1>4, <1>5, <1>6, <1>7

(* WalkNext leads to the next entry if it has the same parent. *)
LEMMA NextIs ==
  ASSUME NEW ns, NEW n, IsTree(ns, n), NEW i \in 0..(n - 1)
  PROVE  WalkNext(ns, ns[i].crumb) =
           IF STATICNS_CRUMB_PARENT_IDX(ns[i].crumb) = STATICNS_CRUMB_PARENT_IDX(ns[i + 1].crumb)
           THEN i + 1 ELSE ENOENT
<1>1. n \in Nat /\ DOMAIN ns = 0..n /\ STATICNS_CRUMB_SELF_IDX(ns[i].crumb) = i
  BY WidthsAre DEF IsTree, MaxTable
<1>2. i + 1 \in DOMAIN ns
  BY <1>1
<1> QED BY <1>1, <1>2 DEF WalkNext, WalkTo

(* The children of a node are together, and the scan of WalkNext visits them all. *)
LEMMA SiblingsAre ==
  ASSUME NEW ns, NEW n, IsTree(ns, n), NEW i \in 0..(n - 1), Kids(ns, n, i) # {}
  PROVE  \E last \in 1..(n - 1) :
           LET first == Min(Kids(ns, n, i))
           IN  /\ first \in 1..last
               /\ Kids(ns, n, i) = first..last
               /\ siblingsFrom(ns, first) = [k \in 1..(last - first + 1) |-> first + k - 1]
<1> DEFINE par(j) == STATICNS_CRUMB_PARENT_IDX(ns[j].crumb)
           kids == Kids(ns, n, i)
           first == Min(kids)
<1>1. n \in Nat /\ n <= MaxTable /\ MaxTable \in Nat /\ DOMAIN ns = 0..n
  BY WidthsAre DEF IsTree, MaxTable
<1>2. /\ par(n) = MaxTable /\ \A j \in 1..(n - 1) : par(j) \in 0..(j - 1)
      /\ \A j, k \in 1..(n - 1) : j <= k => par(j) <= par(k)
  BY DEF IsTree
<1>3. \A j : j \in kids <=> j \in 1..(n - 1) /\ par(j) = i
  BY DEF Kids
<1>4. first \in kids /\ \A j \in kids : first <= j
  <2>1. kids \in SUBSET Nat
    BY DEF Kids
  <2> QED BY <2>1, MinIs
<1>5. ASSUME NEW m \in 0..(n - 1)
      PROVE  WalkNext(ns, ns[m].crumb) = m + 1 <=> par(m) = par(m + 1)
  <2>1. m + 1 # ENOENT
    BY DEF ENOENT
  <2> QED BY <2>1, NextIs
<1> HIDE DEF par, kids, first
<1> DEFINE Out == {k \in first..n : k \notin kids}
<1>6. n \in Out /\ Out \in SUBSET Nat
  BY <1>1, <1>3, <1>4
<1>7. PICK past \in Out : \A j \in Out : past <= j
  BY <1>6, MinIs
<1>8. past \in (first + 1)..n /\ \A j \in first..(past - 1) : j \in kids
  BY <1>1, <1>3, <1>4, <1>7
<1>9. kids = first..(past - 1)
  <2>1. ASSUME NEW j \in kids, j >= past PROVE FALSE
    <3>1. j \in 1..(n - 1) /\ past \in 1..(n - 1) /\ first \in 1..(n - 1) /\ first <= past
      BY <1>1, <1>3, <1>4, <1>8, <2>1
    <3>2. par(first) <= par(past) /\ par(past) <= par(j) /\ par(past) \in 0..(past - 1)
      BY <1>2, <2>1, <3>1
    <3>3. par(first) = i /\ par(j) = i
      BY <1>3, <1>4
    <3>4. par(past) = i
      BY <3>1, <3>2, <3>3
    <3> QED BY <1>3, <1>7, <3>1, <3>4
  <2>2. \A j \in kids : j \in Int /\ j >= first
    BY <1>1, <1>3, <1>4
  <2>3. first \in Int /\ past \in Int
    BY <1>1, <1>3, <1>4, <1>8
  <2>4. \A j \in kids : j \in first..(past - 1)
    BY <2>1, <2>2, <2>3
  <2> QED BY <1>8, <2>4
<1>10. Max(DOMAIN ns) = n
  <2>1. n \in DOMAIN ns /\ \A y \in DOMAIN ns : y \in Int /\ y <= n
    BY <1>1
  <2> QED BY <1>1, <2>1, MaxIs
<1> DEFINE reached == {k \in first..Max(DOMAIN ns) :
                         \A m \in first..(k - 1) : WalkNext(ns, ns[m].crumb) = m + 1}
<1>11. reached = first..(past - 1)
  <2>1. ASSUME NEW k \in first..n
        PROVE  (\A m \in first..(k - 1) : WalkNext(ns, ns[m].crumb) = m + 1) <=> k <= past - 1
    <3>1. ASSUME k <= past - 1, NEW m \in first..(k - 1)
          PROVE  WalkNext(ns, ns[m].crumb) = m + 1
      <4>1. m \in kids /\ m + 1 \in kids /\ m \in 0..(n - 1)
        BY <1>1, <1>3, <1>4, <1>8, <3>1
      <4> QED BY <1>3, <1>5, <4>1
    <3>2. ASSUME ~(k <= past - 1) PROVE \E m \in first..(k - 1) : WalkNext(ns, ns[m].crumb) # m + 1
      <4>1. /\ past - 1 \in first..(k - 1) /\ past - 1 \in 0..(n - 1) /\ (past - 1) + 1 = past
            /\ past - 1 \in kids /\ past \notin kids /\ past \in 1..n
        BY <1>1, <1>3, <1>4, <1>7, <1>8, <3>2
      <4>2. par(past) # i
        <5>1. CASE past = n
          <6>1. i # MaxTable
            BY <1>1
          <6> QED BY <1>2, <5>1, <6>1
        <5>2. CASE past # n
          <6>1. past \in 1..(n - 1)
            BY <1>1, <4>1, <5>2
          <6> QED BY <1>3, <4>1, <6>1
        <5> QED BY <5>1, <5>2
      <4>3. par(past - 1) = i
        BY <1>3, <4>1
      <4> QED BY <1>5, <4>1, <4>2, <4>3
    <3> QED BY <3>1, <3>2
  <2>2. \A k \in first..(past - 1) : k \in first..n
    BY <1>1, <1>8
  <2>3. first \in Int /\ past \in Int
    BY <1>1, <1>3, <1>4, <1>8
  <2>4. \A k \in first..n : k <= past - 1 => k \in first..(past - 1)
    BY <1>1, <2>3
  <2>5. \A k \in first..(past - 1) : k <= past - 1
    BY <2>3
  <2> QED BY <1>10, <2>1, <2>2, <2>4, <2>5
<1>12. Cardinality(reached) = past - first
  <2>1. first \in Int /\ past - 1 \in Int /\ first <= past - 1
    BY <1>1, <1>3, <1>4, <1>8
  <2>2. Cardinality(first..(past - 1)) = IF first > past - 1 THEN 0 ELSE (past - 1) - first + 1
    BY <2>1, FS_Interval
  <2> HIDE DEF reached
  <2> QED BY <1>11, <2>1, <2>2
<1>13. siblingsFrom(ns, first) = [k \in 1..(past - first) |-> first + k - 1]
  <2>1. siblingsFrom(ns, first) = [k \in 1..Cardinality(reached) |-> first + k - 1]
    BY DEF siblingsFrom
  <2> HIDE DEF reached
  <2> QED BY <1>12, <2>1
<1>14. /\ past - 1 \in 1..(n - 1) /\ first \in 1..(past - 1) /\ (past - 1) - first + 1 = past - first
  BY <1>1, <1>3, <1>4, <1>8
<1> QED BY <1>9, <1>13, <1>14 DEF first, kids

(* The children of a directory that have a name. *)
KidsNamed(ns, n, i, name) == {j \in Kids(ns, n, i) : ns[j].name = name}

(* The search of a directory finds the first child of the name. *)
LEMMA SearchIs ==
  ASSUME NEW ns, NEW n, IsTree(ns, n), NEW i \in 0..(n - 1), ISDIR(ns[i].crumb), NEW name
  PROVE  LET j == search(ns, ns[i].crumb, name)
         IN  /\ KidsNamed(ns, n, i, name) # {} => j = Min(KidsNamed(ns, n, i, name))
             /\ KidsNamed(ns, n, i, name) = {} => j \in {PastEnd, ENOENT}
<1> DEFINE kids == Kids(ns, n, i)
           hits == {j \in kids : ns[j].name = name}
           first == Min(kids)
<1>1. kids = {} => search(ns, ns[i].crumb, name) = PastEnd
  BY DownIs DEF search, searchFrom, PastEnd
<1>2. ASSUME kids # {} PROVE search(ns, ns[i].crumb, name) = IF hits = {} THEN ENOENT ELSE Min(hits)
  <2>1. PICK last \in 1..(n - 1) :
          /\ first \in 1..last /\ kids = first..last
          /\ siblingsFrom(ns, first) = [k \in 1..(last - first + 1) |-> first + k - 1]
    BY <1>2, SiblingsAre
  <2>2. WalkDown(ns, ns[i].crumb) = first
    BY <1>2, DownIs
  <2> DEFINE H == {k \in 1..(last - first + 1) : ns[first + k - 1].name = name}
  <2>3. search(ns, ns[i].crumb, name) = IF H = {} THEN ENOENT ELSE first + Min(H) - 1
    <3>1. DOMAIN siblingsFrom(ns, first) = 1..(last - first + 1)
      BY <2>1
    <3>2. ~ (first < 0)
      BY <2>1
    <3> HIDE DEF first
    <3> QED BY <2>2, <3>1, <3>2 DEF search, searchFrom
  <2>4. last \in Int /\ first \in Int /\ first >= 1
    BY <2>1
  <2> HIDE DEF first, kids
  <2>5. ASSUME NEW k \in H PROVE first + k - 1 \in hits
    <3>1. first + k - 1 \in first..last
      BY <2>4
    <3> QED BY <2>1, <3>1
  <2>6. ASSUME NEW j \in hits PROVE j - first + 1 \in H
    <3>1. j \in first..last /\ ns[j].name = name
      BY <2>1
    <3>2. j - first + 1 \in 1..(last - first + 1) /\ first + (j - first + 1) - 1 = j
      BY <2>4, <3>1
    <3> QED BY <3>1, <3>2
  <2>7. CASE hits = {}
    <3>1. H = {}
      BY <2>5, <2>7
    <3> QED BY <2>3, <2>7, <3>1
  <2>8. CASE hits # {}
    <3>1. H # {}
      BY <2>6, <2>8
    <3>2. H \in SUBSET Nat /\ hits \in SUBSET Nat
      BY <2>1, <2>4
    <3>3. Min(H) \in H /\ \A k \in H : Min(H) <= k
      BY <3>1, <3>2, MinIs
    <3>4. Min(hits) \in hits /\ \A j \in hits : Min(hits) <= j
      BY <2>8, <3>2, MinIs
    <3>5. first + Min(H) - 1 \in hits /\ Min(hits) - first + 1 \in H
      BY <2>5, <2>6, <3>3, <3>4
    <3>6. Min(H) \in Nat /\ Min(hits) \in Nat
      BY <3>2, <3>3, <3>4
    <3>7. Min(H) <= Min(hits) - first + 1 /\ Min(hits) <= first + Min(H) - 1
      BY <3>3, <3>4, <3>5
    <3>8. first + Min(H) - 1 = Min(hits)
      BY <2>4, <3>6, <3>7
    <3> QED BY <2>3, <2>8, <3>1, <3>8
  <2> QED BY <2>7, <2>8
<1>3. KidsNamed(ns, n, i, name) = hits /\ (hits # {} => kids # {})
  BY DEF KidsNamed
<1> HIDE DEF hits, kids
<1> QED BY <1>1, <1>2, <1>3

(* The names of a directory are those of its children, in the table's order. *)
LEMMA ChildNamesAre ==
  ASSUME NEW ns, NEW n, IsTree(ns, n), NEW i \in 0..(n - 1), ISDIR(ns[i].crumb)
  PROVE  LET first == Min(Kids(ns, n, i))
         IN  childNames(ns, ns[i].crumb) =
               IF Kids(ns, n, i) = {} THEN <<>>
               ELSE [k \in 1..Cardinality(Kids(ns, n, i)) |-> ns[first + k - 1].name]
<1> DEFINE kids == Kids(ns, n, i)
           first == Min(kids)
<1>1. kids = {} => childNames(ns, ns[i].crumb) = <<>>
  BY DownIs DEF childNames, namesFrom, PastEnd
<1>2. ASSUME kids # {}
      PROVE  childNames(ns, ns[i].crumb) = [k \in 1..Cardinality(kids) |-> ns[first + k - 1].name]
  <2>1. PICK last \in 1..(n - 1) :
          /\ first \in 1..last /\ kids = first..last
          /\ siblingsFrom(ns, first) = [k \in 1..(last - first + 1) |-> first + k - 1]
    BY <1>2, SiblingsAre
  <2>2. WalkDown(ns, ns[i].crumb) = first
    BY <1>2, DownIs
  <2>3. last \in Int /\ first \in Int /\ first >= 1 /\ first <= last
    BY <2>1
  <2> HIDE DEF first, kids
  <2>4. Cardinality(kids) = last - first + 1
    <3>1. Cardinality(first..last) = IF first > last THEN 0 ELSE last - first + 1
      BY <2>3, FS_Interval
    <3> QED BY <2>1, <2>3, <3>1
  <2>5. childNames(ns, ns[i].crumb) = namesOf(ns, siblingsFrom(ns, first))
    BY <2>2, <2>3 DEF childNames, namesFrom
  <2> QED BY <2>1, <2>4, <2>5 DEF namesOf
<1> QED BY <1>1, <1>2
-----------------------------------------------------------------------------
(* Where one element of a path leads from a directory. *)
LEMMA StepIs ==
  ASSUME NEW ns, NEW n, IsTree(ns, n), NEW i \in 0..(n - 1), ISDIR(ns[i].crumb), NEW name
  PROVE  LET j == stepTo(ns, ns[i].crumb, name)
         IN  /\ name = "." => j = i
             /\ name = ".." => j = IF i = 0 THEN 0 ELSE STATICNS_CRUMB_PARENT_IDX(ns[i].crumb)
             /\ name \notin {".", ".."} /\ j \notin {ENOENT, PastEnd} =>
                  j \in Kids(ns, n, i) /\ ns[j].name = name
             /\ j \in {ENOENT, PastEnd} \cup 0..(n - 1)
<1> DEFINE j == stepTo(ns, ns[i].crumb, name)
<1>1. /\ n \in Nat \ {0} /\ STATICNS_CRUMB_SELF_IDX(ns[i].crumb) = i
      /\ i # 0 => STATICNS_CRUMB_PARENT_IDX(ns[i].crumb) \in 0..(i - 1)
  <2>1. n \in Nat \ {0}
    BY WidthsAre DEF IsTree, MaxTable
  <2>2. i # 0 => i \in 1..(n - 1)
    BY <2>1
  <2> QED BY <2>1, <2>2 DEF IsTree
<1>2. CASE name = "."
  <2>1. j = i
    BY <1>1, <1>2 DEF stepTo, WalkSelf
  <2> QED BY <1>2, <2>1
<1>3. CASE name = ".."
  <2>1. j = IF i = 0 THEN 0 ELSE STATICNS_CRUMB_PARENT_IDX(ns[i].crumb)
    BY <1>1, <1>3 DEF stepTo, WalkUp
  <2>2. j \in 0..(n - 1)
    BY <1>1, <2>1
  <2> QED BY <1>3, <2>1, <2>2
<1>4. CASE name \notin {".", ".."}
  <2> DEFINE hits == KidsNamed(ns, n, i, name)
  <2>1. j = search(ns, ns[i].crumb, name)
    BY <1>4 DEF stepTo
  <2>2. j = PastEnd \/ j = ENOENT \/ (hits # {} /\ j = Min(hits))
    BY <2>1, SearchIs
  <2>3. hits \in SUBSET Nat /\ Kids(ns, n, i) \subseteq 0..(n - 1)
    BY <1>1 DEF Kids, KidsNamed
  <2>4. hits # {} => Min(hits) \in hits
    BY <2>3, MinIs
  <2> HIDE DEF j
  <2>5. j = PastEnd \/ j = ENOENT \/ j \in hits
    BY <2>2, <2>4
  <2> QED BY <1>4, <2>3, <2>5 DEF j, KidsNamed
<1> QED BY <1>2, <1>3, <1>4

(* A trail is a list of nodes, each of them the step's from the one before,
   and every one but the last a directory. *)
IsTrail(ns, i, path, at, m) ==
  /\ at[0] = i
  /\ \A j \in 1..m : ISDIR(ns[at[j - 1]].crumb) /\ at[j] = stepTo(ns, ns[at[j - 1]].crumb, path[j])

(* A step by a name from a node fails: the node is a file, or has no such child. *)
Blocked(ns, a, name) == ~ISDIR(ns[a].crumb) \/ stepTo(ns, ns[a].crumb, name) \in {ENOENT, PastEnd}

(* A trail that ends with the path, or where the path's next element leads nowhere. *)
LeavesTrail(ns, n, i, path, crumbs) ==
  \E m \in 0..Len(path) : \E at \in [0..m -> 0..(n - 1)] :
    /\ IsTrail(ns, i, path, at, m) /\ crumbs = [j \in 1..m |-> ns[at[j]].crumb]
    /\ m = Len(path) \/ Blocked(ns, at[m], path[m + 1])

(* genericWalk leaves the trail of the nodes on the first part of the path. *)
LEMMA GenericWalkIs ==
  ASSUME NEW ns, NEW n, IsTree(ns, n), NEW i \in 0..(n - 1), NEW P, NEW path \in Seq(P)
  PROVE  /\ LeavesTrail(ns, n, i, path, genericWalk(ns, ns[i].crumb, path).trail.crumbs)
         /\ genericWalk(ns, ns[i].crumb, path).trail.max = Len(path)
<1> DEFINE len == Len(path)
           Nodes == 0..(n - 1)
           C == {ns[j].crumb : j \in Nodes}
           V == [crumb : C, trail : [max : {len}, crumbs : Seq(C)],
                 end : {"walking", "PastEnd", "ENOENT", "ENOTDIR"}]
           init == [crumb |-> ns[i].crumb, trail |-> emptyWalkTrail(len), end |-> "walking"]
           step(g) == [k \in 0..len |-> IF k = 0 THEN init ELSE walkOne(ns, g[k - 1], path[k])]
           after == CHOOSE g : g = step(g)
<1>1. len \in Nat /\ n \in Nat \ {0}
  BY WidthsAre DEF IsTree, MaxTable
<1>2. ASSUME NEW w \in V, NEW name PROVE walkOne(ns, w, name) \in V
  <2>1. PICK a \in Nodes : w.crumb = ns[a].crumb
    OBVIOUS
  <2>2. CASE w.end # "walking" \/ ~ISDIR(w.crumb)
    BY <2>2 DEF walkOne
  <2>3. CASE w.end = "walking" /\ ISDIR(w.crumb)
    <3> DEFINE b == stepTo(ns, w.crumb, name)
    <3>1. walkOne(ns, w, name) = landOn(ns, w, b)
      BY <2>3 DEF walkOne
    <3>2. b \in {ENOENT, PastEnd} \cup Nodes
      <4>1. b = stepTo(ns, ns[a].crumb, name) /\ ISDIR(ns[a].crumb)
        BY <2>1, <2>3
      <4> HIDE DEF b
      <4> QED BY <4>1, StepIs
    <3> HIDE DEF b
    <3>3. CASE b \in {ENOENT, PastEnd}
      BY <3>1, <3>3 DEF landOn, ENOENT, PastEnd
    <3>4. CASE b \in Nodes
      <4>1. b # ENOENT /\ b # PastEnd
        <5> HIDE DEF V
        <5>1. b \in Nat
          BY <1>1, <3>4
        <5> QED BY <5>1 DEF ENOENT, PastEnd
      <4>2. ns[b].crumb \in C
        BY <3>4
      <4> DEFINE d == ns[b].crumb
                 t == pushCrumb(w.trail, d)
      <4>3. landOn(ns, w, b) = [w EXCEPT !.crumb = d, !.trail = t]
        BY <4>1 DEF landOn
      <4> HIDE DEF d, C, t
      <4>4. t \in [max : {len}, crumbs : Seq(C)]
        <5>1. w.trail \in [max : {len}, crumbs : Seq(C)] /\ d \in C
          BY <4>2 DEF d
        <5>2. t = w.trail \/ t = [w.trail EXCEPT !.crumbs = Append(w.trail.crumbs, d)]
          BY DEF pushCrumb, t
        <5>3. [w.trail EXCEPT !.crumbs = Append(w.trail.crumbs, d)] \in [max : {len}, crumbs : Seq(C)]
          <6> DEFINE u == w.trail
          <6> HIDE DEF u, V
          <6>1. u \in [max : {len}, crumbs : Seq(C)] /\ Append(u.crumbs, d) \in Seq(C)
            BY <5>1 DEF u
          <6>2. [u EXCEPT !.crumbs = Append(u.crumbs, d)] \in [max : {len}, crumbs : Seq(C)]
            BY <6>1
          <6> QED BY <6>2 DEF u
        <5> HIDE DEF V
        <5> QED BY <5>1, <5>2, <5>3
      <4> QED BY <3>1, <4>2, <4>3, <4>4 DEF d
    <3> QED BY <3>2, <3>3, <3>4
  <2> QED BY <2>2, <2>3
<1>3. init \in V
  BY DEF emptyWalkTrail
<1>4. after = step(after)
  <2> DEFINE f == [x \in V \X (1..len) |-> walkOne(ns, x[1], path[x[2]])]
  <2> HIDE DEF V, init
  <2>1. f \in [V \X (1..len) -> V]
    BY <1>2
  <2>2. PICK g : Unrolled(g, V, init, f, len)
    <3>1. len \in Nat /\ init \in V
      BY <1>1, <1>3
    <3> HIDE DEF f, len
    <3> QED BY <2>1, <3>1, Unrolls
  <2>3. ASSUME NEW k \in 0..len PROVE g[k] = IF k = 0 THEN init ELSE walkOne(ns, g[k - 1], path[k])
    <3>1. CASE k = 0
      BY <2>2, <3>1 DEF Unrolled
    <3>2. CASE k # 0
      <4>1. k - 1 \in 0..len /\ k \in 1..len
        BY <1>1, <3>2
      <4>2. g[k - 1] \in V /\ g[k] = f[<<g[k - 1], k>>]
        BY <2>2, <4>1 DEF Unrolled
      <4> QED BY <3>2, <4>1, <4>2
    <3> QED BY <3>1, <3>2
  <2> HIDE DEF f
  <2>4. g = step(g)
    <3>1. g = [k \in 0..len |-> g[k]]
      BY <2>2 DEF Unrolled
    <3> QED BY <2>3, <3>1
  <2> QED BY <2>4
<1>5. genericWalk(ns, ns[i].crumb, path) = after[len]
  BY DEF genericWalk
<1> HIDE DEF after
<1> DEFINE Inv(k, w) ==
      \E m \in 0..k : \E at \in [0..m -> Nodes] :
        /\ IsTrail(ns, i, path, at, m)
        /\ w \in V /\ w.crumb = ns[at[m]].crumb /\ (w.end = "walking" => m = k)
        /\ w.end # "walking" => Blocked(ns, at[m], path[m + 1])
        /\ w.trail.crumbs = [j \in 1..m |-> ns[at[j]].crumb]
<1>6. Inv(0, after[0])
  <2>1. after[0] = init
    <3>1. 0 \in 0..len
      BY <1>1
    <3> HIDE DEF init
    <3> QED BY <1>4, <3>1
  <2> DEFINE at == [j \in 0..0 |-> i]
  <2>2. IsTrail(ns, i, path, at, 0) /\ at[0] = i /\ at \in [0..0 -> Nodes]
    BY DEF IsTrail
  <2>3. init.trail.crumbs = [j \in 1..0 |-> ns[at[j]].crumb] /\ init.crumb = ns[i].crumb /\ init.end = "walking"
    BY DEF emptyWalkTrail
  <2> HIDE DEF at, V, init
  <2> QED BY <1>3, <2>1, <2>2, <2>3
<1>7. ASSUME NEW k \in 1..len, Inv(k - 1, after[k - 1]) PROVE Inv(k, after[k])
  <2> DEFINE w == after[k - 1]
             x == after[k]
  <2>1. x = walkOne(ns, w, path[k])
    <3>1. k \in 0..len /\ k # 0
      BY <1>1
    <3> HIDE DEF init
    <3> QED BY <1>4, <3>1
  <2>2. PICK m \in 0..(k - 1) : \E at \in [0..m -> Nodes] :
        /\ IsTrail(ns, i, path, at, m)
        /\ w \in V /\ w.crumb = ns[at[m]].crumb /\ (w.end = "walking" => m = k - 1)
        /\ w.end # "walking" => Blocked(ns, at[m], path[m + 1])
        /\ w.trail.crumbs = [j \in 1..m |-> ns[at[j]].crumb]
    BY <1>7
  <2>3. PICK at \in [0..m -> Nodes] :
        /\ IsTrail(ns, i, path, at, m)
        /\ w \in V /\ w.crumb = ns[at[m]].crumb /\ (w.end = "walking" => m = k - 1)
        /\ w.end # "walking" => Blocked(ns, at[m], path[m + 1])
        /\ w.trail.crumbs = [j \in 1..m |-> ns[at[j]].crumb]
    BY <2>2
  <2>4. x \in V /\ m \in 0..k /\ m \in Nat /\ at[m] \in Nodes
    <3>1. m \in 0..k /\ m \in Nat /\ m \in 0..m
      BY <1>1
    <3> HIDE DEF V, w, x
    <3> QED BY <1>2, <2>1, <2>3, <3>1
  <2> SUFFICES Inv(k, x)
    OBVIOUS
  <2> HIDE DEF w, x
  <2>5. CASE x.crumb = w.crumb /\ x.trail = w.trail /\ x.end # "walking" /\ Blocked(ns, at[m], path[m + 1])
    <3>1. x.crumb = ns[at[m]].crumb /\ x.trail.crumbs = [j \in 1..m |-> ns[at[j]].crumb]
      BY <2>3, <2>5
    <3> HIDE DEF V
    <3> QED BY <2>3, <2>4, <2>5, <3>1
  <2>6. CASE w.end # "walking"
    <3>1. x = w
      BY <2>1, <2>6 DEF walkOne
    <3>2. Blocked(ns, at[m], path[m + 1])
      BY <2>3, <2>6
    <3> QED BY <2>5, <2>6, <3>1, <3>2
  <2>7. CASE w.end = "walking" /\ ~ISDIR(w.crumb)
    <3>1. x = [w EXCEPT !.end = "ENOTDIR"]
      BY <2>1, <2>7 DEF walkOne
    <3>2. x.crumb = w.crumb /\ x.trail = w.trail /\ x.end = "ENOTDIR"
      BY <2>3, <3>1
    <3>3. Blocked(ns, at[m], path[m + 1])
      BY <2>3, <2>7 DEF Blocked
    <3> QED BY <2>5, <3>2, <3>3
  <2>8. CASE w.end = "walking" /\ ISDIR(w.crumb)
    <3> DEFINE b == stepTo(ns, w.crumb, path[k])
    <3>1. x = landOn(ns, w, b)
      BY <2>1, <2>8 DEF walkOne
    <3>2. b \in {ENOENT, PastEnd} \cup Nodes
      <4>1. b = stepTo(ns, ns[at[m]].crumb, path[k]) /\ ISDIR(ns[at[m]].crumb)
        BY <2>3, <2>8
      <4> HIDE DEF b, V
      <4> QED BY <2>4, <4>1, StepIs
    <3> HIDE DEF b
    <3>3. CASE b \in {ENOENT, PastEnd}
      <4>1. x = [w EXCEPT !.end = "PastEnd"] \/ x = [w EXCEPT !.end = "ENOENT"]
        BY <3>1, <3>3 DEF landOn, ENOENT, PastEnd
      <4>2. x.crumb = w.crumb /\ x.trail = w.trail /\ x.end # "walking"
        BY <2>3, <4>1
      <4>3. m + 1 = k
        <5>1. m = k - 1
          BY <2>3, <2>8
        <5> QED BY <5>1
      <4>4. Blocked(ns, at[m], path[m + 1])
        BY <2>3, <3>3, <4>3 DEF Blocked, b
      <4> QED BY <2>5, <4>2, <4>4
    <3>4. CASE b \in Nodes
      <4>1. b # ENOENT /\ b # PastEnd /\ m = k - 1 /\ m + 1 = k
        <5>1. m = k - 1
          BY <2>3, <2>8
        <5>2. b \in Nat
          BY <3>4
        <5> HIDE DEF V, Inv
        <5> QED BY <5>1, <5>2 DEF ENOENT, PastEnd
      <4> DEFINE d == ns[b].crumb
                 t == w.trail
                 bt == [j \in 0..k |-> IF j = k THEN b ELSE at[j]]
      <4>2. x = [w EXCEPT !.crumb = d, !.trail = pushCrumb(t, d)]
        BY <3>1, <4>1 DEF landOn
      <4>3. t \in [max : {len}, crumbs : Seq(C)] /\ Len(t.crumbs) = m /\ t.max = len /\ t.crumbs \in Seq(C)
        <5>1. t \in [max : {len}, crumbs : Seq(C)]
          BY <2>3
        <5>2. t.crumbs = [j \in 1..m |-> ns[at[j]].crumb]
          BY <2>3
        <5> HIDE DEF t, V, C
        <5>3. t.max = len /\ t.crumbs \in Seq(C)
          BY <5>1
        <5>4. DOMAIN t.crumbs = 1..m
          BY <5>2
        <5>5. Len(t.crumbs) = m
          BY <2>4, <5>3, <5>4
        <5> QED BY <5>1, <5>3, <5>5
      <4>4. ~ (Len(t.crumbs) >= t.max)
        BY <1>1, <4>1, <4>3
      <4> HIDE DEF d, t
      <4>5. x.crumb = d /\ x.trail = [t EXCEPT !.crumbs = Append(@, d)] /\ x.end = "walking"
        BY <2>3, <2>8, <4>2, <4>4 DEF pushCrumb
      <4>6. x.trail.crumbs = Append(t.crumbs, d)
        BY <4>3, <4>5
      <4>7. bt \in [0..k -> Nodes] /\ bt[k] = b /\ \A j \in 0..m : bt[j] = at[j]
        <5>1. \A j \in 0..k : j = k \/ j \in 0..m
          BY <4>1
        <5>2. k \in 0..k /\ \A j \in 0..m : j \in 0..k /\ j # k
          BY <4>1
        <5> HIDE DEF V, Nodes
        <5> QED BY <2>3, <3>4, <5>1, <5>2
      <4> HIDE DEF bt
      <4>8. IsTrail(ns, i, path, bt, k)
        <5>1. bt[0] = i
          <6> HIDE DEF V
          <6>1. at[0] = i
            BY <2>3 DEF IsTrail
          <6>2. 0 \in 0..m
            BY <2>4
          <6> QED BY <4>7, <6>1, <6>2
        <5>2. ASSUME NEW j \in 1..k
              PROVE  ISDIR(ns[bt[j - 1]].crumb) /\ bt[j] = stepTo(ns, ns[bt[j - 1]].crumb, path[j])
          <6>1. CASE j = k
            <7>1. j - 1 = m /\ m \in 0..m
              BY <4>1, <6>1
            <7>2. ns[bt[j - 1]].crumb = w.crumb
              BY <2>3, <4>7, <7>1
            <7> QED BY <2>8, <4>7, <6>1, <7>2 DEF b
          <6>2. CASE j # k
            <7>1. j \in 1..m /\ j \in 0..m /\ j - 1 \in 0..m
              BY <4>1, <6>2
            <7> QED BY <2>3, <4>7, <7>1 DEF IsTrail
          <6> QED BY <6>1, <6>2
        <5> QED BY <5>1, <5>2 DEF IsTrail
      <4>9. x.trail.crumbs = [j \in 1..k |-> ns[bt[j]].crumb]
        <5>1. t.crumbs = [j \in 1..m |-> ns[at[j]].crumb]
          BY <2>3 DEF t
        <5> DEFINE s == [j \in 1..k |-> ns[bt[j]].crumb]
        <5>2. \A j \in 1..m : s[j] = t.crumbs[j]
          BY <4>1, <4>7, <5>1
        <5>3. s[k] = d
          BY <4>7 DEF d
        <5>4. \A j \in 1..k : j \in 1..m \/ j = k
          BY <4>1
        <5>5. d \in C
          BY <3>4 DEF d
        <5>6. Append(t.crumbs, d) = [j \in 1..(m + 1) |-> IF j = m + 1 THEN d ELSE t.crumbs[j]]
          <6> HIDE DEF V, C
          <6> QED BY <2>4, <4>3, <5>5
        <5>7. Append(t.crumbs, d) = [j \in 1..k |-> IF j = k THEN d ELSE t.crumbs[j]]
          BY <4>1, <5>6
        <5> QED BY <4>6, <5>2, <5>3, <5>4, <5>7
      <4>10. k \in 0..k
        BY <4>1
      <4>11. x.crumb = ns[bt[k]].crumb
        BY <4>5, <4>7 DEF d
      <4> HIDE DEF V
      <4> QED BY <2>4, <4>5, <4>7, <4>8, <4>9, <4>10, <4>11
    <3> QED BY <3>2, <3>3, <3>4
  <2> QED BY <2>6, <2>7, <2>8
<1> DEFINE S == {k \in Nat : k <= len => Inv(k, after[k])}
<1>8. len \in S
  <2> HIDE DEF Inv, len
  <2>1. 0 \in S
    BY <1>6
  <2>2. ASSUME NEW k \in Nat, k \in S PROVE k + 1 \in S
    <3> SUFFICES ASSUME k + 1 <= len PROVE Inv(k + 1, after[k + 1])
      OBVIOUS
    <3>1. k + 1 \in 1..len /\ (k + 1) - 1 = k
      BY <1>1
    <3>2. Inv((k + 1) - 1, after[(k + 1) - 1])
      BY <1>1, <2>2, <3>1
    <3> QED BY <1>7, <3>1, <3>2
  <2> HIDE DEF S
  <2> QED BY <1>1, <2>1, <2>2, NatSetInduction
<1>9. Inv(len, after[len])
  <2> HIDE DEF Inv
  <2> QED BY <1>1, <1>8
<1>10. after[len].trail.max = len
  <2>1. after[len] \in V
    BY <1>9
  <2> QED BY <2>1
<1> HIDE DEF V
<1> QED BY <1>5, <1>9, <1>10 DEF LeavesTrail
-----------------------------------------------------------------------------
(* The greatest of some numbers is one of them. *)
LEMMA MaxIn ==
  ASSUME NEW n \in Nat, NEW S \in SUBSET (0..n), S # {}
  PROVE  Max(S) \in S /\ \A y \in S : y <= Max(S)
<1> DEFINE R == {n - k : k \in S}
<1>1. R \in SUBSET Nat /\ R # {}
  <2>1. \A k \in S : k \in 0..n
    OBVIOUS
  <2>2. \A k \in S : n - k \in Nat
    BY <2>1
  <2> QED BY <2>2
<1>2. Min(R) \in R /\ \A y \in R : Min(R) <= y
  BY <1>1, MinIs
<1>3. PICK k \in S : Min(R) = n - k
  BY <1>2
<1>4. ASSUME NEW y \in S PROVE y \in Int /\ y <= k
  <2>1. n - y \in R
    OBVIOUS
  <2>2. n - k <= n - y
    BY <1>2, <1>3, <2>1
  <2>3. y \in Nat /\ k \in Nat
    OBVIOUS
  <2> HIDE DEF R
  <2> QED BY <2>2, <2>3
<1>5. k \in Int
  OBVIOUS
<1>6. Max(S) = k
  BY <1>4, <1>5, MaxIs
<1> QED BY <1>4, <1>6

(* What a read of a directory returns goes on where the last one ended. *)
LEMMA ThatFitIs ==
  ASSUME NEW X, NEW names \in Seq(X), NEW offset \in 0..Len(names), NEW size
  PROVE  \E m \in 0..Len(names) : thatFit(names, size, offset) = SubSeq(names, offset + 1, m)
<1> DEFINE n == Len(names)
           S == {k \in 0..n : fits(names, offset, size, k)}
<1>1. n \in Nat
  OBVIOUS
<1>2. 0 \in S
  <2>1. fits(names, offset, size, 0)
    <3>1. \A j \in 1..0 : FALSE
      OBVIOUS
    <3> QED BY <3>1, Zenon DEF fits
  <2> QED BY <1>1, <2>1
<1>3. S \in SUBSET (0..n) /\ S # {}
  BY <1>2
<1>4. Max(S) \in 0..n
  <2> HIDE DEF S, n
  <2> QED BY <1>1, <1>3, MaxIn
<1> HIDE DEF n
<1>5. thatFit(names, size, offset) = SubSeq(names, offset + 1, Max(S))
  BY DEF thatFit, n
<1> QED BY <1>4, <1>5 DEF n

(* A part of the listing put after the part before it makes a longer one. *)
LEMMA ListingGoesOn ==
  ASSUME NEW X, NEW names \in Seq(X), NEW offset \in 0..Len(names), NEW m \in 0..Len(names),
         NEW t, t = SubSeq(names, offset + 1, m) \/ t = <<>>
  PROVE  /\ t \in Seq(X) /\ offset + Len(t) \in 0..Len(names)
         /\ SubSeq(names, 1, offset) \o t = SubSeq(names, 1, offset + Len(t))
<1> DEFINE n == Len(names)
           s == SubSeq(names, 1, offset)
<1>1. n \in Nat /\ offset \in Nat /\ m \in Nat /\ offset <= n /\ m <= n
  OBVIOUS
<1>2. s \in Seq(X)
  <2>1. \A i \in 1..offset : i \in 1..n
    BY <1>1
  <2>2. \A i \in 1..offset : names[i] \in X
    BY <2>1
  <2> QED BY <1>1, <2>2, SubSeqProperties
<1>3. CASE t = <<>>
  <2>1. t \in Seq(X) /\ Len(t) = 0
    BY <1>3, EmptySeq
  <2>2. s \o t = s
    BY <1>2, <1>3, ConcatEmptySeq
  <2>3. offset + 0 = offset
    BY <1>1
  <2> QED BY <1>1, <2>1, <2>2, <2>3
<1>4. CASE t = SubSeq(names, offset + 1, m) /\ m < offset + 1
  <2>1. t = <<>>
    BY <1>1, <1>4, SubSeqEmpty
  <2> QED BY <1>3, <2>1
<1>5. CASE t = SubSeq(names, offset + 1, m) /\ offset + 1 <= m
  <2>1. \A i \in (offset + 1)..m : i \in 1..n
    BY <1>1
  <2>2. \A i \in (offset + 1)..m : names[i] \in X
    BY <2>1
  <2>3. t \in Seq(X) /\ Len(t) = m - (offset + 1) + 1
    BY <1>1, <1>5, <2>2, SubSeqProperties
  <2>4. offset + Len(t) = m
    <3> HIDE DEF n
    <3> QED BY <1>1, <2>3
  <2>5. 1 \in 1..(Len(names) + 1) /\ offset \in (1 - 1)..Len(names) /\ m \in offset..Len(names)
    BY <1>1, <1>5
  <2>6. s \o SubSeq(names, offset + 1, m) = SubSeq(names, 1, m)
    BY <2>5, ConcatAdjacentSubSeq
  <2> QED BY <1>5, <2>3, <2>4, <2>6
<1>6. m < offset + 1 \/ offset + 1 <= m
  BY <1>1
<1> QED BY <1>3, <1>4, <1>5, <1>6

(* With room for the next name, the next name fits: what is skipped takes none. *)
LEMMA NextFits ==
  ASSUME NEW X, NEW names \in Seq(X), NEW offset \in Nat, offset < Len(names), NEW size \in Nat,
         \A i \in 1..Len(names) : Len(names[i]) \in Nat /\ Len(names[i]) < size
  PROVE  fits(names, offset, size, offset + 1)
<1> DEFINE k == offset + 1
           add(j) == IF j > offset THEN Len(names[j]) + 1 ELSE 0
           step(F) == [j \in 0..k |-> IF j = 0 THEN 0 ELSE F[j - 1] + add(j)]
           used == CHOOSE F : F = step(F)
           S == {j \in Nat : j <= offset => used[j] = 0}
<1>1. \A j \in 1..k : j \in 1..Len(names) /\ add(j) \in Nat
  <2>1. Len(names) \in Nat
    OBVIOUS
  <2> QED BY <2>1
<1>2. k \in Nat /\ \A j \in 0..offset : j # 0 => add(j) = 0
  OBVIOUS
<1>3. used = step(used)
  <2> DEFINE f == [x \in Nat \X (1..k) |-> x[1] + add(x[2])]
  <2> HIDE DEF add, k
  <2>1. f \in [Nat \X (1..k) -> Nat]
    BY <1>1
  <2> HIDE DEF f
  <2>2. PICK g : Unrolled(g, Nat, 0, f, k)
    BY <1>2, <2>1, 0 \in Nat, Unrolls
  <2>3. ASSUME NEW j \in 0..k PROVE g[j] = IF j = 0 THEN 0 ELSE g[j - 1] + add(j)
    <3>1. CASE j = 0
      BY <2>2, <3>1 DEF Unrolled
    <3>2. CASE j # 0
      <4>1. j - 1 \in 0..k /\ j \in 1..k
        BY <1>2, <3>2
      <4>2. g[j - 1] \in Nat /\ g[j] = f[<<g[j - 1], j>>]
        BY <2>2, <4>1 DEF Unrolled
      <4> QED BY <3>2, <4>1, <4>2 DEF f
    <3> QED BY <3>1, <3>2
  <2>4. g = step(g)
    <3>1. g = [j \in 0..k |-> g[j]]
      BY <2>2 DEF Unrolled
    <3> QED BY <2>3, <3>1
  <2> QED BY <2>4
<1>4. fits(names, offset, size, k) <=> \A j \in 1..k : used[j - 1] + Len(names[j]) + 1 <= size
  BY DEF fits
<1> HIDE DEF used
<1>5. 0 \in S
  <2>1. 0 \in 0..k
    BY <1>2
  <2>2. used[0] = 0
    BY <1>3, <2>1
  <2> QED BY <2>2
<1>6. ASSUME NEW j \in Nat, j \in S PROVE j + 1 \in S
  <2> SUFFICES ASSUME j + 1 <= offset PROVE used[j + 1] = 0
    OBVIOUS
  <2>1. used[j] = 0 /\ j + 1 \in 0..k /\ j + 1 # 0 /\ (j + 1) - 1 = j /\ add(j + 1) = 0
    BY <1>2, <1>6
  <2> HIDE DEF add, k
  <2>2. used[j + 1] = used[(j + 1) - 1] + add(j + 1)
    BY <1>3, <2>1
  <2> QED BY <2>1, <2>2
<1>7. \A j \in Nat : j \in S
  <2> HIDE DEF S
  <2> QED BY <1>5, <1>6, NatSetInduction
<1>8. ASSUME NEW j \in 1..k PROVE used[j - 1] + Len(names[j]) + 1 <= size
  <2>1. j - 1 \in Nat /\ j - 1 <= offset
    BY <1>2
  <2>2. used[j - 1] = 0
    BY <1>7, <2>1
  <2>3. Len(names[j]) \in Nat /\ Len(names[j]) < size
    BY <1>1
  <2> QED BY <2>2, <2>3
<1> QED BY <1>4, <1>8

(* A read with room for any name returns none only at the end. *)
LEMMA ReadsOn ==
  ASSUME NEW X, NEW names \in Seq(X), NEW offset \in 0..Len(names), NEW size \in Nat,
         \A i \in 1..Len(names) : Len(names[i]) \in Nat /\ Len(names[i]) < size,
         Len(thatFit(names, size, offset)) = 0
  PROVE  offset = Len(names)
<1> SUFFICES ASSUME offset # Len(names) PROVE FALSE
  OBVIOUS
<1> DEFINE n == Len(names)
           S == {k \in 0..n : fits(names, offset, size, k)}
<1>1. n \in Nat /\ offset \in Nat /\ offset < n
  OBVIOUS
<1>2. fits(names, offset, size, offset + 1)
  BY <1>1, NextFits
<1>3. offset + 1 \in S /\ S \in SUBSET (0..n)
  BY <1>1, <1>2
<1>4. Max(S) \in 0..n /\ Max(S) >= offset + 1
  <2> HIDE DEF S, n
  <2> QED BY <1>1, <1>3, MaxIn
<1> HIDE DEF n
<1>5. thatFit(names, size, offset) = SubSeq(names, offset + 1, Max(S))
  BY DEF thatFit, n
<1> HIDE DEF S
<1>6. PICK m \in 0..n : m = Max(S) /\ m >= offset + 1
  BY <1>4
<1>7. \A i \in (offset + 1)..m : i \in 1..n
  BY <1>1, <1>6
<1>8. \A i \in (offset + 1)..m : names[i] \in X
  BY <1>7 DEF n
<1>9. Len(SubSeq(names, offset + 1, m)) = m - (offset + 1) + 1
  BY <1>1, <1>6, <1>8, SubSeqProperties
<1> QED BY <1>1, <1>5, <1>6, <1>9
=============================================================================
