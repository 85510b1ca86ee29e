------------------------------- MODULE HeapQ -------------------------------
(***************************************************************************)
(* The priority heap of heapq/: enqueueHeapQ and dequeueHeapQ, with one    *)
(* action for each call of the recursive upHeapQ and downHeapQ.            *)
(*                                                                         *)
(* Words size to Top are the memory after the heap's own.  buf[-1] is the  *)
(* field size, and counting n down from 0 gives the largest size_t.        *)
(***************************************************************************)
EXTENDS Integers, FiniteSets

CONSTANTS Values,     \* what is enqueued
          size,       \* HeapQ.size
          Top,        \* bound: the last word of memory that is modelled
          SIZE_MAX,   \* the largest size_t, scaled down
          Garbage,    \* what memory may hold that nobody has written
          Least       \* the fewest values dequeueHeapQ is called on

HeapAssumption ==
  /\ Values \cup Garbage \subseteq Nat /\ size \in Nat \ {0} /\ Top \in Nat /\ size <= Top
  /\ SIZE_MAX \in Nat /\ SIZE_MAX > 2 * Top + 2 /\ Least \in Nat

VARIABLES
  buf, n,       \* the heap
  pc,           \* "idle", or the routine that runs
  start,        \* upHeapQ's bottomIndex, downHeapQ's startIndex
  bottom,       \* downHeapQ's bottomIndex
  x, ok,        \* what dequeueHeapQ stored, and what it returned
  was           \* the values in the heap when dequeueHeapQ was called

vars == <<buf, n, pc, start, bottom, x, ok, was>>

Words == 0..Top

(* newHeapQ() and clearHeapQ(): the buffer is not cleared. *)
newHeapQ == buf \in [Words -> Garbage] /\ n = 0

Init == /\ newHeapQ /\ pc = "idle" /\ start = 0 /\ bottom = 0
        /\ x = 0 /\ ok = 1 /\ was = {0}

swapMutant(i, j) == buf' = [buf EXCEPT ![i] = buf[j]]
swap(i, j)       == buf' = [buf EXCEPT ![i] = buf[j], ![j] = buf[i]]

(* With no room, enqueueHeapQ() changes nothing. *)
enqueueHeapQ(v) ==
  /\ pc = "idle" /\ n < size
  /\ buf' = [buf EXCEPT ![n] = v]
  /\ pc' = "up" /\ start' = n
  /\ UNCHANGED <<n, bottom, x, ok, was>>

upIndex(i) == (i - 1) \div 2

(* upHeapQ() swaps a value with a smaller parent and goes on from there ... *)
upHeapQ ==
  /\ pc = "up" /\ start > 0 /\ buf[upIndex(start)] < buf[start]
  /\ swap(upIndex(start), start) /\ start' = upIndex(start)
  /\ UNCHANGED <<n, pc, bottom, x, ok, was>>

(* ... or returns to enqueueHeapQ(), which counts the value. *)
upReturns ==
  /\ pc = "up" /\ (start > 0 => buf[upIndex(start)] >= buf[start])
  /\ n' = n + 1 /\ pc' = "idle"
  /\ UNCHANGED <<buf, start, bottom, x, ok, was>>

lessOne(i) == IF i = 0 THEN SIZE_MAX ELSE i - 1

(* dequeueHeapQ() takes the root and puts the last value in its place.  A count
   that has wrapped is where the model ends. *)
dequeueHeapQ ==
  /\ pc = "idle" /\ n >= Least /\ n <= size
  /\ x' = buf[0] /\ was' = {buf[i] : i \in 0..(n - 1)}
  /\ n' = lessOne(n)
  /\ buf' = [buf EXCEPT ![0] = IF n = 0 THEN size ELSE buf[n - 1]]
  /\ pc' = "down" /\ start' = 0 /\ bottom' = lessOne(n')
  /\ UNCHANGED ok

left == 2 * start + 1

(* downHeapQ()'s maxIndex: the greater of the two children. *)
maxIndexMutant == left
maxIndex       == IF left < bottom /\ buf[left] <= buf[left + 1] THEN left + 1 ELSE left

Ordered == left <= bottom => buf[start] > buf[maxIndex]

downHeapQ ==
  /\ pc = "down" /\ left < Top /\ ~ Ordered
  /\ swap(start, maxIndex) /\ start' = maxIndex
  /\ UNCHANGED <<n, pc, bottom, x, ok, was>>

(* downHeapQ() returns to dequeueHeapQ(), or has left the modelled memory. *)
downReturns ==
  /\ pc = "down" /\ (left < Top => Ordered)
  /\ pc' = "idle" /\ ok' = IF n > 0 THEN 1 ELSE 0
  /\ UNCHANGED <<buf, n, start, bottom, x, was>>

Next == \/ \E v \in Values : enqueueHeapQ(v)
        \/ upHeapQ
        \/ upReturns
        \/ dequeueHeapQ
        \/ downHeapQ
        \/ downReturns

Spec == Init /\ [][Next]_vars

-----------------------------------------------------------------------------
TypeOK ==
  /\ buf \in [Words -> Nat] /\ n \in 0..size /\ pc \in {"idle", "up", "down"}
  /\ start \in Words /\ bottom \in 0..SIZE_MAX /\ x \in Nat /\ ok \in {0, 1}

(* Between calls no value is greater than its parent, whatever was enqueued and
   dequeued before, the last value included (upHeapQ and downHeapQ "maintain the
   heap invariant"). *)
HeapOrdered ==
  TypeOK /\ (pc = "idle" => \A i \in 1..(n - 1) : buf[i] <= buf[upIndex(i)])

(* The values of the heap as a bag: those counted, without the one that is
   being enqueued, which upHeapQ moves. *)
heldWords == IF pc = "up" THEN {i \in 0..n : i # start} ELSE 0..(n - 1)
held == [v \in {buf[i] : i \in heldWords} |-> Cardinality({i \in heldWords : buf[i] = v})]

priority == INSTANCE PriorityBag WITH Values <- Values, Size <- size

(* The heap is a priority queue of size values: nothing is lost, invented or
   duplicated by the swaps.  The code takes the greatest value first, where
   dequeueHeapQ's comment says the lowest (enqueueHeapQ, dequeueHeapQ). *)
ImplementsPriority == priority!Spec

(* dequeueHeapQ hands out the "lowest value" (its comment, downHeapQ.c:73). *)
DequeuesLowest == pc = "idle" /\ was # {} => \A v \in was : x <= v

(* What dequeueHeapQ returns says whether x is a value of the heap. *)
ReturnSaysValid == pc = "idle" => (ok = 1 <=> was # {})

(* A dequeue works on the memory newHeapQ allocated. *)
SiftStaysInside == pc = "down" => start < size /\ (~ Ordered => maxIndex < size)
=============================================================================
