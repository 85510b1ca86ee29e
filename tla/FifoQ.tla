------------------------------- MODULE FifoQ -------------------------------
(***************************************************************************)
(* The byte queue of the UART driver: a ring of q.size bytes, the offset   *)
(* read next, the offset written next, and a flag that tells the empty     *)
(* ring from the full one, for both have equal offsets.                    *)
(*                                                                         *)
(* An operation that fails returns 0 and changes nothing: enqueueFifoQ     *)
(* when isFullFifoQ, dequeueFifoQ when q.isEmpty.                          *)
(***************************************************************************)
EXTENDS Integers, Sequences

(* clearFifoQ() leaves the bytes in the buffer. *)
clearFifoQ(q) ==
  [isEmpty |-> TRUE, readOffset |-> 0, writeOffset |-> 0, size |-> q.size, buf |-> q.buf]

(* newFifoQ(): the buffer is as the allocator gives it, here all `junk'. *)
newFifoQ(size, junk) ==
  clearFifoQ([size |-> size, buf |-> [i \in 0..(size - 1) |-> junk]])

(* The full ring and the empty one have equal offsets. *)
isFullFifoQ(q) == ~q.isEmpty /\ q.readOffset = q.writeOffset

enqueueFifoQMutant(q, c) ==   \* writeOffset does not wrap
  [q EXCEPT !.buf[q.writeOffset] = c, !.writeOffset = @ + 1, !.isEmpty = FALSE]

(* enqueueFifoQ() of a queue that is not full. *)
enqueueFifoQ(q, c) ==
  [isEmpty |-> FALSE, readOffset |-> q.readOffset,
   writeOffset |-> (q.writeOffset + 1) % q.size,
   size |-> q.size, buf |-> [q.buf EXCEPT ![q.writeOffset] = c]]

(* The byte dequeueFifoQ() hands out, and the queue it leaves. *)
frontFifoQ(q) == q.buf[q.readOffset]

dequeueFifoQMutant(q) ==      \* isEmpty is never set again
  [q EXCEPT !.readOffset = (q.readOffset + 1) % q.size]

dequeueFifoQ(q) ==
  LET next == (q.readOffset + 1) % q.size IN
  [isEmpty |-> (next = q.writeOffset), readOffset |-> next,
   writeOffset |-> q.writeOffset, size |-> q.size, buf |-> q.buf]
-----------------------------------------------------------------------------
(* What a queue is, and what is in it: the bytes from readOffset on. *)
FifoQs(size, Byte) ==
  [isEmpty : BOOLEAN, readOffset : 0..(size - 1), writeOffset : 0..(size - 1),
   size : {size}, buf : [0..(size - 1) -> Byte]]

countFifoQ(q) ==
  IF q.isEmpty THEN 0
  ELSE IF q.readOffset < q.writeOffset THEN q.writeOffset - q.readOffset
  ELSE q.writeOffset - q.readOffset + q.size

(* q holds, in order, what was put into it and not yet got out of it. *)
Between(q, put, got) ==
  /\ q.isEmpty => q.readOffset = q.writeOffset
  /\ Len(put) = Len(got) + countFifoQ(q)
  /\ \A i \in 1..countFifoQ(q) :
       put[Len(got) + i] = q.buf[(q.readOffset + i - 1) % q.size]

contentsFifoQ(q) ==
  [i \in 1..countFifoQ(q) |-> q.buf[(q.readOffset + i - 1) % q.size]]
=============================================================================
