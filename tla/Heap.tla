-------------------------------- MODULE Heap --------------------------------
(***************************************************************************)
(* What the kernel expects of kmalloc and kfree: memory blocks, double     *)
(* word aligned, inside the heap and never overlapping.  Whether a request *)
(* can be met is the allocator's business: a failed request changes        *)
(* nothing here.                                                           *)
(***************************************************************************)
EXTENDS Integers

CONSTANTS Bytes,      \* the heap is the addresses 0 .. Bytes - 1
          Offset,     \* the block addresses are Offset modulo 8
          Requests    \* the sizes that are asked for

VARIABLE blocks       \* block address -> the size that was asked for

extent(a, n) == a .. a + n - 1

Init == blocks = <<>>

alloc(a, n) ==
  /\ a % 8 = Offset
  /\ extent(a, n) \subseteq 0 .. Bytes - 1
  /\ a \notin DOMAIN blocks
  /\ \A b \in DOMAIN blocks : extent(a, n) \cap extent(b, blocks[b]) = {}
  /\ blocks' = [b \in DOMAIN blocks \cup {a} |->
                  IF b = a THEN n ELSE blocks[b]]

free(a) == /\ a \in DOMAIN blocks
           /\ blocks' = [b \in DOMAIN blocks \ {a} |-> blocks[b]]

Next == \/ \E a \in 0 .. Bytes - 1, n \in Requests : alloc(a, n)
        \/ \E a \in DOMAIN blocks : free(a)

Spec == Init /\ [][Next]_blocks
=============================================================================
