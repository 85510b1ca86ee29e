----------------------------- MODULE MCKmalloc ------------------------------
(***************************************************************************)
(* The allocator on a small heap, and the layout of the real one.          *)
(***************************************************************************)
EXTENDS Kmalloc, RamLayout
=============================================================================
