------------------------------ MODULE Channel ------------------------------
(***************************************************************************)
(* What a queue of the UART promises: what is taken out is what was put    *)
(* in, in that order, each byte once, and at most Capacity bytes are in    *)
(* between.                                                                *)
(***************************************************************************)
EXTENDS Integers, Sequences

CONSTANTS Byte, Capacity

VARIABLES put, got      \* all that was put in, and taken out, so far

vars == <<put, got>>

Init == put = <<>> /\ got = <<>>

Put(c) ==
  /\ Len(put) - Len(got) < Capacity
  /\ put' = Append(put, c)
  /\ UNCHANGED got

Get ==
  /\ Len(got) < Len(put)
  /\ got' = Append(got, put[Len(got) + 1])
  /\ UNCHANGED put

Next == Get \/ \E c \in Byte : Put(c)

Spec == Init /\ [][Next]_vars
=============================================================================
