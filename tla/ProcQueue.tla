----------------------------- MODULE ProcQueue -----------------------------
(***************************************************************************)
(* What the kernel takes a list of Procs for: a queue in which a Proc is   *)
(* at most once, that grows at its tail and may lose any of its members.   *)
(* Sched is written with such sequences.                                   *)
(***************************************************************************)
EXTENDS Integers, Sequences, SequencesExt

CONSTANT Procs

VARIABLE queue

Init == queue \in Seq(Procs) /\ IsInjective(queue)

Enqueue(p) == p \notin Range(queue) /\ queue' = Append(queue, p)

Take(i) == queue' = RemoveAt(queue, i)

Next == (\E p \in Procs : Enqueue(p)) \/ (\E i \in DOMAIN queue : Take(i))

Spec == Init /\ [][Next]_queue
=============================================================================
