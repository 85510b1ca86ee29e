------------------------------ MODULE MCSched ------------------------------
(***************************************************************************)
(* Sched for TLC: three Procs, so that the free list can be emptied and a  *)
(* pid reused; the first pid is the boot shell.  One run goes through two  *)
(* sessions at the console, which differ in who may do what and in the     *)
(* keys that are typed.                                                    *)
(***************************************************************************)
EXTENDS Sched

VARIABLE session

(* ctrl-C, with two pids that may run ps. *)
Kill == INSTANCE Sched WITH Resumers <- {}, Keys <- {"SigAbort"}

(* ctrl-Z and fg. *)
Jobs == INSTANCE Sched WITH Listers <- {}, Keys <- {"SigStop"}

SessionNext ==
  /\ \/ session = "kill" /\ Kill!Next
     \/ session = "jobs" /\ Jobs!Next
  /\ UNCHANGED session

SessionInit == Init /\ session \in {"kill", "jobs"}

SessionSpec == SessionInit /\ [][SessionNext]_<<vars, session>>
=============================================================================
