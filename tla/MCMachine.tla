----------------------------- MODULE MCMachine ------------------------------
(***************************************************************************)
(* The parts of the kernel that interrupts and processes share, each on a  *)
(* small instance: the run queue and ps, critical regions, the timer's     *)
(* alarms.  A behaviour is one of a single part; the others stay in their  *)
(* initial states.                                                         *)
(***************************************************************************)
EXTENDS RunQueue, CriticalRegion, Alarms

VARIABLE part

TwoPids == <<1, 2>>

(* The run queue when every process is busy: none waits or dies. *)
Busy == INSTANCE RunQueue WITH Waiters <- {}, Mortals <- {}

ASSUME PartsAssumption == RegionAssumption /\ AlarmsAssumption

PartInit ==
  part \in {"queue", "busy", "region", "alarms"} /\ Init /\ RegionInit /\ AlarmsInit

queueStep  == UNCHANGED <<regionVars, alarmVars>>
                /\ \/ part = "queue" /\ Next
                   \/ part = "busy" /\ Busy!Next
regionStep == part = "region" /\ RegionNext /\ UNCHANGED <<vars, alarmVars>>
alarmStep  == part = "alarms" /\ AlarmsNext /\ UNCHANGED <<vars, regionVars>>
(* A signal through a NULL pointer has stopped the machine; or a region that
   masks nothing was split, where this instance ends. *)
stopped    == (fault \/ split) /\ UNCHANGED <<vars, regionVars, alarmVars>>

PartNext == (queueStep \/ regionStep \/ alarmStep \/ stopped) /\ UNCHANGED part

(***************************************************************************)
(* ps goes on when it has the processor and is preempted finitely often    *)
(* between two of its steps; the timers interrupt as long as the machine   *)
(* runs.                                                                   *)
(***************************************************************************)
PartFairness ==
  /\ WF_vars(part = "busy" /\ Busy!scheduler) /\ SF_vars(part = "busy" /\ Busy!ps)
  /\ WF_alarmVars(part = "alarms" /\ toieHandler)
  /\ WF_alarmVars(part = "alarms" /\ pdbHandler)

PartSpec ==
  /\ PartInit
  /\ [][PartNext]_<<vars, regionVars, alarmVars, part>>
  /\ PartFairness
-----------------------------------------------------------------------------
(* If all processes are busy ps comes to the end of the queue, which moves
   under it, gives runQLock back, and has listed every process that was there
   when it began (ps.c:36-41).  With one that waits the queue turns unevenly,
   and ps passes over processes or goes round. *)
PsReturns == (part = "busy" /\ pc = "print") ~> (pc = "done" /\ ListsAll)
=============================================================================
