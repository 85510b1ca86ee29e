--------------------------- MODULE CriticalRegion ---------------------------
(***************************************************************************)
(* enterCriticalRegion and leaveCriticalRegion, one action for each access *)
(* to the shared counter and to the interrupt mask.                        *)
(*                                                                         *)
(* A thread may be preempted between any two of these steps unless         *)
(* interrupts are masked.  Code that runs for a system call is privileged; *)
(* a process's own code, which calls kmalloc and others, is not once main  *)
(* has called enterUserMode, and the processor then ignores cpsid and      *)
(* cpsie.  Every thread enters regions both ways.  Handlers are threads    *)
(* that are not preempted for long, hence nothing more.                    *)
(***************************************************************************)
EXTENDS Integers, FiniteSets

CONSTANTS Threads,
          NoThread,
          MaxDepth,      \* bound: regions nested in one thread
          AfterSplit     \* bound: whether threads go on once split is true

RegionAssumption == /\ NoThread \notin Threads
                    /\ MaxDepth \in Nat \ {0} /\ AfterSplit \in BOOLEAN

VARIABLES criticalRegionCount,
          primask,       \* the thread that masked interrupts, or NoThread
          step, reg,       \* where each thread is, and the value it has loaded
          depth,         \* the regions each thread is in
          user,          \* it entered the outermost one from its own code
          split          \* history: some thread took a step while another was
                         \* between the steps of a region of its own code

regionVars == <<criticalRegionCount, primask, step, reg, depth, user, split>>

RegionSteps == {"out", "test", "cpsid", "load", "store", "in",
          "unload", "unstore", "untest", "cpsie"}

RegionTypeOK ==
  /\ criticalRegionCount \in Int /\ primask \in Threads \cup {NoThread}
  /\ step \in [Threads -> RegionSteps] /\ reg \in [Threads -> Int]
  /\ depth \in [Threads -> 0..MaxDepth]
  /\ user \in [Threads -> BOOLEAN] /\ split \in BOOLEAN

RegionInit ==
  /\ criticalRegionCount = 0 /\ primask = NoThread
  /\ step = [t \in Threads |-> "out"] /\ reg = [t \in Threads |-> 0]
  /\ depth = [t \in Threads |-> 0]
  /\ user = [t \in Threads |-> FALSE] /\ split = FALSE

(* Thread t runs, and goes from one place to another. *)
goto(t, from, to) ==
  /\ split => AfterSplit
  /\ primask \in {NoThread, t} /\ step[t] = from
  /\ step' = [step EXCEPT ![t] = to]
  /\ split' = (split \/ \E u \in Threads \ {t} : user[u] /\ step[u] # "out")

privileged(t) == ~ user[t]

(* A system call enters a region, or the thread's own code does ... *)
begin(t) == /\ goto(t, "out", "test")
            /\ \E own \in BOOLEAN : user' = [user EXCEPT ![t] = own]
            /\ UNCHANGED <<criticalRegionCount, primask, reg, depth>>

(* ... and another one within it. *)
nest(t) == /\ goto(t, "in", "test")
           /\ depth[t] < MaxDepth
           /\ UNCHANGED <<criticalRegionCount, primask, reg, depth, user>>

testCount(t) ==
  /\ goto(t, "test", IF criticalRegionCount = 0 THEN "cpsid" ELSE "load")
  /\ UNCHANGED <<criticalRegionCount, primask, reg, depth, user>>

DISABLE_INTERRUPTS(t) ==
  /\ goto(t, "cpsid", "load")
  /\ primask' = IF privileged(t) THEN t ELSE primask
  /\ UNCHANGED <<criticalRegionCount, reg, depth, user>>

loadCount(t) ==
  /\ goto(t, "load", "store") \/ goto(t, "unload", "unstore")
  /\ reg' = [reg EXCEPT ![t] = criticalRegionCount]
  /\ UNCHANGED <<criticalRegionCount, primask, depth, user>>

increment(t) ==
  /\ goto(t, "store", "in")
  /\ criticalRegionCount' = reg[t] + 1
  /\ depth' = [depth EXCEPT ![t] = @ + 1]
  /\ UNCHANGED <<primask, reg, user>>

leave(t) == /\ goto(t, "in", "unload")
            /\ UNCHANGED <<criticalRegionCount, primask, reg, depth, user>>

decrement(t) ==
  /\ goto(t, "unstore", "untest")
  /\ criticalRegionCount' = reg[t] - 1
  /\ depth' = [depth EXCEPT ![t] = @ - 1]
  /\ UNCHANGED <<primask, reg, user>>

left(t) == IF depth[t] = 0 THEN "out" ELSE "in"

untestCountMutant(t) == /\ goto(t, "untest", left(t))
                        /\ UNCHANGED <<criticalRegionCount, primask, reg, depth, user>>
untestCount(t) ==
  /\ goto(t, "untest", IF criticalRegionCount = 0 THEN "cpsie" ELSE left(t))
  /\ UNCHANGED <<criticalRegionCount, primask, reg, depth, user>>

ENABLE_INTERRUPTS(t) ==
  /\ goto(t, "cpsie", left(t))
  /\ primask' = IF privileged(t) THEN NoThread ELSE primask
  /\ UNCHANGED <<criticalRegionCount, reg, depth, user>>

exiting(t)  == leave(t) \/ decrement(t) \/ untestCount(t) \/ ENABLE_INTERRUPTS(t)
entering(t) == testCount(t) \/ DISABLE_INTERRUPTS(t) \/ loadCount(t) \/ increment(t)

RegionNext == \E t \in Threads : begin(t) \/ nest(t) \/ entering(t) \/ exiting(t)

RegionSpec == RegionInit /\ [][RegionNext]_regionVars

-----------------------------------------------------------------------------
(* "Single threaded allocator" (kmalloc.c) and the other code in regions
   rely on it: no two threads are in a region at once. *)
RegionsExclude == Cardinality({t \in Threads : depth[t] > 0}) <= 1

(* Whenever no thread is in or between the steps of a region, the counter is
   back to 0 and interrupts are enabled: a drift would disable masking, or
   interrupts, for good. *)
CountReturnsToZero ==
  (\A t \in Threads : step[t] = "out") =>
    criticalRegionCount = 0 /\ primask = NoThread

(* What code in regions relies on, in system calls and in a process's own code:
   they exclude each other, and leave the machine as they found it
   (enterCriticalRegion, leaveCriticalRegion), as long as no other thread takes
   a step while one is in a region it entered without the privilege to mask
   interrupts. *)
RegionsHold == RegionTypeOK /\ (~ split => RegionsExclude /\ CountReturnsToZero)
=============================================================================
