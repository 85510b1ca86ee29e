------------------------------- MODULE Sched -------------------------------
(***************************************************************************)
(* The manos kernel's processes: the run queue, the free list, the process *)
(* table, signals, waitpid, exit, sleep and the scheduler, on the K70      *)
(* build.                                                                  *)
(*                                                                         *)
(* Grain.  A process runs in thread mode or in the SVC handler, the lowest *)
(* priority; the scheduler (SysTick and PendSV) preempts it anywhere       *)
(* outside a critical region; the UART and timer handlers preempt both.    *)
(* What runs in one critical region, or in a device handler, is one        *)
(* action; the scan of the run queue, a loop in one critical region, is a  *)
(* sequence of actions during which no other action is enabled (scan # 0). *)
(*                                                                         *)
(* A process is named by its pid: a Proc keeps the pid it was first given  *)
(* and is first taken from the free list in pid order (newProc).           *)
(*                                                                         *)
(* The lists waitQ/nextWaitQ are kept from both ends: waitQ[q] is what the *)
(* list head of q reaches, nextWaitQ[p] the list the node of p points      *)
(* into.  The code can make the two disagree; the first operation on a     *)
(* list that holds a stale node stops the model with fault "corrupt".      *)
(***************************************************************************)
EXTENDS Integers, Sequences, Functions

CONSTANTS
  MaxProc,    \* MANOS_MAXPROC, the number of Procs
  Sleepers,   \* the pids whose command may sleep (toast)
  Listers,    \* the pids whose command may be ps
  Resumers,   \* the pids whose command may be fg
  Keys,       \* the signals typed at the console: ctrl-C and ctrl-Z
  MaxAlarms   \* bound: alarms a process has outstanding

Pids  == 1..MaxProc
Shell == 1       \* the pid of torgo_main, which alone spawns and waits

ASSUME ConstantsAssumption ==
  /\ MaxProc \in Nat \ {0}
  /\ Sleepers \cup Listers \cup Resumers \subseteq Pids \ {Shell}
  /\ Keys \subseteq {"SigAbort", "SigStop"}
  /\ MaxAlarms \in Nat

NoProc  == 0     \* a NULL Proc*; also "linked nowhere" and "held by nobody"
BadProc == -1    \* &badProc

ProcStates  == {"Dead", "Spawning", "Ready", "Running", "Waiting", "Stopped"}
Signals     == {"SigAbort", "SigContinue", "SigStop", "SigAlarm"}
Descriptors == {"none", "open", "freed"}
Faults      == {"none", "null", "assert", "doublefree", "corrupt", "hang", "wild"}
SchedPhases == {"idle", "clear", "queue", "pick", "found"}

(***************************************************************************)
(* Where a process is in the code: a shell that starts; user code; in      *)
(* schedProc before and after the Proc is queued, holding runQLock; back   *)
(* in the shell with a child; in waitpid; in ps, holding runQLock; in      *)
(* syssleep before and after it goes to sleep; in fg, with a Proc* read    *)
(* from procTable and with a sigPending read from it; a command about to   *)
(* return; the steps of __manos_exit.                                      *)
(***************************************************************************)
ProcSteps == {"start", "user", "spawning", "queued", "spawned", "waiting", "listing",
              "armed", "asleep", "posting", "storing", "return", "exitFree", "exitDead", "exitYield", "gone"}

VARIABLES
  state,         \* Proc.state
  procRunQ,      \* the run queue, head first
  procFreelist,  \* the free list, head first
  procTable,     \* the pids whose procTable entry is not NULL
  rp,            \* the running process
  sigPending, sigMask, ppid,
  waitQ,         \* Proc.waitQ: the processes the list head reaches
  nextWaitQ,     \* Proc.nextWaitQ: the process whose waitQ the node is in
  descriptors,   \* Proc.descriptorTable: none, open, or freed but not cleared
  alarms,        \* the alarms of the millisecond timer, per pid
  runQLock,      \* the pid that holds runQLock
  pc, child,     \* where a process is, and the pid kexec returned to it, or the
                 \* Proc that fg has found
  loaded,        \* the sigPending that fg has read
  sched, scan,   \* where the scheduler is, and its place in the run queue
  pendsv,        \* PendSV is pending (YIELD)
  fault          \* why the machine has stopped

procVars == <<state, sigPending, sigMask, ppid, descriptors, pc, child, loaded>>
listVars == <<procRunQ, procFreelist, procTable, waitQ, nextWaitQ>>
cpuVars  == <<rp, alarms, runQLock, sched, scan, pendsv, fault>>
vars     == <<procVars, listVars, cpuVars>>

(* What each field may hold. *)
TypeOK ==
  /\ state \in [Pids -> ProcStates]
  /\ procRunQ \in Seq(Pids) /\ procFreelist \in Seq(Pids)
  /\ procTable \subseteq Pids
  /\ rp \in Pids \cup {NoProc, BadProc}
  /\ sigPending \in [Pids -> SUBSET Signals] /\ sigMask \in [Pids -> SUBSET Signals]
  /\ ppid \in [Pids -> Pids \cup {NoProc}]
  /\ waitQ \in [Pids -> SUBSET Pids]
  /\ nextWaitQ \in [Pids -> Pids \cup {NoProc}]
  /\ descriptors \in [Pids -> Descriptors]
  /\ alarms \in [Pids -> 0..MaxAlarms]
  /\ runQLock \in Pids \cup {NoProc}
  /\ pc \in [Pids -> ProcSteps]
  /\ child \in [Pids -> Pids \cup {NoProc}] /\ loaded \in [Pids -> SUBSET Signals]
  /\ sched \in SchedPhases
  /\ scan \in Nat
  /\ pendsv \in BOOLEAN
  /\ fault \in Faults
-----------------------------------------------------------------------------
(***************************************************************************)
(* Lists.                                                                  *)
(***************************************************************************)
listAddBeforeMutant(x, s) == <<x>> \o s      \* listAddAfter in its place

(* listAddBefore() the head of a queue: at its tail. *)
listAddBefore(x, s) == Append(s, x)

listUnlinkMutant(s, i) ==
  [j \in 1..(Len(s) - 1) |-> IF j <= i THEN s[j] ELSE s[j + 1]]

(* listUnlink() of the i-th node of a queue. *)
listUnlink(s, i) ==
  [j \in 1..(Len(s) - 1) |-> IF j < i THEN s[j] ELSE s[j + 1]]

(* A node the head of q's waitQ reaches points elsewhere: it was linked
   into a second list, or re-initialized while it was linked. *)
Stale(q) == \E p \in waitQ[q] : nextWaitQ[p] # q

(* The states and the nodes after wakeWaiting(p), which unlinks every
   waiter and makes it Ready, whatever it was. *)
wokenMutant(p, st) ==       \* the children, not the waiters
  [q \in Pids |-> IF ppid[q] = p THEN "Ready" ELSE st[q]]
woken(p, st)  == [q \in Pids |-> IF q \in waitQ[p] THEN "Ready" ELSE st[q]]
releasedMutant(p) == nextWaitQ     \* the waiters' nodes are not re-initialized
released(p)   == [q \in Pids |-> IF q \in waitQ[p] THEN NoProc ELSE nextWaitQ[q]]
-----------------------------------------------------------------------------
(***************************************************************************)
(* What processes do.  A process executes when it is rp and no exception   *)
(* is active or about to be taken.                                         *)
(***************************************************************************)
Runs(p) == fault = "none" /\ sched = "idle" /\ rp = p /\ ~pendsv

At(p, step) == Runs(p) /\ pc[p] = step
GoTo(p, step) == pc' = [pc EXCEPT ![p] = step]

(* torgo_main() starts by masking SigStop. *)
setSignalMask(p) ==
  /\ At(p, "start")
  /\ sigMask' = [sigMask EXCEPT ![p] = {"SigStop"}]
  /\ GoTo(p, "user")
  /\ UNCHANGED <<state, sigPending, ppid, descriptors, child, loaded, listVars, cpuVars>>

syslockMutant(p, step) ==   \* the lock is taken without testing it
  /\ runQLock' = p /\ GoTo(p, step)
  /\ UNCHANGED <<state, sigPending, sigMask, ppid, descriptors, child, loaded, listVars,
                 rp, alarms, sched, scan, pendsv, fault>>

(* syslock(&runQLock), spinning through YIELD while it is held; kexec takes
   it in schedProc, ps for as long as it prints. *)
syslock(p, step) ==
  /\ \/ runQLock = NoProc /\ runQLock' = p /\ GoTo(p, step) /\ UNCHANGED pendsv
     \/ runQLock # NoProc /\ pendsv' = TRUE /\ UNCHANGED <<runQLock, pc>>
  /\ UNCHANGED <<state, sigPending, sigMask, ppid, descriptors, child, loaded, listVars,
                 rp, alarms, sched, scan, fault>>

(* sysunlock(&runQLock). *)
sysunlock(p, step) ==
  /\ runQLock' = NoProc
  /\ GoTo(p, step)
  /\ UNCHANGED <<state, sigPending, sigMask, ppid, descriptors, child, loaded, listVars,
                 rp, alarms, sched, scan, pendsv, fault>>

sysexecv(p) == At(p, "user") /\ p = Shell /\ syslock(p, "spawning")

(* newProc(): c, the head of the free list, with rp as its parent. *)
newProc(c) ==
  /\ procFreelist' = Tail(procFreelist)
  /\ procTable' = procTable \cup {c}
  /\ waitQ' = [waitQ EXCEPT ![c] = {}]
  /\ nextWaitQ' = [nextWaitQ EXCEPT ![c] = NoProc]
  /\ ppid' = [ppid EXCEPT ![c] = rp]
  /\ sigPending' = [sigPending EXCEPT ![c] = {}]
  /\ sigMask' = [sigMask EXCEPT ![c] = {}]

(* The critical region of schedProc, with newProc: it never ends when the
   free list is empty, for interrupts are masked. *)
schedProc(p) ==
  /\ At(p, "spawning")
  /\ \/ /\ procFreelist = <<>>
        /\ fault' = "hang"
        /\ UNCHANGED <<procVars, listVars, rp, alarms, runQLock, sched, scan, pendsv>>
     \/ /\ procFreelist # <<>>
        /\ LET c == Head(procFreelist) IN
           /\ newProc(c)
           /\ procRunQ' = listAddBefore(c, procRunQ)
           /\ state' = [state EXCEPT ![c] = "Ready"]
           /\ descriptors' = [descriptors EXCEPT ![c] = "open"]
           /\ pc' = [pc EXCEPT ![c] = "user", ![p] = "queued"]
           /\ child' = [child EXCEPT ![c] = NoProc, ![p] = c]
           /\ loaded' = [loaded EXCEPT ![c] = {}]
        /\ UNCHANGED cpuVars

schedProcUnlock(p) == At(p, "queued") /\ sysunlock(p, "spawned")

(* cmdPs__Main() holds runQLock while it prints. *)
psLock(p)   == At(p, "user") /\ p \in Listers /\ syslock(p, "listing")
psUnlock(p) == At(p, "listing") /\ sysunlock(p, "return")

(* torgo_main() goes on without waiting for a command that ends in &. *)
background(p) ==
  /\ At(p, "spawned")
  /\ GoTo(p, "user")
  /\ child' = [child EXCEPT ![p] = NoProc]
  /\ UNCHANGED <<state, sigPending, sigMask, ppid, descriptors, loaded, listVars, cpuVars>>

(* syswaitpid() of the child kexec returned. *)
syswaitpid(p) ==
  LET c == child[p] IN
  /\ At(p, "spawned")
  /\ fault' = IF nextWaitQ[p] # NoProc THEN "assert"
              ELSE IF c \notin procTable THEN "null"
              ELSE IF Stale(c) THEN "corrupt" ELSE "none"
  /\ waitQ' = [waitQ EXCEPT ![c] = @ \cup {p}]
  /\ nextWaitQ' = [nextWaitQ EXCEPT ![p] = c]
  /\ state' = [state EXCEPT ![p] = "Waiting"]
  /\ pendsv' = TRUE
  /\ GoTo(p, "waiting")
  /\ child' = [child EXCEPT ![p] = NoProc]
  /\ UNCHANGED <<sigPending, sigMask, ppid, descriptors, loaded, procRunQ,
                 procFreelist, procTable, rp, alarms, runQLock, sched, scan>>

(* A process that is run again returns from syswaitpid or syssleep; one
   that is run again after _exits returns to a wild address. *)
resume(p) ==
  /\ \E step \in {"waiting", "asleep", "gone"} : At(p, step)
  /\ GoTo(p, IF pc[p] = "asleep" THEN "return" ELSE "user")
  /\ fault' = IF pc[p] = "gone" THEN "wild" ELSE "none"
  /\ UNCHANGED <<state, sigPending, sigMask, ppid, descriptors, child, loaded, listVars,
                 rp, alarms, runQLock, sched, scan, pendsv>>

(* syspostsignal() writes through the table entry unchecked. *)
syspostsignal(q, s) ==
  /\ fault' = IF q \in procTable THEN "none" ELSE "null"
  /\ sigPending' = [sigPending EXCEPT ![q] = @ \cup ({s} \ sigMask[q])]

(* cmdFg__Main() calls syspostsignal() in thread mode, whose processes run
   unprivileged: enterCriticalRegion() masks nothing there.  The process may
   be preempted between reading procTable, reading sigPending, ... *)
fg(p, q) ==
  /\ At(p, "user") /\ p \in Resumers
  /\ child' = [child EXCEPT ![p] = IF q \in procTable THEN q ELSE NoProc]
  /\ GoTo(p, "posting")
  /\ UNCHANGED <<state, sigPending, sigMask, ppid, descriptors, loaded, listVars, cpuVars>>

fgLoads(p) ==
  LET q == child[p] IN
  /\ At(p, "posting")
  /\ \/ q = NoProc /\ fault' = "null" /\ UNCHANGED <<pc, loaded>>
     \/ /\ q # NoProc
        /\ loaded' = [loaded EXCEPT ![p] = sigPending[q] \cup ({"SigContinue"} \ sigMask[q])]
        /\ GoTo(p, "storing")
        /\ UNCHANGED fault
  /\ UNCHANGED <<state, sigPending, sigMask, ppid, descriptors, child, listVars,
                 rp, alarms, runQLock, sched, scan, pendsv>>

(* ... and storing it, by when the Proc may be anybody's. *)
fgStores(p) ==
  /\ At(p, "storing")
  /\ sigPending' = [sigPending EXCEPT ![child[p]] = loaded[p]]
  /\ child' = [child EXCEPT ![p] = NoProc]
  /\ loaded' = [loaded EXCEPT ![p] = {}]
  /\ GoTo(p, "return")
  /\ UNCHANGED <<state, sigMask, ppid, descriptors, listVars, cpuVars>>

(* syssleep(): the write to the timer queues the alarm ... *)
writeTimer(p) ==
  /\ At(p, "user") /\ p \in Sleepers /\ alarms[p] < MaxAlarms
  /\ alarms' = [alarms EXCEPT ![p] = @ + 1]
  /\ GoTo(p, "armed")
  /\ UNCHANGED <<state, sigPending, sigMask, ppid, descriptors, child, loaded, listVars,
                 rp, runQLock, sched, scan, pendsv, fault>>

(* ... and only later the process goes to sleep. *)
syssleep(p) ==
  /\ At(p, "armed")
  /\ state' = [state EXCEPT ![p] = "Waiting"]
  /\ pendsv' = TRUE
  /\ GoTo(p, "asleep")
  /\ UNCHANGED <<sigPending, sigMask, ppid, descriptors, child, loaded, listVars,
                 rp, alarms, runQLock, sched, scan, fault>>
(***************************************************************************)
(* __manos_exit(), in thread mode: abortProc wakes the waiters, unlinks    *)
(* the process's own node and frees its descriptors; then it is Dead; then *)
(* the _exits system call yields.  No critical region holds these steps    *)
(* together: the process may be preempted, and signalled, between them.    *)
(***************************************************************************)
exitWake(p) ==
  /\ At(p, "user") \/ At(p, "return")
  /\ fault' = IF Stale(p) THEN "corrupt" ELSE "none"
  /\ state' = woken(p, state)
  /\ nextWaitQ' = released(p)
  /\ waitQ' = [waitQ EXCEPT ![p] = {}]
  /\ GoTo(p, "exitFree")
  /\ UNCHANGED <<sigPending, sigMask, ppid, descriptors, child, loaded, procRunQ,
                 procFreelist, procTable, rp, alarms, runQLock, sched, scan, pendsv>>

exitFree(p) ==
  LET q == nextWaitQ[p] IN
  /\ At(p, "exitFree")
  /\ waitQ' = IF q = NoProc THEN waitQ ELSE [waitQ EXCEPT ![q] = @ \ {p}]
  /\ nextWaitQ' = [nextWaitQ EXCEPT ![p] = NoProc]
  /\ descriptors' = [descriptors EXCEPT ![p] = "freed"]
  /\ fault' = IF q # NoProc /\ (Stale(q) \/ (p \notin waitQ[q] /\ waitQ[q] # {}))
                THEN "corrupt"
              ELSE IF descriptors[p] = "freed" THEN "doublefree" ELSE "none"
  /\ GoTo(p, "exitDead")
  /\ UNCHANGED <<state, sigPending, sigMask, ppid, child, loaded, procRunQ,
                 procFreelist, procTable, rp, alarms, runQLock, sched, scan, pendsv>>

exitDead(p) ==
  /\ At(p, "exitDead")
  /\ state' = [state EXCEPT ![p] = "Dead"]
  /\ GoTo(p, "exitYield")
  /\ UNCHANGED <<sigPending, sigMask, ppid, descriptors, child, loaded, listVars, cpuVars>>

_exits(p) ==
  /\ At(p, "exitYield")
  /\ pendsv' = TRUE
  /\ GoTo(p, "gone")
  /\ UNCHANGED <<state, sigPending, sigMask, ppid, descriptors, child, loaded, listVars,
                 rp, alarms, runQLock, sched, scan, fault>>
-----------------------------------------------------------------------------
(***************************************************************************)
(* Device interrupts, taken wherever interrupts are not masked.            *)
(***************************************************************************)
Unmasked == fault = "none" /\ scan = 0

(* k70UartInterrupt(): ctrl-C and ctrl-Z signal the running process. *)
k70UartInterrupt(s) ==
  /\ Unmasked /\ rp \in Pids
  /\ syspostsignal(rp, s)
  /\ UNCHANGED <<state, sigMask, ppid, descriptors, pc, child, loaded, listVars,
                 rp, alarms, runQLock, sched, scan, pendsv>>

pdbHandlerMutant(q) ==      \* the heap is not tested for being empty
  /\ Unmasked
  /\ syspostsignal(q, "SigAlarm")
  /\ alarms' = [alarms EXCEPT ![q] = @ - 1]
  /\ UNCHANGED <<state, sigMask, ppid, descriptors, pc, child, loaded, listVars,
                 rp, runQLock, sched, scan, pendsv>>

(* pdbHandler(): an alarm that is due signals the pid that set it.  Of several
   that are due at once each is an action of its own. *)
pdbHandler(q) ==
  /\ Unmasked /\ alarms[q] > 0
  /\ syspostsignal(q, "SigAlarm")
  /\ alarms' = [alarms EXCEPT ![q] = @ - 1]
  /\ UNCHANGED <<state, sigMask, ppid, descriptors, pc, child, loaded, listVars,
                 rp, runQLock, sched, scan, pendsv>>
-----------------------------------------------------------------------------
(***************************************************************************)
(* processSignals(p) but for its last assignment, which clears sigPending: *)
(* one signal is acted on, the others are dropped.  st is p's and the      *)
(* others' state when it is called.                                        *)
(***************************************************************************)
processSigAbortMutant(p, st) ==   \* the descriptors are not freed
  /\ "SigAbort" \in sigPending[p]
  /\ fault' = IF Stale(p) THEN "corrupt" ELSE "none"
  /\ state' = [woken(p, st) EXCEPT ![p] = "Dead"]
  /\ nextWaitQ' = released(p)
  /\ waitQ' = [waitQ EXCEPT ![p] = {}]
  /\ UNCHANGED descriptors

processSigAbort(p, st) ==
  /\ "SigAbort" \in sigPending[p]
  /\ fault' = IF Stale(p) THEN "corrupt"
              ELSE IF descriptors[p] = "freed" THEN "doublefree" ELSE "none"
  /\ state' = [woken(p, st) EXCEPT ![p] = "Dead"]
  /\ nextWaitQ' = released(p)
  /\ waitQ' = [waitQ EXCEPT ![p] = {}]
  /\ descriptors' = [descriptors EXCEPT ![p] = "freed"]

processSigStop(p, st) ==
  /\ "SigAbort" \notin sigPending[p] /\ "SigStop" \in sigPending[p]
  /\ fault' = IF Stale(p) THEN "corrupt" ELSE "none"
  /\ state' = [woken(p, st) EXCEPT ![p] = "Stopped"]
  /\ nextWaitQ' = released(p)
  /\ waitQ' = [waitQ EXCEPT ![p] = {}]
  /\ UNCHANGED descriptors

(* The parent, whatever it is doing, waits on the continued process.  Added a
   second time to the list it is first in, its node points at itself. *)
processSigContinue(p, st) ==
  LET parent == ppid[p] IN
  /\ sigPending[p] \cap {"SigAbort", "SigStop"} = {} /\ "SigContinue" \in sigPending[p]
  /\ fault' = IF parent \notin procTable THEN "null"
              ELSE IF Stale(p) THEN "corrupt" ELSE "none"
  /\ state' = [q \in Pids |-> IF q = parent THEN "Waiting"
                              ELSE IF q = p THEN "Ready" ELSE st[q]]
  /\ waitQ' = [waitQ EXCEPT ![p] = @ \cup ({parent} \cap Pids)]
  /\ nextWaitQ' = [q \in Pids |-> IF q # parent THEN nextWaitQ[q]
                                  ELSE IF q \in waitQ[p] THEN NoProc ELSE p]
  /\ UNCHANGED descriptors

processSigAlarm(p, st) ==
  /\ sigPending[p] = {"SigAlarm"}
  /\ state' = [st EXCEPT ![p] = "Ready"]
  /\ UNCHANGED <<waitQ, nextWaitQ, descriptors, fault>>

processNoSignal(p, st) ==
  /\ sigPending[p] = {}
  /\ state' = st
  /\ UNCHANGED <<waitQ, nextWaitQ, descriptors, fault>>

processSignals(p, st) ==
  \/ processSigAbort(p, st) \/ processSigStop(p, st) \/ processSigContinue(p, st)
  \/ processSigAlarm(p, st) \/ processNoSignal(p, st)
-----------------------------------------------------------------------------
(***************************************************************************)
(* The scheduler.  Outside nextRunnableProc it runs with interrupts on, so *)
(* a signal posted to rp between the tests of sigPending and the           *)
(* assignment that clears it is dropped.                                   *)
(***************************************************************************)
preemptedMutant == state     \* the preempted process stays Running
preempted == [state EXCEPT ![rp] = IF @ = "Running" THEN "Ready" ELSE @]

scheduleProc ==
  \/ /\ rp = NoProc
     /\ rp' = BadProc /\ sched' = "pick"
     /\ UNCHANGED <<state, descriptors, waitQ, nextWaitQ, fault>>
  \/ /\ rp \in Pids
     /\ processSignals(rp, preempted)
     /\ sched' = "clear"
     /\ UNCHANGED rp

(* schedHandler, by SysTick at the end of a quantum or by PendSV. *)
systickHandler ==
  /\ fault = "none" /\ sched = "idle" /\ ~pendsv
  /\ scheduleProc
  /\ UNCHANGED <<sigPending, sigMask, ppid, pc, child, loaded, procRunQ,
                 procFreelist, procTable, alarms, runQLock, scan, pendsv>>

pendsvHandler ==
  /\ fault = "none" /\ sched = "idle" /\ pendsv
  /\ scheduleProc
  /\ pendsv' = FALSE
  /\ UNCHANGED <<sigPending, sigMask, ppid, pc, child, loaded, procRunQ,
                 procFreelist, procTable, alarms, runQLock, scan>>

clearPending ==
  /\ fault = "none" /\ sched = "clear"
  /\ sigPending' = [sigPending EXCEPT ![rp] = {}]
  /\ sched' = "queue"
  /\ UNCHANGED <<state, sigMask, ppid, descriptors, pc, child, loaded, listVars,
                 rp, alarms, runQLock, scan, pendsv, fault>>

queueProc ==
  /\ fault = "none" /\ sched = "queue"
  /\ procRunQ' = listAddBefore(rp, procRunQ)
  /\ rp' = BadProc
  /\ sched' = "pick"
  /\ UNCHANGED <<procVars, procFreelist, procTable, waitQ, nextWaitQ,
                 alarms, runQLock, scan, pendsv, fault>>
(***************************************************************************)
(* nextRunnableProc(): the run queue is scanned from its head with         *)
(* interrupts masked; Dead processes are recycled, the others take their   *)
(* signals, and the first that is Ready is unlinked and run.  When none is *)
(* Ready it returns &badProc and scheduleProc calls it again.              *)
(***************************************************************************)
beginScan ==
  /\ fault = "none" /\ sched = "pick" /\ scan = 0
  /\ scan' = 1
  /\ UNCHANGED <<procVars, listVars, rp, alarms, runQLock, sched, pendsv, fault>>

Scanning(p) ==
  fault = "none" /\ sched = "pick" /\ scan \in DOMAIN procRunQ /\ p = procRunQ[scan]

freeProcMutant(p) ==        \* the table entry stays
  /\ procFreelist' = listAddBefore(p, procFreelist)
  /\ UNCHANGED procTable

(* The part of recycleProc() under freelistLock. *)
freeProc(p) ==
  /\ procFreelist' = listAddBefore(p, procFreelist)
  /\ procTable' = procTable \ {p}

(* recycleProc(), of a Proc that is unlinked from the run queue. *)
recycleProc(p) ==
  /\ procRunQ' = listUnlink(procRunQ, scan)
  /\ freeProc(p)
  /\ state' = [state EXCEPT ![p] = "Dead"]
  /\ descriptors' = [descriptors EXCEPT ![p] = "none"]
  /\ waitQ' = [waitQ EXCEPT ![p] = {}]
  /\ nextWaitQ' = [nextWaitQ EXCEPT ![p] = NoProc]
  /\ sigPending' = [sigPending EXCEPT ![p] = {}]
  /\ sigMask' = [sigMask EXCEPT ![p] = {}]
  /\ ppid' = [ppid EXCEPT ![p] = NoProc]
  /\ pc' = [pc EXCEPT ![p] = "gone"]
  /\ child' = [child EXCEPT ![p] = NoProc]
  /\ loaded' = [loaded EXCEPT ![p] = {}]

scanDeadMutant(p) ==        \* the Dead are passed over, not recycled
  /\ Scanning(p) /\ state[p] = "Dead"
  /\ scan' = scan + 1
  /\ UNCHANGED <<procVars, listVars, rp, alarms, runQLock, sched, pendsv, fault>>

scanDead(p) ==
  /\ Scanning(p) /\ state[p] = "Dead"
  /\ recycleProc(p)
  /\ UNCHANGED cpuVars

scanSignals(p) ==
  /\ Scanning(p) /\ state[p] # "Dead"
  /\ processSignals(p, state)
  /\ sigPending' = [sigPending EXCEPT ![p] = {}]
  /\ \/ state'[p] = "Ready" /\ sched' = "found" /\ UNCHANGED scan
     \/ state'[p] # "Ready" /\ scan' = scan + 1 /\ UNCHANGED sched
  /\ UNCHANGED <<sigMask, ppid, pc, child, loaded, procRunQ, procFreelist,
                 procTable, rp, alarms, runQLock, pendsv>>

runProc ==
  /\ fault = "none" /\ sched = "found"
  /\ rp' = procRunQ[scan]
  /\ procRunQ' = listUnlink(procRunQ, scan)
  /\ state' = [state EXCEPT ![rp'] = "Running"]
  /\ sched' = "idle" /\ scan' = 0
  /\ UNCHANGED <<sigPending, sigMask, ppid, descriptors, pc, child, loaded,
                 procFreelist, procTable, waitQ, nextWaitQ, alarms, runQLock, pendsv, fault>>

endScan ==
  /\ fault = "none" /\ sched = "pick" /\ scan > Len(procRunQ)
  /\ scan' = 0
  /\ UNCHANGED <<procVars, listVars, rp, alarms, runQLock, sched, pendsv, fault>>

(* An assertion, a fault or an endless loop with interrupts masked. *)
halted == fault # "none" /\ UNCHANGED vars
-----------------------------------------------------------------------------
(* main(): the Procs are on the free list, and torgo_main, the first shell,
   has been given the first pid by schedProc. *)
Init ==
  /\ state = [p \in Pids |-> IF p = 1 THEN "Ready" ELSE "Dead"]
  /\ procRunQ = <<1>>
  /\ procFreelist = [i \in 1..(MaxProc - 1) |-> i + 1]
  /\ procTable = {1}
  /\ rp = NoProc
  /\ sigPending = [p \in Pids |-> {}] /\ sigMask = [p \in Pids |-> {}]
  /\ ppid = [p \in Pids |-> NoProc]
  /\ waitQ = [p \in Pids |-> {}] /\ nextWaitQ = [p \in Pids |-> NoProc]
  /\ descriptors = [p \in Pids |-> IF p = 1 THEN "open" ELSE "none"]
  /\ alarms = [p \in Pids |-> 0]
  /\ runQLock = NoProc
  /\ pc = [p \in Pids |-> IF p = 1 THEN "start" ELSE "gone"]
  /\ child = [p \in Pids |-> NoProc] /\ loaded = [p \in Pids |-> {}]
  /\ sched = "idle" /\ scan = 0
  /\ pendsv = FALSE
  /\ fault = "none"

process(p) ==
  \/ setSignalMask(p) \/ sysexecv(p) \/ schedProc(p) \/ schedProcUnlock(p)
  \/ psLock(p) \/ psUnlock(p)
  \/ background(p) \/ syswaitpid(p) \/ resume(p)
  \/ fgLoads(p) \/ fgStores(p) \/ \E q \in Pids : fg(p, q)
  \/ writeTimer(p) \/ syssleep(p)
  \/ exitWake(p) \/ exitFree(p) \/ exitDead(p) \/ _exits(p)

interrupt ==
  \/ \E s \in Keys : k70UartInterrupt(s)
  \/ \E q \in Pids : pdbHandler(q)

scheduler ==
  \/ systickHandler \/ pendsvHandler \/ clearPending \/ queueProc
  \/ beginScan \/ runProc \/ endScan
  \/ \E p \in Pids : scanDead(p) \/ scanSignals(p)

Next == interrupt \/ scheduler \/ halted \/ \E p \in Pids : process(p)

Spec == Init /\ [][Next]_vars

(* SysTick keeps ticking, PendSV is taken once interrupts are on, and a
   handler that has been entered goes on; the timer keeps running, so that
   an alarm becomes due.  Nothing is assumed of the processes. *)
Fairness ==
  /\ WF_vars(scheduler)
  /\ \A q \in Pids : WF_vars(pdbHandler(q))

FairSpec == Spec /\ Fairness
-----------------------------------------------------------------------------
(* Every Proc is in one place: on the free list, on the run queue, or
   running; no list holds it twice.  (newProc, recycleProc, scheduleProc and
   nextRunnableProc move Procs between the lists in separate steps, with
   interrupts on and off.) *)
SlotsPartitioned ==
  /\ IsInjective(procRunQ) /\ IsInjective(procFreelist)
  /\ Range(procRunQ) \cap Range(procFreelist) = {}
  /\ rp \notin Range(procRunQ) \cup Range(procFreelist)
  /\ Pids \subseteq Range(procRunQ) \cup Range(procFreelist) \cup {rp}

(* procTable has an entry for a pid exactly when its Proc is off the free
   list: newProc() asserts that the entry it fills is NULL, and rp and the
   processes on the run queue can always be signalled. *)
TableMatchesFreelist == procTable = Pids \ Range(procFreelist)

(* At most one process is Running, and it is rp; code of a process executes
   only while it is Running, or in its last steps after it died. *)
OnlyRpRuns ==
  /\ \A p \in Pids : state[p] = "Running" => p = rp
  /\ \A p \in Pids : Runs(p) => state[p] = "Running" \/ pc[p] = "exitYield"

(* A Proc that is recycled has given up what it owned: its descriptors were
   freed before it died, and on the free list it has no descriptor or waiter
   left from its last life.  Nor has it a signal, unless one that fg, which is
   not excluded, stored after the Proc was recycled under it. *)
DeadOwnNothing ==
  fault = "none" => \A p \in Pids :
    /\ state[p] = "Dead" /\ p \in procTable => descriptors[p] = "freed"
    /\ p \notin procTable =>
         /\ descriptors[p] = "none" /\ waitQ[p] = {}
         /\ sigPending[p] # {} => "SigContinue" \in sigPending[p]

(* runQLock excludes: of the processes that are in schedProc or in ps, none
   but its holder is past syslock(), though the holder may be preempted,
   stopped or killed there and its Proc used again. *)
LockExcludes ==
  \A p \in Pids : pc[p] \in {"spawning", "queued", "listing"} => runQLock = p

(* syswaitpid() asserts that the running process's node is in no list.  It was
   put there by the last wait, or by a child that was continued, and taken out
   by whatever woke the shell: a stop, an exit or a kill of the child. *)
WaitpidAssertion == fault # "assert"

(* A process that is ready to run is run: the queue is served in order, and
   neither those that wait nor the ones that are preempted pass it for ever. *)
ReadyRuns ==
  \A p \in Pids :
    (state[p] = "Ready" /\ p \in Range(procRunQ))
      ~> (rp = p \/ state[p] # "Ready" \/ fault # "none")

(* A Proc that died goes back to the free list. *)
DeadRecycled ==
  \A p \in Pids :
    (state[p] = "Dead" /\ p \in Range(procRunQ))
      ~> (p \in Range(procFreelist) \/ state[p] # "Dead" \/ fault # "none")

(* A command stopped from the console stays stopped until it is signalled:
   neither the scan that passes it in the run queue nor an exit or a kill of
   another process, which make processes Ready, restarts it. *)
StoppedUntilSignalled ==
  [][\A p \in Pids \ {Shell} :
       state[p] = "Stopped" /\ state'[p] # "Stopped" => sigPending[p] # {}]_vars
-----------------------------------------------------------------------------
(* __kfree()'s assertion: what is freed is allocated. *)
KfreeAssertion == fault # "doublefree"

(* syslock()'s assertion text: "dead procs can't hold locks". *)
DeadHoldNoLock == runQLock # NoProc => state[runQLock] # "Dead"

(* The comment on nextRunnableProc(): it "does not return until a process is
   ready to run". *)
ScanFindsReady == [][scan # 0 /\ scan' = 0 => rp' \in Pids]_vars

(* sleep() comes to an end: toast.c sleeps for "2 second". *)
SleepEnds ==
  \A p \in Pids : pc[p] = "asleep" ~> (pc[p] # "asleep" \/ rp = p \/ fault # "none")
=============================================================================
