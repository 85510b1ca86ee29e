------------------------------ MODULE RunQueue ------------------------------
(***************************************************************************)
(* procRunQ as it is in memory, the scheduler that takes processes off it  *)
(* and puts them back, and ps, which walks it from a thread.  ps holds     *)
(* runQLock; the scheduler asks for it as &badProc, to which syslock()     *)
(* says yes, so that the lock keeps out kexec and nothing else.            *)
(*                                                                         *)
(* Signals and wait queues are in Sched: here a process may wait, be made  *)
(* Ready by others, and die.  The scan is in a critical region; ps may be  *)
(* preempted between any two of its steps.                                 *)
(***************************************************************************)
EXTENDS Integers, Sequences, List

CONSTANTS
  MaxProc,   \* the number of Procs
  Ps,        \* the pid that runs ps
  Waiters,   \* the pids that may wait
  Mortals    \* the pids that may die

Procs == 1..MaxProc
procRunQ == 0         \* the list head
Nodes == Procs \cup {procRunQ}
BadProc == -2         \* &badProc

ASSUME RunQueueAssumption ==
  MaxProc \in Nat /\ Ps \in Procs /\ Waiters \subseteq Procs /\ Mortals \subseteq Procs

VARIABLES
  links,     \* procRunQ and every Proc's nextRunQ
  state,     \* Proc.state; "Free" is a recycled Proc, whose pgrp is NULL
  rp,
  runQLock,  \* the pid that holds runQLock; procRunQ when nobody does
  pc,        \* where ps is: start, print, next, done
  cursor,    \* p in cmdPs__Main
  listed,    \* the Procs ps has printed
  due,       \* the Procs on the queue since ps began
  phase,     \* the scheduler: idle, pick (between scans), scan
  pos, save  \* the two cursors of nextRunnableProc

psVars   == <<runQLock, pc, cursor, listed, due>>
scanVars == <<phase, pos, save>>
vars     == <<links, state, rp, psVars, scanVars>>

States == {"Free", "Ready", "Running", "Waiting", "Dead"}

(* What each variable may hold. *)
TypeOK ==
  /\ links \in [next : [Nodes -> Nodes \cup {Null}], prev : [Nodes -> Nodes \cup {Null}]]
  /\ state \in [Procs -> States]
  /\ rp \in Procs \cup {BadProc}
  /\ runQLock \in {Ps, procRunQ}
  /\ pc \in {"start", "print", "next", "done"}
  /\ cursor \in Nodes \cup {Null}
  /\ listed \subseteq Procs /\ due \subseteq Procs
  /\ phase \in {"idle", "pick", "scan"}
  /\ pos \in Nodes \cup {Null} /\ save \in Nodes \cup {Null}

(* What following the pointers of f from the list head passes through, or
   <<procRunQ>>, which is no queue, when they do not lead back. *)
follow(f) ==
  LET at[i \in 0..(MaxProc + 1)] ==
        IF i = 0 THEN procRunQ ELSE IF at[i - 1] = Null THEN Null ELSE f[at[i - 1]]
      back == {i \in 1..(MaxProc + 1) : at[i] = procRunQ}
  IN  IF back = {} THEN <<procRunQ>>
      ELSE LET n == CHOOSE i \in back : \A j \in back : i <= j
           IN  [i \in 1..(n - 1) |-> at[i]]

Members(q) == {q[i] : i \in DOMAIN q}

OnQueue == Members(follow(links.next))
-----------------------------------------------------------------------------
Runs(p) == phase = "idle" /\ rp = p

(* cmdPs__Main(): lock, print rp, take the first entry. *)
psLock ==
  /\ Runs(Ps) /\ pc = "start"
  /\ runQLock' = Ps
  /\ listed' = {Ps} /\ due' = OnQueue
  /\ cursor' = LIST_FIRST_ENTRY_OR_NULL(links, procRunQ)
  /\ pc' = "print"
  /\ UNCHANGED <<links, state, rp, scanVars>>

(* printProc(p), which is a write to the console. *)
psPrint ==
  /\ Runs(Ps) /\ pc = "print" /\ cursor \notin {Null, procRunQ}
  /\ listed' = listed \cup {cursor}
  /\ pc' = "next"
  /\ UNCHANGED <<links, state, rp, runQLock, cursor, due, scanVars>>

psNext ==
  /\ Runs(Ps) /\ pc = "next"
  /\ cursor' = links.next[cursor]
  /\ pc' = "print"
  /\ UNCHANGED <<links, state, rp, runQLock, listed, due, scanVars>>

psUnlockMutant ==                 \* the list head does not end the walk
  /\ Runs(Ps) /\ pc = "print" /\ cursor = Null
  /\ runQLock' = procRunQ
  /\ pc' = "done"
  /\ UNCHANGED <<links, state, rp, cursor, listed, due, scanVars>>
psUnlock ==
  /\ Runs(Ps) /\ pc = "print" /\ cursor \in {Null, procRunQ}
  /\ runQLock' = procRunQ
  /\ pc' = "done"
  /\ UNCHANGED <<links, state, rp, cursor, listed, due, scanVars>>

(* schedProc() by another process, which waits for runQLock. *)
schedProc(p, q) ==
  /\ Runs(p) /\ p # Ps /\ runQLock = procRunQ
  /\ state[q] = "Free"
  /\ links' = listAddBefore(links, q, procRunQ)
  /\ state' = [state EXCEPT ![q] = "Ready"]
  /\ UNCHANGED <<rp, psVars, scanVars>>

(* A process makes another Ready, or an interrupt does. *)
wake(q) ==
  /\ phase # "scan" /\ state[q] = "Waiting" /\ rp # q
  /\ state' = [state EXCEPT ![q] = "Ready"]
  /\ UNCHANGED <<links, rp, psVars, scanVars>>

(* scheduleProc() up to its loop: rp was preempted, has put itself to wait
   or has died, and is queued as it is. *)
queueProcMutant(s) ==            \* only what can run is queued
  /\ rp \in Procs
  /\ state' = [state EXCEPT ![rp] = s]
  /\ links' = IF s # "Ready" THEN links ELSE listAddBefore(links, rp, procRunQ)
queueProc(s) ==
  /\ rp \in Procs
  /\ state' = [state EXCEPT ![rp] = s]
  /\ links' = listAddBefore(links, rp, procRunQ)

scheduleProc(s) ==
  /\ phase = "idle"
  /\ \/ s = "Ready"
     \/ s = "Waiting" /\ rp \in Waiters
     \/ s = "Dead" /\ rp \in Mortals
  /\ queueProc(s)
  /\ rp' = BadProc
  /\ phase' = "pick"
  /\ UNCHANGED <<psVars, pos, save>>

(* nextRunnableProc(): LIST_FOR_EACH_ENTRY_SAFE begins, goes on, ends. *)
beginScan ==
  /\ phase = "pick"
  /\ phase' = "scan"
  /\ pos' = LIST_FIRST_ENTRY_OR_NULL(links, procRunQ)
  /\ save' = LIST_NEXT_ENTRY_OR_NULL(links, pos', procRunQ)
  /\ UNCHANGED <<links, state, rp, psVars>>

advance(l) ==
  /\ pos' = save
  /\ save' = LIST_NEXT_ENTRY_OR_NULL(l, save, procRunQ)

recycledMutant(p) == links                  \* no listUnlink
recycled(p) == INIT_LIST_HEAD(listUnlink(links, p), p)

scanDead ==
  /\ phase = "scan" /\ pos \in Procs /\ state[pos] = "Dead"
  /\ links' = recycled(pos)
  /\ state' = [state EXCEPT ![pos] = "Free"]
  /\ advance(links')
  /\ UNCHANGED <<rp, psVars, phase>>

scanNotReady ==
  /\ phase = "scan" /\ pos \in Procs /\ state[pos] \notin {"Dead", "Ready"}
  /\ advance(links)
  /\ UNCHANGED <<links, state, rp, psVars, phase>>

scanReady ==
  /\ phase = "scan" /\ pos \in Procs /\ state[pos] = "Ready"
  /\ links' = listUnlinkAndInit(links, pos)
  /\ rp' = pos
  /\ state' = [state EXCEPT ![pos] = "Running"]
  /\ phase' = "idle" /\ pos' = Null /\ save' = Null
  /\ UNCHANGED psVars

endScan ==
  /\ phase = "scan" /\ pos \in {Null, procRunQ}
  /\ phase' = "pick" /\ pos' = Null /\ save' = Null
  /\ UNCHANGED <<links, state, rp, psVars>>

(* ps runs and every other process is queued, in the order of its pid. *)
Init ==
  /\ LET q == [i \in 1..(MaxProc - 1) |-> IF i < Ps THEN i ELSE i + 1]
         at(i) == IF i \in DOMAIN q THEN q[i] ELSE procRunQ
         place(p) == IF p = procRunQ THEN 0 ELSE CHOOSE i \in DOMAIN q : q[i] = p
     IN  links = [next |-> [n \in Nodes |-> IF n = Ps THEN n ELSE at(place(n) + 1)],
                  prev |-> [n \in Nodes |-> IF n = Ps THEN n
                                            ELSE IF n = procRunQ THEN at(Len(q)) ELSE at(place(n) - 1)]]
  /\ state = [p \in Procs |-> IF p = Ps THEN "Running" ELSE "Ready"]
  /\ rp = Ps /\ runQLock = procRunQ
  /\ pc = "start" /\ cursor = Null /\ listed = {} /\ due = {}
  /\ phase = "idle" /\ pos = Null /\ save = Null

ps == psLock \/ psPrint \/ psNext \/ psUnlock

scheduler ==
  \/ \E s \in {"Ready", "Waiting", "Dead"} : scheduleProc(s)
  \/ beginScan \/ scanDead \/ scanNotReady \/ scanReady \/ endScan

Next ==
  \/ ps \/ scheduler
  \/ \E p, q \in Procs : schedProc(p, q)
  \/ \E q \in Procs : wake(q)

Spec == Init /\ [][Next]_vars

(* Ps goes on when it has the processor and is preempted finitely often
   between two of its steps. *)
FairSpec == Spec /\ WF_vars(scheduler) /\ SF_vars(ps)
-----------------------------------------------------------------------------
(* The list is whole: the prev pointers lead through the same Procs as the
   next pointers, backwards, whatever was unlinked while it was walked
   (list.h; schedule.c:60-72). *)
LinksAgree ==
  LET q == follow(links.next) IN
  follow(links.prev) = [i \in DOMAIN q |-> q[Len(q) + 1 - i]]

(* The pointers implement the queue Sched takes procRunQ for: every step
   appends one Proc, takes one out, or leaves the others in their order
   (schedProc, scheduleProc, nextRunnableProc). *)
Queue == INSTANCE ProcQueue WITH queue <- follow(links.next)
ImplementsQueue == Queue!Spec

(* What is on the queue is everything alive but the running process: a scan
   with two cursors that unlinks and recycles as it goes skips nobody and
   leaves nobody behind. *)
QueueIsComplete ==
  OnQueue = {p \in Procs : state[p] \notin {"Free", "Running"}}

(* The run queue is whole in both directions and holds whom it should, through
   any interleaving of spawning, preemption, death and the scan (schedProc,
   scheduleProc, nextRunnableProc). *)
QueueIsSound == TypeOK /\ LinksAgree /\ QueueIsComplete

recycledUnderPs == cursor \in Procs /\ state[cursor] = "Free"

(* LIST_FOR_EACH_ENTRY() iterates over the entries of a list: what ps looks
   at when it runs is on the run queue, however often it was taken off and
   queued again behind ps's back, unless it was recycled (ps.c:38-40). *)
CursorOnQueue ==
  Runs(Ps) /\ pc \in {"print", "next"} =>
    cursor \in OnQueue \cup {Null, procRunQ} \/ recycledUnderPs

(* ps has listed every process that was there when it began. *)
ListsAll == pc = "done" => due \subseteq listed
=============================================================================
