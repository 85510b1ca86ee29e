------------------------------- MODULE Alarms -------------------------------
(***************************************************************************)
(* The millisecond timer's alarms: syssleep, writeTimer, the handlers of   *)
(* the two timers and the process table they reach through a pid.          *)
(*                                                                         *)
(* Sched has the races of one alarm with the scheduler; here there is time *)
(* and there are several lives of a pid.  A Proc is recycled at the tail   *)
(* of the free list and taken from its head.  The processes are commands,  *)
(* which mask no signal; what SigStop and SigContinue do to the shell that *)
(* waits for one is left to Sched.  SigAlarm may be pending for a while;   *)
(* the other signals are modelled where they are processed, which clears   *)
(* all that is pending.  The timer's list of alarms is a set: a handler    *)
(* goes through all of it, and posting a signal twice is as good as once.  *)
(***************************************************************************)
EXTENDS Integers, Sequences, SequencesExt

CONSTANTS Pids,        \* the Procs, in the order of the first free list
          Durations,   \* what processes sleep for
          MaxTime,     \* bound: milliseconds of a behaviour
          MaxLives     \* bound: processes started on one pid

AlarmsAssumption ==
  /\ Pids \in Seq(Nat) /\ IsInjective(Pids) /\ Durations \subseteq Nat
  /\ MaxTime \in Nat /\ MaxLives \in Nat

VARIABLES
  systime,
  alarms,        \* Timer.alarms
  procFreelist,  \* the pids of the free list, head first
  procState,     \* of each pid; "Dead" is not in procTable
  armed,         \* in syssleep, after the write to the timer and before it waits
  sigAlarm,      \* SigAlarm is in sigPending
  life, until,   \* how often a pid was started; when its last sleep is to end
  fault,         \* the machine stopped: a signal through a NULL procTable entry
  disturbed      \* history: the pids whose process was killed asleep, or woken by
                 \* SigContinue, with an alarm of theirs queued

procVars  == <<procFreelist, procState, armed, life, disturbed>>
alarmVars == <<systime, alarms, procVars, sigAlarm, until, fault>>

Pid == ToSet(Pids)

AlarmChain == [wakeTime : Nat, pid : Pid]

AlarmsInit ==
  /\ systime = 0 /\ alarms = {} /\ procFreelist = Pids /\ fault = FALSE
  /\ procState = [p \in Pid |-> "Dead"] /\ armed = [p \in Pid |-> FALSE]
  /\ sigAlarm = [p \in Pid |-> FALSE] /\ life = [p \in Pid |-> 0]
  /\ until = [p \in Pid |-> 0] /\ disturbed = {}

(* newProc() and schedProc(). *)
newProc ==
  /\ ~ fault /\ procFreelist # <<>>
  /\ LET p == Head(procFreelist) IN
       /\ life[p] < MaxLives
       /\ procState' = [procState EXCEPT ![p] = "Ready"]
       /\ life' = [life EXCEPT ![p] = @ + 1]
       /\ sigAlarm' = [sigAlarm EXCEPT ![p] = FALSE]
       /\ until' = [until EXCEPT ![p] = 0]
  /\ procFreelist' = Tail(procFreelist)
  /\ UNCHANGED <<systime, alarms, armed, fault, disturbed>>

(* It runs its own code: it is Ready, or runs, and not in syssleep(). *)
Awake(p)  == procState[p] = "Ready" /\ ~ armed[p]
HasAlarm(p) == \E a \in alarms : a.pid = p

wakeTime(d) == systime + d

(* syssleep(): the write queues the alarm under the caller's pid ... *)
writeTimer(p, d) ==
  /\ Awake(p) /\ systime + d <= MaxTime
  /\ alarms' = alarms \cup {[wakeTime |-> wakeTime(d), pid |-> p]}
  /\ armed' = [armed EXCEPT ![p] = TRUE]
  /\ until' = [until EXCEPT ![p] = systime + d]
  /\ UNCHANGED <<systime, procFreelist, procState, sigAlarm, life, fault, disturbed>>

(* ... and the process then waits; the slip forgets to. *)
syssleepMutant(p) ==
  /\ procState[p] = "Ready" /\ armed[p]
  /\ armed' = [armed EXCEPT ![p] = FALSE]
  /\ UNCHANGED <<systime, alarms, procFreelist, procState, sigAlarm, life, until, fault, disturbed>>
syssleep(p) ==
  /\ procState[p] = "Ready" /\ armed[p]
  /\ procState' = [procState EXCEPT ![p] = "Waiting"]
  /\ armed' = [armed EXCEPT ![p] = FALSE]
  /\ UNCHANGED <<systime, alarms, procFreelist, sigAlarm, life, until, fault, disturbed>>

(* processSignals() leaves p in the given state, with nothing pending. *)
signalled(p, to) ==
  /\ procState[p] # "Dead" /\ procState' = [procState EXCEPT ![p] = to]
  /\ sigAlarm' = [sigAlarm EXCEPT ![p] = FALSE]
  /\ UNCHANGED <<systime, alarms, procFreelist, armed, life, until, fault>>

(* SigAlarm: what waits, or is stopped, is Ready; for what is still about to
   wait the signal is spent. *)
processSigAlarm(p) == sigAlarm[p] /\ signalled(p, "Ready") /\ UNCHANGED disturbed

(* ctrl-Z. *)
processSigStop(p) == signalled(p, "Stopped") /\ UNCHANGED disturbed

(* fg, which asks nobody whether the process was stopped: one that waits for its
   alarm goes on without it. *)
processSigContinue(p) ==
  /\ signalled(p, "Ready")
  /\ disturbed' = IF HasAlarm(p) /\ ~ armed[p] THEN disturbed \cup {p} ELSE disturbed

(* The end of a process, up to its recycling: its alarms stay where they are. *)
recycleProc(p) ==
  /\ procState' = [procState EXCEPT ![p] = "Dead"]
  /\ armed' = [armed EXCEPT ![p] = FALSE]
  /\ sigAlarm' = [sigAlarm EXCEPT ![p] = FALSE]
  /\ procFreelist' = Append(procFreelist, p)
  /\ UNCHANGED <<systime, alarms, life, until, fault>>

exits(p) == Awake(p) /\ recycleProc(p) /\ UNCHANGED disturbed

(* ctrl-C. *)
processSigAbort(p) ==
  /\ procState[p] # "Dead" /\ recycleProc(p)
  /\ disturbed' = IF HasAlarm(p) THEN disturbed \cup {p} ELSE disturbed

(* toieHandler(): the other timer's interrupt, every millisecond. *)
toieHandler == /\ ~ fault /\ systime < MaxTime /\ systime' = systime + 1
               /\ UNCHANGED <<alarms, procVars, sigAlarm, until, fault>>

(* The test of one alarm; the slip would need the interrupt to come in time. *)
isDueMutant(a) == a.wakeTime = systime
isDue(a)       == a.wakeTime <= systime

(* pdbHandler(): every alarm that is due is posted, unlinked and freed. *)
pdbHandler ==
  LET fired == {a.pid : a \in {b \in alarms : isDue(b)}}
  IN /\ ~ fault /\ alarms' = {a \in alarms : ~ isDue(a)}
     /\ sigAlarm' = [p \in Pid |-> sigAlarm[p] \/ (p \in fired /\ procState[p] # "Dead")]
     /\ fault' = (\E p \in fired : procState[p] = "Dead")
     /\ UNCHANGED <<systime, procVars, until>>

process(p) == /\ ~ fault
              /\ \/ \E d \in Durations : writeTimer(p, d)
                 \/ syssleep(p)
                 \/ exits(p)
                 \/ processSigAlarm(p) \/ processSigStop(p) \/ processSigContinue(p)
                 \/ processSigAbort(p)

AlarmsNext == \/ newProc
        \/ \E p \in Pid : process(p)
        \/ toieHandler
        \/ pdbHandler

AlarmsSpec == AlarmsInit /\ [][AlarmsNext]_alarmVars

(***************************************************************************)
(* The timers interrupt as long as the machine runs: both are started by   *)
(* powerTimer, and each handler starts its timer again.                    *)
(***************************************************************************)
FairAlarms == AlarmsSpec /\ WF_alarmVars(toieHandler) /\ WF_alarmVars(pdbHandler)

-----------------------------------------------------------------------------
AlarmsTypeOK ==
  /\ systime \in 0..MaxTime /\ alarms \subseteq AlarmChain /\ fault \in BOOLEAN
  /\ procFreelist \in Seq(Pid) /\ IsInjective(procFreelist)
  /\ ToSet(procFreelist) = {p \in Pid : procState[p] = "Dead"}
  /\ procState \in [Pid -> {"Dead", "Ready", "Waiting", "Stopped"}]
  /\ armed \in [Pid -> BOOLEAN]
  /\ sigAlarm \in [Pid -> BOOLEAN] /\ life \in [Pid -> 0..MaxLives]
  /\ until \in [Pid -> 0..MaxTime] /\ disturbed \subseteq Pid

(* A process that sleeps runs on no earlier than it asked for, whoever sleeps
   beside it, is stopped or is recycled (toast's "2 second sleep"), unless its
   pid is that of a process that was killed asleep or woken by fg: nobody takes
   that one's alarm off the list, and it ends a later sleep. *)
SleepLasts == \A p \in Pid \ disturbed : Awake(p) => systime >= until[p]

(* pdbHandler finds the process of every alarm in procTable, unless its process
   was killed asleep, or woken by fg and then ended: no other process ends with
   an alarm queued (syspostsignal takes procTable[pid] as it is). *)
AlarmFindsProcess == fault => \E p \in disturbed : procState[p] = "Dead"

(* What sleepers rely on, stopped and restarted or not: they run on no earlier
   than they asked for, and the handler finds the process of every alarm, except
   for what a kill or an fg during a sleep does to the pid: its alarm may end a
   later sleep, or stop the machine (syssleep, syspostsignal). *)
AlarmsReachSleepers == AlarmsTypeOK /\ SleepLasts /\ AlarmFindsProcess

(* Every alarm is posted in the end, however late the handler runs and whatever
   is queued before it (pdbHandler's loop goes through the whole list), unless
   the machine stops before: one that is due does not stay queued. *)
AlarmsFire == []<>(fault \/ \A a \in alarms : a.wakeTime > systime)
=============================================================================
