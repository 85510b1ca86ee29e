---------------------------- MODULE SchedProofs ----------------------------
(***************************************************************************)
(* Proofs about the scheduler, for any number of Procs and any set of      *)
(* commands: types, that no Proc is lost or in two places or inherits from *)
(* its last life, and what the lock, a stop and waitpid rely on.           *)
(***************************************************************************)
EXTENDS Sched, TLAPS

(* listAddBefore() adds one Proc to a queue and keeps the others. *)
LEMMA AppendRange ==
  ASSUME NEW S, NEW s \in Seq(S), NEW x \in S
  PROVE  /\ listAddBefore(x, s) \in Seq(S)
         /\ Range(listAddBefore(x, s)) = Range(s) \cup {x}
         /\ IsInjective(s) /\ x \notin Range(s) => IsInjective(listAddBefore(x, s))
<1> DEFINE t == Append(s, x)
<1>1. /\ t \in Seq(S) /\ DOMAIN t = 1..(Len(s) + 1) /\ DOMAIN s = 1..Len(s) /\ Len(s) \in Nat
      /\ \A i \in 1..Len(s) : t[i] = s[i]
      /\ t[Len(s) + 1] = x
  OBVIOUS
<1>2. Range(t) = Range(s) \cup {x}
  BY <1>1 DEF Range
<1>3. IsInjective(s) /\ x \notin Range(s) => IsInjective(t)
  BY <1>1 DEF Range, IsInjective
<1> QED BY <1>1, <1>2, <1>3 DEF listAddBefore

(* Taking the head of the free list. *)
LEMMA TailRange ==
  ASSUME NEW S, NEW s \in Seq(S), s # <<>>
  PROVE  /\ Tail(s) \in Seq(S) /\ Head(s) \in S /\ Head(s) \in Range(s)
         /\ IsInjective(s) => IsInjective(Tail(s)) /\ Range(Tail(s)) = Range(s) \ {Head(s)}
<1> DEFINE t == Tail(s)
<1>1. /\ t \in Seq(S) /\ Len(s) \in Nat \ {0} /\ DOMAIN s = 1..Len(s)
      /\ DOMAIN t = 1..(Len(s) - 1)
      /\ \A i \in 1..(Len(s) - 1) : t[i] = s[i + 1]
      /\ Head(s) = s[1] /\ Head(s) \in S
  OBVIOUS
<1>2. Head(s) \in Range(s)
  BY <1>1 DEF Range
<1>3. IsInjective(s) => IsInjective(t)
  BY <1>1 DEF IsInjective
<1>4. ASSUME IsInjective(s) PROVE Range(t) = Range(s) \ {Head(s)}
  <2>1. ASSUME NEW y \in Range(t) PROVE y \in Range(s) /\ y # Head(s)
    <3>1. PICK i \in 1..(Len(s) - 1) : y = s[i + 1]
      BY <1>1, <2>1 DEF Range
    <3>2. i + 1 \in 1..Len(s) /\ i + 1 # 1 /\ 1 \in 1..Len(s)
      BY <1>1
    <3> QED BY <1>1, <1>4, <3>1, <3>2 DEF Range, IsInjective
  <2>2. ASSUME NEW y \in Range(s), y # Head(s) PROVE y \in Range(t)
    <3>1. PICK i \in 1..Len(s) : y = s[i]
      BY <1>1, <2>2 DEF Range
    <3>2. i - 1 \in 1..(Len(s) - 1) /\ (i - 1) + 1 = i
      BY <1>1, <2>2, <3>1
    <3> QED BY <1>1, <3>1, <3>2 DEF Range
  <2> QED BY <2>1, <2>2
<1> QED BY <1>1, <1>2, <1>3, <1>4

(* listUnlink() takes one node out and keeps the order of the others. *)
LEMMA UnlinkRange ==
  ASSUME NEW S, NEW s \in Seq(S), NEW i \in 1..Len(s)
  PROVE  /\ listUnlink(s, i) \in Seq(S) /\ s[i] \in S /\ s[i] \in Range(s)
         /\ IsInjective(s) => /\ IsInjective(listUnlink(s, i))
                              /\ Range(listUnlink(s, i)) = Range(s) \ {s[i]}
<1> DEFINE at(j) == IF j < i THEN j ELSE j + 1
<1>1. PICK n \in Nat \ {0} : n = Len(s)
  OBVIOUS
<1>2. PICK t : t = listUnlink(s, i)
  OBVIOUS
<1>3. /\ DOMAIN s = 1..n /\ DOMAIN t = 1..(n - 1) /\ i \in 1..n
      /\ \A j \in 1..(n - 1) : t[j] = s[at(j)] /\ at(j) \in 1..n /\ at(j) # i
      /\ \A j \in 1..n : s[j] \in S
  BY <1>1, <1>2 DEF listUnlink
<1>4. t \in Seq(S)
  <2>1. t = [j \in 1..(n - 1) |-> s[at(j)]]
    BY <1>1, <1>2, <1>3 DEF listUnlink
  <2>2. n - 1 \in Nat /\ \A j \in 1..(n - 1) : s[at(j)] \in S
    BY <1>3
  <2> QED BY <2>1, <2>2
<1>5. s[i] \in S /\ s[i] \in Range(s)
  BY <1>3 DEF Range
<1>6. ASSUME IsInjective(s) PROVE IsInjective(t)
  <2>1. \A j, k \in 1..(n - 1) : at(j) = at(k) => j = k
    BY <1>3
  <2> QED BY <1>3, <1>6, <2>1 DEF IsInjective
<1>7. ASSUME IsInjective(s) PROVE Range(t) = Range(s) \ {s[i]}
  <2>1. ASSUME NEW y \in Range(t) PROVE y \in Range(s) /\ y # s[i]
    <3>1. PICK j \in 1..(n - 1) : y = t[j]
      BY <1>3, <2>1 DEF Range
    <3> QED BY <1>3, <1>7, <3>1 DEF Range, IsInjective
  <2>2. ASSUME NEW y \in Range(s), y # s[i] PROVE y \in Range(t)
    <3>1. PICK k \in 1..n : y = s[k] /\ k # i
      BY <1>3, <2>2 DEF Range
    <3>2. PICK j \in 1..(n - 1) : at(j) = k
      <4>1. CASE k < i
        BY <1>3, <4>1
      <4>2. CASE k > i
        <5>1. k - 1 \in 1..(n - 1) /\ at(k - 1) = k
          BY <1>3, <4>2
        <5> QED BY <5>1
      <4> QED BY <1>3, <3>1, <4>1, <4>2
    <3> QED BY <1>3, <3>1, <3>2 DEF Range
  <2> QED BY <2>1, <2>2
<1> QED BY <1>2, <1>4, <1>5, <1>6, <1>7
-----------------------------------------------------------------------------
(* What the scheduler's phases mean for rp and for its place in the run
   queue; with it the types are inductive. *)
Phases ==
  /\ sched \in {"clear", "queue"} => rp \in Pids
  /\ sched \in {"pick", "found"} => rp = BadProc
  /\ sched = "found" => scan \in 1..Len(procRunQ)

TypeInv == TypeOK /\ Phases

(* main() leaves every field with its type. *)
LEMMA InitTypeInv == Init => TypeInv
<1> SUFFICES ASSUME Init PROVE TypeInv
  OBVIOUS
<1> USE ConstantsAssumption DEF Pids
<1>1. procFreelist \in Seq(Pids) /\ procRunQ \in Seq(Pids)
  <2>1. MaxProc - 1 \in Nat /\ \A i \in 1..(MaxProc - 1) : i + 1 \in Pids
    OBVIOUS
  <2>2. procFreelist \in Seq(Pids)
    BY <2>1 DEF Init
  <2>3. 1 \in Pids
    OBVIOUS
  <2> QED BY <2>2, <2>3 DEF Init
<1>2. TypeOK
  <2>1. /\ state \in [Pids -> ProcStates] /\ descriptors \in [Pids -> Descriptors]
        /\ pc \in [Pids -> ProcSteps]
    BY DEF Init, ProcStates, Descriptors, ProcSteps
  <2>2. /\ sigPending \in [Pids -> SUBSET Signals] /\ sigMask \in [Pids -> SUBSET Signals]
        /\ waitQ \in [Pids -> SUBSET Pids] /\ loaded \in [Pids -> SUBSET Signals]
    BY DEF Init
  <2>3. /\ ppid \in [Pids -> Pids \cup {NoProc}] /\ nextWaitQ \in [Pids -> Pids \cup {NoProc}]
        /\ child \in [Pids -> Pids \cup {NoProc}] /\ alarms \in [Pids -> 0..MaxAlarms]
    BY DEF Init, NoProc
  <2>4. /\ procTable \subseteq Pids /\ rp \in Pids \cup {NoProc, BadProc}
        /\ runQLock \in Pids \cup {NoProc} /\ sched \in SchedPhases
        /\ scan \in Nat /\ fault \in Faults
    BY DEF Init, NoProc, SchedPhases, Faults
  <2>5. pendsv \in BOOLEAN
    BY DEF Init
  <2> QED BY <1>1, <2>1, <2>2, <2>3, <2>4, <2>5 DEF TypeOK
<1>3. Phases
  BY DEF Init, Phases
<1> QED BY <1>2, <1>3 DEF TypeInv

(* processSignals() keeps the types of what it assigns. *)
LEMMA SignalsType ==
  ASSUME TypeOK, NEW p \in Pids, NEW st \in [Pids -> ProcStates], processSignals(p, st)
  PROVE  /\ state' \in [Pids -> ProcStates] /\ descriptors' \in [Pids -> Descriptors]
         /\ waitQ' \in [Pids -> SUBSET Pids] /\ nextWaitQ' \in [Pids -> Pids \cup {NoProc}]
         /\ fault' \in Faults
<1>1. woken(p, st) \in [Pids -> ProcStates]
  BY DEF woken, ProcStates
<1>2. released(p) \in [Pids -> Pids \cup {NoProc}]
  BY DEF released, TypeOK
<1>3. CASE processSigAbort(p, st)
  BY <1>1, <1>2, <1>3 DEF processSigAbort, TypeOK, ProcStates, Descriptors, Faults
<1>4. CASE processSigStop(p, st)
  BY <1>1, <1>2, <1>4 DEF processSigStop, TypeOK, ProcStates, Faults
<1>5. CASE processSigContinue(p, st)
  BY <1>5 DEF processSigContinue, TypeOK, ProcStates, Faults
<1>6. CASE processSigAlarm(p, st)
  BY <1>6 DEF processSigAlarm, TypeOK, ProcStates
<1>7. CASE processNoSignal(p, st)
  BY <1>7 DEF processNoSignal, TypeOK
<1> QED BY <1>3, <1>4, <1>5, <1>6, <1>7 DEF processSignals

(* Every step of a process keeps the types. *)
LEMMA ProcessTypeInv == ASSUME TypeInv, NEW p \in Pids, process(p) PROVE TypeInv'
<1> USE DEF TypeInv, TypeOK, Phases, procVars, listVars, cpuVars
<1>1. CASE setSignalMask(p)
  BY <1>1 DEF setSignalMask, GoTo, Signals, ProcSteps
<1>2. ASSUME NEW step \in ProcSteps, syslock(p, step) PROVE TypeInv'
  BY <1>2 DEF syslock, GoTo
<1>3. ASSUME NEW step \in ProcSteps, sysunlock(p, step) PROVE TypeInv'
  BY <1>3 DEF sysunlock, GoTo
<1>4. CASE sysexecv(p) \/ psLock(p) \/ schedProcUnlock(p) \/ psUnlock(p)
  BY <1>2, <1>3, <1>4 DEF sysexecv, psLock, schedProcUnlock, psUnlock, ProcSteps
<1>5. CASE schedProc(p)
  <2>1. CASE procFreelist = <<>>
    BY <1>5, <2>1 DEF schedProc, newProc, Faults
  <2>2. CASE procFreelist # <<>>
    <3>1. PICK c \in Pids : c = Head(procFreelist) /\ Tail(procFreelist) \in Seq(Pids)
      BY <2>2
    <3>2. listAddBefore(c, procRunQ) \in Seq(Pids)
      BY AppendRange
    <3>3. "user" \in ProcSteps
      BY DEF ProcSteps
    <3>4. state' \in [Pids -> ProcStates] /\ descriptors' \in [Pids -> Descriptors]
      BY <1>5, <2>2, <3>1 DEF schedProc, newProc, ProcStates, Descriptors
    <3>8. pc' \in [Pids -> ProcSteps]
      <4>1. [pc EXCEPT ![c] = "user"] \in [Pids -> ProcSteps] /\ "queued" \in ProcSteps
        BY <3>3 DEF ProcSteps
      <4>2. pc' = [[pc EXCEPT ![c] = "user"] EXCEPT ![p] = "queued"]
        BY <1>5, <2>2, <3>1 DEF schedProc, newProc
      <4> QED BY <4>1, <4>2
    <3>9. child' \in [Pids -> Pids \cup {NoProc}]
      <4>1. [child EXCEPT ![c] = NoProc] \in [Pids -> Pids \cup {NoProc}]
        OBVIOUS
      <4>2. child' = [[child EXCEPT ![c] = NoProc] EXCEPT ![p] = c]
        BY <1>5, <2>2, <3>1 DEF schedProc, newProc
      <4> QED BY <4>1, <4>2
    <3>5. /\ sigPending' \in [Pids -> SUBSET Signals] /\ sigMask' \in [Pids -> SUBSET Signals]
          /\ waitQ' \in [Pids -> SUBSET Pids] /\ loaded' \in [Pids -> SUBSET Signals]
      BY <1>5, <2>2, <3>1 DEF schedProc, newProc
    <3>6. /\ ppid' \in [Pids -> Pids \cup {NoProc}] /\ nextWaitQ' \in [Pids -> Pids \cup {NoProc}]
      <4>1. ppid' = [ppid EXCEPT ![c] = p] /\ nextWaitQ' = [nextWaitQ EXCEPT ![c] = NoProc]
        BY <1>5, <2>2, <3>1 DEF schedProc, newProc, At, Runs
      <4> QED BY <4>1
    <3>7. /\ procRunQ' \in Seq(Pids) /\ procFreelist' \in Seq(Pids) /\ procTable' \subseteq Pids
          /\ UNCHANGED cpuVars /\ sched = "idle"
      BY <1>5, <2>2, <3>1, <3>2 DEF schedProc, newProc, At, Runs
    <3> QED BY <3>4, <3>5, <3>6, <3>7, <3>8, <3>9
  <2> QED BY <2>1, <2>2
<1>6. CASE background(p)
  BY <1>6 DEF background, GoTo, ProcSteps, NoProc
<1>7. CASE syswaitpid(p)
  BY <1>7 DEF syswaitpid, GoTo, ProcSteps, ProcStates, Faults, NoProc
<1>8. CASE resume(p)
  BY <1>8 DEF resume, GoTo, ProcSteps, Faults
<1>9. ASSUME NEW q \in Pids, fg(p, q) PROVE TypeInv'
  BY <1>9 DEF fg, GoTo, ProcSteps
<1>16. CASE fgLoads(p)
  <2>1. CASE child[p] = NoProc
    BY <1>16, <2>1 DEF fgLoads, Faults
  <2>2. CASE child[p] # NoProc
    <3>1. child[p] \in Pids /\ {"SigContinue"} \subseteq Signals
      BY <2>2 DEF Signals
    <3>2. sigPending[child[p]] \cup ({"SigContinue"} \ sigMask[child[p]]) \in SUBSET Signals
      BY <3>1
    <3>3. PICK x \in SUBSET Signals : loaded' = [loaded EXCEPT ![p] = x]
      BY <1>16, <2>2, <3>2 DEF fgLoads
    <3>4. loaded' \in [Pids -> SUBSET Signals]
      BY <3>3
    <3>5. pc' \in [Pids -> ProcSteps] /\ fault' = fault
      BY <1>16, <2>2 DEF fgLoads, GoTo, ProcSteps
    <3> QED BY <1>16, <3>4, <3>5 DEF fgLoads
  <2> QED BY <2>1, <2>2
<1>17. CASE fgStores(p)
  BY <1>17 DEF fgStores, GoTo, ProcSteps, NoProc
<1>10. CASE writeTimer(p)
  BY <1>10, ConstantsAssumption DEF writeTimer, GoTo, ProcSteps
<1>11. CASE syssleep(p)
  BY <1>11 DEF syssleep, GoTo, ProcSteps, ProcStates
<1>12. CASE exitWake(p)
  BY <1>12 DEF exitWake, GoTo, ProcSteps, ProcStates, Faults, woken, released, NoProc
<1>13. CASE exitFree(p)
  BY <1>13 DEF exitFree, GoTo, ProcSteps, Descriptors, Faults, NoProc
<1>14. CASE exitDead(p)
  BY <1>14 DEF exitDead, GoTo, ProcSteps, ProcStates
<1>15. CASE _exits(p)
  BY <1>15 DEF _exits, GoTo, ProcSteps
<1> QED BY <1>1, <1>4, <1>5, <1>6, <1>7, <1>8, <1>9, <1>10, <1>11, <1>12, <1>13, <1>14, <1>15, <1>16, <1>17
        DEF process

(* So do the device interrupts ... *)
LEMMA InterruptTypeInv == ASSUME TypeInv, interrupt PROVE TypeInv'
<1> USE DEF TypeInv, TypeOK, Phases, listVars
<1>1. ASSUME NEW s \in Keys, k70UartInterrupt(s) PROVE TypeInv'
  BY <1>1, ConstantsAssumption DEF k70UartInterrupt, syspostsignal, Faults, Signals
<1>2. ASSUME NEW q \in Pids, pdbHandler(q) PROVE TypeInv'
  BY <1>2, ConstantsAssumption DEF pdbHandler, syspostsignal, Faults, Signals
<1> QED BY <1>1, <1>2 DEF interrupt

(* ... and the scheduler. *)
LEMMA SchedulerTypeInv == ASSUME TypeInv, scheduler PROVE TypeInv'
<1>1. CASE systickHandler \/ pendsvHandler
  <2>1. /\ scheduleProc
        /\ UNCHANGED <<sigPending, sigMask, ppid, pc, child, loaded, procRunQ,
                       procFreelist, procTable, alarms, runQLock, scan>>
        /\ pendsv' \in BOOLEAN
    BY <1>1 DEF systickHandler, pendsvHandler, TypeInv, TypeOK
  <2>2. CASE rp = NoProc
    BY <2>1, <2>2 DEF scheduleProc, TypeInv, TypeOK, Phases, SchedPhases, NoProc, BadProc, Pids
  <2>3. CASE rp \in Pids
    <3>1. preempted \in [Pids -> ProcStates]
      BY DEF preempted, TypeInv, TypeOK, ProcStates
    <3>2. processSignals(rp, preempted) /\ sched' = "clear" /\ UNCHANGED rp
      BY <2>1, <2>3 DEF scheduleProc, NoProc, Pids
    <3>3. /\ state' \in [Pids -> ProcStates] /\ descriptors' \in [Pids -> Descriptors]
          /\ waitQ' \in [Pids -> SUBSET Pids] /\ nextWaitQ' \in [Pids -> Pids \cup {NoProc}]
          /\ fault' \in Faults
      BY <2>3, <3>1, <3>2, SignalsType DEF TypeInv
    <3> QED BY <2>1, <2>3, <3>2, <3>3 DEF TypeInv, TypeOK, Phases, SchedPhases
  <2> QED BY <2>1, <2>2, <2>3 DEF scheduleProc
<1>2. CASE clearPending
  BY <1>2 DEF clearPending, TypeInv, TypeOK, Phases, SchedPhases, listVars
<1>3. CASE queueProc
  <2>1. listAddBefore(rp, procRunQ) \in Seq(Pids)
    BY <1>3, AppendRange DEF queueProc, TypeInv, TypeOK, Phases
  <2> QED BY <1>3, <2>1 DEF queueProc, TypeInv, TypeOK, Phases, SchedPhases, procVars, BadProc
<1>4. CASE beginScan \/ endScan
  BY <1>4 DEF beginScan, endScan, TypeInv, TypeOK, Phases, procVars, listVars
<1>5. CASE runProc
  <2>1. /\ listUnlink(procRunQ, scan) \in Seq(Pids) /\ procRunQ[scan] \in Pids
    BY <1>5, UnlinkRange DEF runProc, TypeInv, TypeOK, Phases
  <2> QED BY <1>5, <2>1 DEF runProc, TypeInv, TypeOK, Phases, SchedPhases, ProcStates
<1>6. ASSUME NEW p \in Pids, scanDead(p) PROVE TypeInv'
  <2>1. /\ listUnlink(procRunQ, scan) \in Seq(Pids) /\ listAddBefore(p, procFreelist) \in Seq(Pids)
    BY <1>6, UnlinkRange, AppendRange DEF scanDead, Scanning, TypeInv, TypeOK
  <2>2. sched = "pick"
    BY <1>6 DEF scanDead, Scanning
  <2> QED BY <1>6, <2>1, <2>2 DEF scanDead, recycleProc, freeProc, TypeInv, TypeOK, Phases, cpuVars,
               ProcStates, Descriptors, ProcSteps, NoProc
<1>7. ASSUME NEW p \in Pids, scanSignals(p) PROVE TypeInv'
  <2>1. /\ state' \in [Pids -> ProcStates] /\ descriptors' \in [Pids -> Descriptors]
        /\ waitQ' \in [Pids -> SUBSET Pids] /\ nextWaitQ' \in [Pids -> Pids \cup {NoProc}]
        /\ fault' \in Faults
    BY <1>7, SignalsType DEF scanSignals, TypeInv, TypeOK
  <2>2. scan \in 1..Len(procRunQ) /\ sched = "pick"
    BY <1>7 DEF scanSignals, Scanning, TypeInv, TypeOK
  <2>3. sched' \in SchedPhases /\ scan' \in Nat /\ Phases'
    BY <1>7, <2>2 DEF scanSignals, TypeInv, TypeOK, Phases, SchedPhases
  <2> QED BY <1>7, <2>1, <2>3 DEF scanSignals, TypeInv, TypeOK
<1> QED BY <1>1, <1>2, <1>3, <1>4, <1>5, <1>6, <1>7 DEF scheduler

(* So no step of the system changes a type. *)
LEMMA NextTypeInv == TypeInv /\ [Next]_vars => TypeInv'
<1> SUFFICES ASSUME TypeInv, [Next]_vars PROVE TypeInv'
  OBVIOUS
<1>1. CASE UNCHANGED vars
  BY <1>1 DEF vars, procVars, listVars, cpuVars, TypeInv, TypeOK, Phases
<1>2. CASE halted
  BY <1>1, <1>2 DEF halted
<1> QED BY <1>1, <1>2, ProcessTypeInv, InterruptTypeInv, SchedulerTypeInv DEF Next

(* For every number of Procs and every set of commands, every field keeps
   its type. *)
THEOREM TypeCorrect == Spec => []TypeOK
<1>1. TypeInv => TypeOK
  BY DEF TypeInv
<1> QED BY <1>1, InitTypeInv, NextTypeInv, PTL DEF Spec
-----------------------------------------------------------------------------
(* A Proc is in one place, and has a table entry when it is not free. *)
PlaceInv == TypeInv /\ SlotsPartitioned /\ TableMatchesFreelist

(* main() links every Proc once: the first shell is queued, the rest free. *)
LEMMA InitPlaceInv == Init => PlaceInv
<1> SUFFICES ASSUME Init PROVE PlaceInv
  OBVIOUS
<1> USE ConstantsAssumption DEF Pids
<1>1. /\ procRunQ = <<1>> /\ procFreelist = [i \in 1..(MaxProc - 1) |-> i + 1]
      /\ procTable = {1} /\ rp = 0
  BY DEF Init, NoProc
<1>2. Range(procRunQ) = {1} /\ IsInjective(procRunQ)
  BY <1>1 DEF Range, IsInjective
<1>3. Range(procFreelist) = 2..MaxProc /\ IsInjective(procFreelist)
  <2>1. DOMAIN procFreelist = 1..(MaxProc - 1) /\ \A i \in 1..(MaxProc - 1) : procFreelist[i] = i + 1
    BY <1>1
  <2>2. ASSUME NEW y \in 2..MaxProc PROVE y \in Range(procFreelist)
    <3>1. y - 1 \in 1..(MaxProc - 1) /\ procFreelist[y - 1] = y
      BY <2>1
    <3> QED BY <2>1, <3>1 DEF Range
  <2> QED BY <2>1, <2>2 DEF Range, IsInjective
<1>4. SlotsPartitioned
  BY <1>1, <1>2, <1>3 DEF SlotsPartitioned
<1>5. TableMatchesFreelist
  BY <1>1, <1>3 DEF TableMatchesFreelist
<1> QED BY <1>4, <1>5, InitTypeInv DEF PlaceInv

(* Only five actions move a Proc. *)
LEMMA NextPlaceInv == PlaceInv /\ [Next]_vars => PlaceInv'
<1> SUFFICES ASSUME PlaceInv, [Next]_vars PROVE PlaceInv'
  OBVIOUS
<1>1. /\ TypeInv /\ TypeInv' /\ SlotsPartitioned /\ TableMatchesFreelist
      /\ procRunQ \in Seq(Pids) /\ procFreelist \in Seq(Pids)
      /\ rp \in Pids \cup {NoProc, BadProc}
      /\ NoProc \notin Pids /\ BadProc \notin Pids
      /\ Range(procRunQ) \subseteq Pids /\ Range(procFreelist) \subseteq Pids
  <2>1. \A s \in Seq(Pids) : Range(s) \subseteq Pids
    BY DEF Range
  <2>2. TypeInv /\ TypeInv' /\ SlotsPartitioned /\ TableMatchesFreelist
    BY NextTypeInv DEF PlaceInv
  <2>3. NoProc \notin Pids /\ BadProc \notin Pids
    BY ConstantsAssumption DEF Pids, NoProc, BadProc
  <2> QED BY <2>1, <2>2, <2>3 DEF TypeInv, TypeOK
<1>2. ASSUME UNCHANGED <<procRunQ, procFreelist, procTable, rp>> PROVE PlaceInv'
  BY <1>1, <1>2 DEF PlaceInv, SlotsPartitioned, TableMatchesFreelist
<1>3. ASSUME NEW p \in Pids, schedProc(p) PROVE PlaceInv'
  <2>1. CASE procFreelist = <<>>
    BY <1>2, <1>3, <2>1 DEF schedProc, newProc, listVars
  <2>2. CASE procFreelist # <<>>
    <3>1. PICK c \in Pids : c = Head(procFreelist) /\ c \in Range(procFreelist)
      BY <1>1, <2>2, TailRange
    <3>2. /\ procFreelist' = Tail(procFreelist) /\ procRunQ' = listAddBefore(c, procRunQ)
          /\ procTable' = procTable \cup {c} /\ rp' = rp
      BY <1>3, <2>2, <3>1 DEF schedProc, newProc, cpuVars
    <3>3. IsInjective(procFreelist') /\ Range(procFreelist') = Range(procFreelist) \ {c}
      BY <1>1, <2>2, <3>1, <3>2, TailRange DEF SlotsPartitioned
    <3>4. IsInjective(procRunQ') /\ Range(procRunQ') = Range(procRunQ) \cup {c}
      <4>1. c \notin Range(procRunQ) /\ IsInjective(procRunQ)
        BY <1>1, <3>1 DEF SlotsPartitioned
      <4> QED BY <1>1, <3>2, <4>1, AppendRange
    <3> QED BY <1>1, <3>1, <3>2, <3>3, <3>4 DEF PlaceInv, SlotsPartitioned, TableMatchesFreelist
  <2> QED BY <2>1, <2>2
<1>4. ASSUME NEW p \in Pids, process(p), ~schedProc(p) PROVE PlaceInv'
  BY <1>2, <1>4
     DEF process, setSignalMask, sysexecv, schedProcUnlock, psLock, psUnlock, syslock, sysunlock,
         background, syswaitpid, resume, fg, fgLoads, fgStores, writeTimer, syssleep, exitWake, exitFree, exitDead,
         _exits, listVars, cpuVars
<1>5. CASE interrupt
  BY <1>2, <1>5 DEF interrupt, k70UartInterrupt, pdbHandler, listVars
<1>6. CASE systickHandler \/ pendsvHandler
  <2>1. UNCHANGED <<procRunQ, procFreelist, procTable>> /\ scheduleProc
    BY <1>6 DEF systickHandler, pendsvHandler
  <2>2. CASE rp' = rp
    BY <1>2, <2>1, <2>2
  <2>3. CASE rp = NoProc /\ rp' = BadProc
    BY <1>1, <2>1, <2>3 DEF PlaceInv, SlotsPartitioned, TableMatchesFreelist
  <2> QED BY <2>1, <2>2, <2>3 DEF scheduleProc
<1>7. CASE clearPending \/ beginScan \/ endScan
  BY <1>2, <1>7 DEF clearPending, beginScan, endScan, listVars
<1>8. CASE queueProc
  <2>1. /\ rp \in Pids /\ procRunQ' = listAddBefore(rp, procRunQ) /\ rp' = BadProc
        /\ UNCHANGED <<procFreelist, procTable>>
    BY <1>1, <1>8 DEF queueProc, TypeInv, Phases
  <2>2. rp \notin Range(procRunQ) /\ IsInjective(procRunQ)
    BY <1>1 DEF SlotsPartitioned
  <2>3. IsInjective(procRunQ') /\ Range(procRunQ') = Range(procRunQ) \cup {rp}
    BY <1>1, <2>1, <2>2, AppendRange
  <2> QED BY <1>1, <2>1, <2>3 DEF PlaceInv, SlotsPartitioned, TableMatchesFreelist
<1>9. CASE runProc
  <2>1. /\ scan \in 1..Len(procRunQ) /\ rp = BadProc
        /\ rp' = procRunQ[scan] /\ procRunQ' = listUnlink(procRunQ, scan)
        /\ UNCHANGED <<procFreelist, procTable>>
    BY <1>1, <1>9 DEF runProc, TypeInv, Phases
  <2>2. IsInjective(procRunQ)
    BY <1>1 DEF SlotsPartitioned
  <2>3. /\ IsInjective(procRunQ') /\ Range(procRunQ') = Range(procRunQ) \ {rp'}
        /\ rp' \in Range(procRunQ)
    BY <1>1, <2>1, <2>2, UnlinkRange
  <2> QED BY <1>1, <2>1, <2>3 DEF PlaceInv, SlotsPartitioned, TableMatchesFreelist
<1>10. ASSUME NEW p \in Pids, scanDead(p) PROVE PlaceInv'
  <2>1. /\ scan \in 1..Len(procRunQ) /\ p = procRunQ[scan]
        /\ procRunQ' = listUnlink(procRunQ, scan)
        /\ procFreelist' = listAddBefore(p, procFreelist)
        /\ procTable' = procTable \ {p} /\ rp' = rp
    BY <1>1, <1>10 DEF scanDead, Scanning, recycleProc, freeProc, cpuVars
  <2>2. IsInjective(procRunQ) /\ IsInjective(procFreelist)
    BY <1>1 DEF SlotsPartitioned
  <2>3. /\ IsInjective(procRunQ') /\ Range(procRunQ') = Range(procRunQ) \ {p}
        /\ p \in Range(procRunQ)
    BY <1>1, <2>1, <2>2, UnlinkRange
  <2>4. IsInjective(procFreelist') /\ Range(procFreelist') = Range(procFreelist) \cup {p}
    <3>1. p \notin Range(procFreelist)
      BY <1>1, <2>3 DEF SlotsPartitioned
    <3> QED BY <1>1, <2>1, <2>2, <3>1, AppendRange
  <2> QED BY <1>1, <2>1, <2>3, <2>4 DEF PlaceInv, SlotsPartitioned, TableMatchesFreelist
<1>11. ASSUME NEW p \in Pids, scanSignals(p) PROVE PlaceInv'
  BY <1>2, <1>11 DEF scanSignals
<1>12. CASE UNCHANGED vars
  BY <1>2, <1>12 DEF vars, listVars, cpuVars
<1> QED BY <1>3, <1>4, <1>5, <1>6, <1>7, <1>8, <1>9, <1>10, <1>11, <1>12
        DEF Next, scheduler, halted

(* For every number of Procs: however spawning, preemption, exit, kill and
   recycling interleave, no Proc is lost or linked twice. *)
THEOREM NoProcLost == Spec => []SlotsPartitioned
<1>1. PlaceInv => SlotsPartitioned
  BY DEF PlaceInv
<1> QED BY <1>1, InitPlaceInv, NextPlaceInv, PTL DEF Spec

(* For every number of Procs, newProc()'s assertion holds and the processes
   that run or are queued have their table entry. *)
THEOREM TableCorrect == Spec => []TableMatchesFreelist
<1>1. PlaceInv => TableMatchesFreelist
  BY DEF PlaceInv
<1> QED BY <1>1, InitPlaceInv, NextPlaceInv, PTL DEF Spec
-----------------------------------------------------------------------------
(* Only the holder of runQLock is in the code it guards. *)
LEMMA InitLock == Init => LockExcludes
  BY DEF Init, LockExcludes

(* Nobody gets past syslock() while another is in the code it guards. *)
LEMMA NextLock == TypeInv /\ LockExcludes /\ [Next]_vars => LockExcludes'
<1> SUFFICES ASSUME TypeInv, LockExcludes, [Next]_vars PROVE LockExcludes'
  OBVIOUS
<1>1. pc \in [Pids -> ProcSteps] /\ NoProc \notin Pids
  BY ConstantsAssumption DEF TypeInv, TypeOK, Pids, NoProc
<1>2. ASSUME UNCHANGED <<pc, runQLock>> PROVE LockExcludes'
  BY <1>2 DEF LockExcludes
<1>3. ASSUME NEW p \in Pids, NEW step, step \notin {"spawning", "queued", "listing"},
             GoTo(p, step), UNCHANGED runQLock
      PROVE  LockExcludes'
  BY <1>1, <1>3 DEF LockExcludes, GoTo
<1>4. ASSUME NEW p \in Pids, NEW step, syslock(p, step) PROVE LockExcludes'
  BY <1>1, <1>4 DEF LockExcludes, syslock, GoTo
<1>5. ASSUME NEW p \in Pids, schedProcUnlock(p) \/ psUnlock(p) PROVE LockExcludes'
  BY <1>1, <1>5 DEF LockExcludes, schedProcUnlock, psUnlock, sysunlock, At, GoTo
<1>6. ASSUME NEW p \in Pids, schedProc(p) PROVE LockExcludes'
  <2>1. CASE procFreelist = <<>>
    BY <1>2, <1>6, <2>1 DEF schedProc, newProc, procVars
  <2>2. CASE procFreelist # <<>>
    <3>1. PICK c \in Pids : c = Head(procFreelist)
      BY <2>2 DEF TypeInv, TypeOK
    <3>2. /\ pc' = [pc EXCEPT ![c] = "user", ![p] = "queued"] /\ UNCHANGED runQLock
          /\ pc[p] = "spawning"
      BY <1>6, <2>2, <3>1 DEF schedProc, newProc, At, cpuVars
    <3>3. \A q \in Pids : pc'[q] = IF q = p THEN "queued" ELSE IF q = c THEN "user" ELSE pc[q]
      BY <1>1, <3>2
    <3> QED BY <3>2, <3>3 DEF LockExcludes
  <2> QED BY <2>1, <2>2
<1>7. ASSUME NEW p \in Pids, process(p) PROVE LockExcludes'
  <2>1. CASE sysexecv(p) \/ psLock(p)
    BY <1>4, <2>1 DEF sysexecv, psLock
  <2>2. CASE setSignalMask(p) \/ background(p) \/ syswaitpid(p)
    BY <1>3, <2>2 DEF setSignalMask, background, syswaitpid, cpuVars
  <2>3. CASE resume(p)
    BY <1>3, <2>3 DEF resume
  <2>4. CASE (\E q \in Pids : fg(p, q)) \/ fgStores(p) \/ writeTimer(p) \/ syssleep(p)
    BY <1>3, <2>4 DEF fg, fgStores, writeTimer, syssleep, cpuVars
  <2>6. CASE fgLoads(p)
    BY <1>2, <1>3, <2>6 DEF fgLoads
  <2>5. CASE exitWake(p) \/ exitFree(p) \/ exitDead(p) \/ _exits(p)
    BY <1>3, <2>5 DEF exitWake, exitFree, exitDead, _exits, cpuVars
  <2> QED BY <1>5, <1>6, <1>7, <2>1, <2>2, <2>3, <2>4, <2>5, <2>6 DEF process
<1>8. CASE interrupt
  BY <1>2, <1>8 DEF interrupt, k70UartInterrupt, pdbHandler
<1>9. ASSUME NEW p \in Pids, scanDead(p) PROVE LockExcludes'
  BY <1>1, <1>9 DEF LockExcludes, scanDead, recycleProc, cpuVars
<1>10. CASE scheduler /\ UNCHANGED <<pc, runQLock>>
  BY <1>2, <1>10
<1>11. CASE scheduler
  BY <1>9, <1>10, <1>11 DEF scheduler, systickHandler, pendsvHandler, clearPending, queueProc,
                            beginScan, runProc, endScan, scanSignals, procVars
<1>12. CASE UNCHANGED vars
  BY <1>2, <1>12 DEF vars, procVars, cpuVars
<1> QED BY <1>7, <1>8, <1>11, <1>12 DEF Next, halted

(* For every number of Procs, shells and listers: the run queue is never
   touched by two holders of its lock, not even when one is killed and its
   Proc is used again. *)
THEOREM LockCorrect == Spec => []LockExcludes
  BY InitLock, NextLock, InitTypeInv, NextTypeInv, PTL DEF Spec
-----------------------------------------------------------------------------
(* The shell has not spawned itself, and is about to wait for another. *)
ChildInv == \A p \in Pids : pc[p] \in {"queued", "spawned"} => child[p] # p

(* main() has spawned nobody but the shell. *)
LEMMA InitChildInv == Init => ChildInv
  BY ConstantsAssumption DEF Init, ChildInv, Pids, NoProc

(* What is spawned comes from the free list, and its parent is off it. *)
LEMMA NextChildInv == PlaceInv /\ ChildInv /\ [Next]_vars => ChildInv'
<1> SUFFICES ASSUME PlaceInv, ChildInv, [Next]_vars PROVE ChildInv'
  OBVIOUS
<1>1. pc \in [Pids -> ProcSteps] /\ child \in [Pids -> Pids \cup {NoProc}] /\ NoProc \notin Pids
  BY ConstantsAssumption DEF PlaceInv, TypeInv, TypeOK, Pids, NoProc
<1>2. ASSUME UNCHANGED <<pc, child>> PROVE ChildInv'
  BY <1>2 DEF ChildInv
<1>3. ASSUME NEW p \in Pids, NEW step, step \notin {"queued", "spawned"}, GoTo(p, step),
             \A q \in Pids : q # p => child'[q] = child[q]
      PROVE  ChildInv'
  BY <1>1, <1>3 DEF ChildInv, GoTo
<1>4. ASSUME NEW p \in Pids, NEW step, step \notin {"queued", "spawned"}, syslock(p, step)
      PROVE  ChildInv'
  BY <1>2, <1>3, <1>4 DEF syslock
<1>5. ASSUME NEW p \in Pids, schedProc(p) PROVE ChildInv'
  <2>1. CASE procFreelist = <<>>
    BY <1>2, <1>5, <2>1 DEF schedProc, newProc, procVars
  <2>2. CASE procFreelist # <<>>
    <3>1. PICK c \in Pids : c = Head(procFreelist) /\ c # p
      <4>1. Head(procFreelist) \in Pids /\ Head(procFreelist) \in Range(procFreelist)
        BY <2>2, TailRange DEF PlaceInv, TypeInv, TypeOK
      <4>2. p = rp
        BY <1>5 DEF schedProc, At, Runs
      <4> QED BY <4>1, <4>2 DEF PlaceInv, SlotsPartitioned
    <3>2. /\ child' = [child EXCEPT ![c] = NoProc, ![p] = c]
          /\ pc' = [pc EXCEPT ![c] = "user", ![p] = "queued"]
      BY <1>5, <2>2, <3>1 DEF schedProc, newProc
    <3>3. \A q \in Pids :
            /\ child'[q] = IF q = p THEN c ELSE IF q = c THEN NoProc ELSE child[q]
            /\ pc'[q] = IF q = p THEN "queued" ELSE IF q = c THEN "user" ELSE pc[q]
      BY <1>1, <3>2
    <3> QED BY <3>1, <3>3 DEF ChildInv
  <2> QED BY <2>1, <2>2
<1>6. ASSUME NEW p \in Pids, process(p) PROVE ChildInv'
  <2>1. CASE sysexecv(p) \/ psLock(p)
    BY <1>4, <2>1 DEF sysexecv, psLock
  <2>2. CASE setSignalMask(p) \/ resume(p) \/ writeTimer(p) \/ syssleep(p)
    BY <1>3, <2>2 DEF setSignalMask, resume, writeTimer, syssleep
  <2>3. CASE background(p) \/ syswaitpid(p)
    BY <1>1, <1>3, <2>3 DEF background, syswaitpid
  <2>4. CASE (\E q \in Pids : fg(p, q)) \/ fgStores(p)
    BY <1>1, <1>3, <2>4 DEF fg, fgStores
  <2>5. CASE fgLoads(p)
    BY <1>2, <1>3, <2>5 DEF fgLoads
  <2>6. CASE exitWake(p) \/ exitFree(p) \/ exitDead(p) \/ _exits(p)
    BY <1>3, <2>6 DEF exitWake, exitFree, exitDead, _exits
  <2>7. CASE schedProcUnlock(p)
    BY <1>1, <2>7 DEF ChildInv, schedProcUnlock, sysunlock, At, GoTo
  <2>8. CASE psUnlock(p)
    BY <1>3, <2>8 DEF psUnlock, sysunlock
  <2> QED BY <1>5, <1>6, <2>1, <2>2, <2>3, <2>4, <2>5, <2>6, <2>7, <2>8 DEF process
<1>7. CASE interrupt
  BY <1>2, <1>7 DEF interrupt, k70UartInterrupt, pdbHandler
<1>8. ASSUME NEW p \in Pids, scanDead(p) PROVE ChildInv'
  BY <1>1, <1>8 DEF ChildInv, scanDead, recycleProc
<1>9. CASE scheduler
  BY <1>2, <1>8, <1>9 DEF scheduler, systickHandler, pendsvHandler, clearPending, queueProc,
                          beginScan, runProc, endScan, scanSignals, procVars
<1>10. CASE UNCHANGED vars
  BY <1>2, <1>10 DEF vars, procVars
<1> QED BY <1>6, <1>7, <1>9, <1>10 DEF Next, halted

(* While the scheduler is active nobody is Running; nobody waits on, or is
   the parent of, itself, so that no process wakes itself. *)
RunInv ==
  /\ OnlyRpRuns
  /\ sched # "idle" => \A p \in Pids : state[p] # "Running"
  /\ \A p \in Pids : p \notin waitQ[p] /\ ppid[p] # p

(* Nothing is Running when main() ends. *)
LEMMA InitRunInv == Init => RunInv
<1> SUFFICES ASSUME Init PROVE RunInv
  OBVIOUS
<1> QED BY ConstantsAssumption DEF Init, RunInv, OnlyRpRuns, Runs, NoProc, Pids

(* processSignals() makes nobody Running and nobody wait on itself. *)
LEMMA SignalsRunInv ==
  ASSUME TypeInv, RunInv, NEW p \in Pids, NEW st \in [Pids -> ProcStates],
         \A q \in Pids : st[q] # "Running", processSignals(p, st)
  PROVE  /\ \A q \in Pids : state'[q] # "Running"
         /\ \A q \in Pids : q \notin waitQ'[q]
<1>1. \A q \in Pids : woken(p, st)[q] # "Running"
  BY DEF woken
<1>2. woken(p, st) \in [Pids -> ProcStates] /\ waitQ \in [Pids -> SUBSET Pids]
  BY DEF woken, ProcStates, TypeInv, TypeOK
<1>3. CASE processSigAbort(p, st)
  BY <1>1, <1>2, <1>3 DEF processSigAbort, RunInv
<1>4. CASE processSigStop(p, st)
  BY <1>1, <1>2, <1>4 DEF processSigStop, RunInv
<1>5. CASE processSigContinue(p, st)
  BY <1>2, <1>5 DEF processSigContinue, RunInv
<1>6. CASE processSigAlarm(p, st) \/ processNoSignal(p, st)
  BY <1>2, <1>6 DEF processSigAlarm, processNoSignal, RunInv
<1> QED BY <1>3, <1>4, <1>5, <1>6 DEF processSignals

(* A process that runs stays Running, or is about to leave the processor. *)
LEMMA ProcessRunInv == ASSUME PlaceInv, ChildInv, RunInv, NEW p \in Pids, process(p) PROVE RunInv'
<1>1. /\ sched = "idle" /\ rp = p /\ fault = "none" /\ ~pendsv
      /\ UNCHANGED <<rp, sched>>
  BY DEF process, setSignalMask, sysexecv, schedProc, newProc, schedProcUnlock, psLock, psUnlock, syslock,
         sysunlock, background, syswaitpid, resume, fg, fgLoads, fgStores, writeTimer, syssleep, exitWake, exitFree,
         exitDead, _exits, At, Runs, cpuVars
<1>2. /\ state \in [Pids -> ProcStates] /\ waitQ \in [Pids -> SUBSET Pids]
      /\ child \in [Pids -> Pids \cup {NoProc}] /\ ppid \in [Pids -> Pids \cup {NoProc}]
      /\ pc \in [Pids -> ProcSteps] /\ NoProc \notin Pids
  BY ConstantsAssumption DEF PlaceInv, TypeInv, TypeOK, NoProc, Pids
<1>3. /\ \A q \in Pids : state[q] = "Running" => q = p
      /\ state[p] = "Running" \/ pc[p] = "exitYield"
      /\ \A q \in Pids : q \notin waitQ[q] /\ ppid[q] # q
  BY <1>1 DEF RunInv, OnlyRpRuns, Runs
<1>4. SUFFICES /\ \A q \in Pids : q # p => state'[q] # "Running"
               /\ state'[p] = "Running" \/ pc'[p] = "exitYield" \/ pendsv' \/ fault' # "none"
               /\ \A q \in Pids : q \notin waitQ'[q] /\ ppid'[q] # q
  BY <1>1 DEF RunInv, OnlyRpRuns, Runs
<1>5. CASE setSignalMask(p) \/ (\E q \in Pids : fg(p, q)) \/ writeTimer(p)
  BY <1>2, <1>3, <1>5 DEF setSignalMask, fg, writeTimer, At, listVars
<1>16. CASE fgLoads(p) \/ fgStores(p)
  BY <1>2, <1>3, <1>16 DEF fgLoads, fgStores, At, listVars
<1>6. ASSUME NEW step, syslock(p, step) \/ sysunlock(p, step), pc[p] # "exitYield"
      PROVE  RunInv'
  BY <1>1, <1>2, <1>3, <1>6 DEF syslock, sysunlock, listVars, RunInv, OnlyRpRuns, Runs
<1>7. CASE sysexecv(p) \/ psLock(p) \/ schedProcUnlock(p) \/ psUnlock(p)
  <2>1. RunInv'
    BY <1>6, <1>7 DEF sysexecv, psLock, schedProcUnlock, psUnlock, At
  <2> QED BY <1>1, <2>1 DEF RunInv, OnlyRpRuns, Runs
<1>8. CASE schedProc(p)
  <2>1. CASE procFreelist = <<>>
    BY <1>2, <1>3, <1>8, <2>1 DEF schedProc, newProc, listVars, procVars
  <2>2. CASE procFreelist # <<>>
    <3>1. PICK c \in Pids : c = Head(procFreelist) /\ c # p
      <4>1. Head(procFreelist) \in Pids /\ Head(procFreelist) \in Range(procFreelist)
        BY <2>2, TailRange DEF PlaceInv, TypeInv, TypeOK
      <4> QED BY <1>1, <4>1 DEF PlaceInv, SlotsPartitioned
    <3>2. /\ state' = [state EXCEPT ![c] = "Ready"] /\ waitQ' = [waitQ EXCEPT ![c] = {}]
          /\ ppid' = [ppid EXCEPT ![c] = p]
          /\ child' = [child EXCEPT ![c] = NoProc, ![p] = c] /\ pc[p] = "spawning"
      BY <1>8, <2>2, <3>1 DEF schedProc, newProc, At, Runs
    <3>3. \A q \in Pids : child'[q] = IF q = p THEN c ELSE IF q = c THEN NoProc ELSE child[q]
      BY <1>2, <3>2
    <3> QED BY <1>2, <1>3, <3>1, <3>2, <3>3
  <2> QED BY <2>1, <2>2
<1>9. CASE background(p)
  BY <1>2, <1>3, <1>9 DEF background, At, listVars
<1>10. CASE syswaitpid(p)
  <2>1. child[p] # p
    BY <1>10 DEF syswaitpid, At, ChildInv
  <2> QED BY <1>2, <1>3, <1>10, <2>1 DEF syswaitpid
<1>11. CASE resume(p)
  BY <1>2, <1>3, <1>11 DEF resume, At, listVars
<1>12. CASE syssleep(p) \/ _exits(p)
  BY <1>2, <1>3, <1>12 DEF syssleep, _exits, listVars
<1>13. CASE exitWake(p)
  BY <1>2, <1>3, <1>13 DEF exitWake, woken, At
<1>14. CASE exitFree(p)
  BY <1>2, <1>3, <1>14 DEF exitFree, At
<1>15. CASE exitDead(p)
  BY <1>2, <1>3, <1>15 DEF exitDead, GoTo, listVars
<1> QED BY <1>5, <1>7, <1>8, <1>9, <1>10, <1>11, <1>12, <1>13, <1>14, <1>15, <1>16 DEF process

(* Every step keeps rp the only process that is Running. *)
LEMMA NextRunInv == PlaceInv /\ ChildInv /\ RunInv /\ [Next]_vars => RunInv'
<1> SUFFICES ASSUME PlaceInv, ChildInv, RunInv, [Next]_vars PROVE RunInv'
  OBVIOUS
<1>1. /\ TypeInv /\ state \in [Pids -> ProcStates] /\ waitQ \in [Pids -> SUBSET Pids]
      /\ child \in [Pids -> Pids \cup {NoProc}] /\ ppid \in [Pids -> Pids \cup {NoProc}]
      /\ NoProc \notin Pids /\ BadProc \notin Pids
  <2>1. NoProc \notin Pids /\ BadProc \notin Pids
    BY ConstantsAssumption DEF NoProc, BadProc, Pids
  <2> QED BY <2>1 DEF PlaceInv, TypeInv, TypeOK
<1>2. CASE interrupt
  BY <1>2 DEF interrupt, k70UartInterrupt, pdbHandler, Unmasked, listVars, RunInv, OnlyRpRuns, Runs
<1>3. CASE systickHandler \/ pendsvHandler
  <2>1. scheduleProc /\ UNCHANGED <<ppid, child>>
    BY <1>3 DEF systickHandler, pendsvHandler
  <2>2. CASE rp = NoProc
    BY <1>1, <2>1, <2>2 DEF scheduleProc, RunInv, OnlyRpRuns, Runs
  <2>3. CASE rp \in Pids
    <3>1. preempted \in [Pids -> ProcStates] /\ \A q \in Pids : preempted[q] # "Running"
      BY <1>1, <2>3 DEF preempted, ProcStates, RunInv, OnlyRpRuns
    <3>2. processSignals(rp, preempted) /\ sched' = "clear"
      BY <1>1, <2>1, <2>3 DEF scheduleProc
    <3>3. /\ \A q \in Pids : state'[q] # "Running"
          /\ \A q \in Pids : q \notin waitQ'[q]
      BY <1>1, <2>3, <3>1, <3>2, SignalsRunInv
    <3> QED BY <2>1, <3>2, <3>3 DEF RunInv, OnlyRpRuns, Runs
  <2> QED BY <2>1, <2>2, <2>3 DEF scheduleProc
<1>4. CASE clearPending \/ queueProc \/ beginScan \/ endScan
  BY <1>4 DEF clearPending, queueProc, beginScan, endScan, procVars, listVars, RunInv, OnlyRpRuns, Runs
<1>5. CASE runProc
  <2>1. /\ rp' \in Pids /\ state' = [state EXCEPT ![rp'] = "Running"] /\ sched = "found"
        /\ UNCHANGED <<waitQ, child, ppid>> /\ sched' = "idle"
    BY <1>1, <1>5 DEF runProc, TypeInv, TypeOK, Phases
  <2> QED BY <1>1, <2>1 DEF RunInv, OnlyRpRuns, Runs
<1>6. ASSUME NEW p \in Pids, scanDead(p) PROVE RunInv'
  BY <1>1, <1>6 DEF scanDead, Scanning, recycleProc, cpuVars, RunInv, OnlyRpRuns, Runs
<1>7. ASSUME NEW p \in Pids, scanSignals(p) PROVE RunInv'
  <2>1. /\ processSignals(p, state) /\ sched = "pick" /\ sched' # "idle"
        /\ UNCHANGED <<ppid, child>>
    BY <1>7 DEF scanSignals, Scanning
  <2>2. /\ \A q \in Pids : state'[q] # "Running"
        /\ \A q \in Pids : q \notin waitQ'[q]
    BY <1>1, <2>1, SignalsRunInv DEF RunInv
  <2> QED BY <2>1, <2>2 DEF RunInv, OnlyRpRuns, Runs
<1>8. CASE UNCHANGED vars
  BY <1>8 DEF vars, procVars, listVars, cpuVars, RunInv, OnlyRpRuns, Runs
<1> QED BY <1>2, <1>3, <1>4, <1>5, <1>6, <1>7, <1>8, ProcessRunInv DEF Next, scheduler, halted

(* For every number of Procs, one process at most is Running, and code of a
   process executes only while it is Running or in its last step. *)
THEOREM OneRunning == Spec => []OnlyRpRuns
<1>1. RunInv => OnlyRpRuns
  BY DEF RunInv
<1> QED BY <1>1, InitPlaceInv, NextPlaceInv, InitChildInv, NextChildInv, InitRunInv, NextRunInv, PTL DEF Spec
-----------------------------------------------------------------------------
(* fg posts a SigContinue, whatever else it stores: no process masks it. *)
FgInv ==
  \A p \in Pids : /\ sigMask[p] \subseteq {"SigStop"}
                  /\ pc[p] = "storing" => "SigContinue" \in loaded[p]

(* main() masks nothing. *)
LEMMA InitFgInv == Init => FgInv
  BY ConstantsAssumption DEF Init, FgInv, Pids

(* Only the shell masks a signal, and only fg stores one it has read. *)
LEMMA NextFgInv == TypeInv /\ FgInv /\ [Next]_vars => FgInv'
<1> SUFFICES ASSUME TypeInv, FgInv, [Next]_vars PROVE FgInv'
  OBVIOUS
<1>1. /\ pc \in [Pids -> ProcSteps] /\ sigMask \in [Pids -> SUBSET Signals]
      /\ loaded \in [Pids -> SUBSET Signals] /\ child \in [Pids -> Pids \cup {NoProc}]
  BY DEF TypeInv, TypeOK
<1>2. ASSUME UNCHANGED <<pc, sigMask, loaded>> PROVE FgInv'
  BY <1>2 DEF FgInv
<1>3. ASSUME NEW p \in Pids, NEW step, step # "storing", GoTo(p, step), UNCHANGED sigMask,
             \A q \in Pids : q # p => loaded'[q] = loaded[q]
      PROVE  FgInv'
  BY <1>1, <1>3 DEF FgInv, GoTo
<1>4. ASSUME NEW p \in Pids, NEW step, step # "storing", syslock(p, step) PROVE FgInv'
  BY <1>2, <1>3, <1>4 DEF syslock
<1>5. ASSUME NEW p \in Pids, schedProc(p) PROVE FgInv'
  <2>1. CASE procFreelist = <<>>
    BY <1>2, <1>5, <2>1 DEF schedProc, newProc, procVars
  <2>2. CASE procFreelist # <<>>
    <3>1. PICK c \in Pids : c = Head(procFreelist)
      BY <2>2 DEF TypeInv, TypeOK
    <3>2. /\ pc' = [pc EXCEPT ![c] = "user", ![p] = "queued"]
          /\ sigMask' = [sigMask EXCEPT ![c] = {}] /\ loaded' = [loaded EXCEPT ![c] = {}]
      BY <1>5, <2>2, <3>1 DEF schedProc, newProc
    <3>3. \A q \in Pids : pc'[q] = IF q = p THEN "queued" ELSE IF q = c THEN "user" ELSE pc[q]
      BY <1>1, <3>2
    <3> QED BY <1>1, <3>2, <3>3 DEF FgInv
  <2> QED BY <2>1, <2>2
<1>6. ASSUME NEW p \in Pids, process(p) PROVE FgInv'
  <2>1. CASE sysexecv(p) \/ psLock(p)
    BY <1>4, <2>1 DEF sysexecv, psLock
  <2>2. CASE setSignalMask(p)
    BY <1>1, <2>2 DEF FgInv, setSignalMask, GoTo
  <2>3. CASE resume(p) \/ background(p) \/ syswaitpid(p) \/ writeTimer(p) \/ syssleep(p)
    BY <1>3, <2>3 DEF resume, background, syswaitpid, writeTimer, syssleep
  <2>4. CASE (\E q \in Pids : fg(p, q)) \/ fgStores(p)
    BY <1>1, <1>3, <2>4 DEF fg, fgStores
  <2>5. CASE fgLoads(p) /\ child[p] = NoProc
    BY <1>2, <2>5 DEF fgLoads
  <2>6. CASE fgLoads(p) /\ child[p] # NoProc
    <3>1. "SigContinue" \notin sigMask[child[p]]
      BY <1>1, <2>6 DEF FgInv
    <3> QED BY <1>1, <2>6, <3>1 DEF FgInv, fgLoads, GoTo
  <2>7. CASE exitWake(p) \/ exitFree(p) \/ exitDead(p) \/ _exits(p)
    BY <1>3, <2>7 DEF exitWake, exitFree, exitDead, _exits
  <2>8. CASE schedProcUnlock(p) \/ psUnlock(p)
    BY <1>3, <2>8 DEF schedProcUnlock, psUnlock, sysunlock
  <2> QED BY <1>5, <1>6, <2>1, <2>2, <2>3, <2>4, <2>5, <2>6, <2>7, <2>8 DEF process
<1>7. CASE interrupt
  BY <1>2, <1>7 DEF interrupt, k70UartInterrupt, pdbHandler
<1>8. ASSUME NEW p \in Pids, scanDead(p) PROVE FgInv'
  BY <1>1, <1>8 DEF FgInv, scanDead, recycleProc
<1>9. CASE scheduler
  BY <1>2, <1>8, <1>9 DEF scheduler, systickHandler, pendsvHandler, clearPending, queueProc,
                          beginScan, runProc, endScan, scanSignals, procVars
<1>10. CASE UNCHANGED vars
  BY <1>2, <1>10 DEF vars, procVars
<1> QED BY <1>6, <1>7, <1>9, <1>10 DEF Next, halted

(* What a free Proc carries. *)
Clean(p) ==
  /\ descriptors[p] = "none" /\ waitQ[p] = {}
  /\ sigPending[p] # {} => "SigContinue" \in sigPending[p]

(* A process is past abortProc() only with its descriptors freed. *)
OwnInv ==
  /\ DeadOwnNothing
  /\ fault = "none" => \A p \in Pids :
       pc[p] \in {"exitDead", "exitYield"} => descriptors[p] = "freed"

(* The Procs main() puts on the free list own nothing. *)
LEMMA InitOwnInv == Init => OwnInv
<1> SUFFICES ASSUME Init PROVE OwnInv
  OBVIOUS
<1> QED BY ConstantsAssumption DEF Init, OwnInv, DeadOwnNothing, Clean, Pids

(* processSignals() of a process that is not free: a process it kills has
   its descriptors freed. *)
LEMMA SignalsOwnInv ==
  ASSUME TypeInv, OwnInv, NEW p \in procTable, NEW st \in [Pids -> ProcStates], fault = "none",
         \A q \in Pids : st[q] = "Dead" <=> state[q] = "Dead", processSignals(p, st)
  PROVE  \A q \in Pids :
           /\ state'[q] = "Dead" => state[q] = "Dead" \/ descriptors'[q] = "freed"
           /\ descriptors'[q] = descriptors[q] \/ (q = p /\ descriptors'[q] = "freed")
           /\ q # p => waitQ'[q] = waitQ[q]
<1>1. /\ p \in Pids /\ waitQ \in [Pids -> SUBSET Pids] /\ descriptors \in [Pids -> Descriptors]
  BY DEF TypeInv, TypeOK
<1>2. /\ woken(p, st) \in [Pids -> ProcStates]
      /\ \A q \in Pids : woken(p, st)[q] = "Dead" => state[q] = "Dead"
  BY DEF woken, ProcStates
<1>3. CASE processSigAbort(p, st)
  BY <1>1, <1>2, <1>3 DEF processSigAbort
<1>4. CASE processSigStop(p, st)
  BY <1>1, <1>2, <1>4 DEF processSigStop
<1>5. CASE processSigContinue(p, st)
  BY <1>1, <1>5 DEF processSigContinue
<1>6. CASE processSigAlarm(p, st) \/ processNoSignal(p, st)
  BY <1>1, <1>6 DEF processSigAlarm, processNoSignal
<1> QED BY <1>3, <1>4, <1>5, <1>6 DEF processSignals

(* A process that exits frees its descriptors before it is Dead. *)
LEMMA ProcessOwnInv == ASSUME PlaceInv, FgInv, OwnInv, NEW p \in Pids, process(p) PROVE OwnInv'
<1> SUFFICES ASSUME fault' = "none" PROVE OwnInv'
  BY DEF OwnInv, DeadOwnNothing
<1> USE DEF Clean
<1>1. rp = p /\ fault = "none"
  BY DEF process, setSignalMask, sysexecv, schedProc, newProc, schedProcUnlock, psLock, psUnlock, syslock,
         sysunlock, background, syswaitpid, resume, fg, fgLoads, fgStores, writeTimer, syssleep, exitWake, exitFree,
         exitDead, _exits, At, Runs
<1>2. /\ state \in [Pids -> ProcStates] /\ waitQ \in [Pids -> SUBSET Pids]
      /\ descriptors \in [Pids -> Descriptors] /\ sigPending \in [Pids -> SUBSET Signals]
      /\ pc \in [Pids -> ProcSteps] /\ procTable \subseteq Pids
      /\ procFreelist \in Seq(Pids) /\ NoProc \notin Pids
  BY ConstantsAssumption DEF PlaceInv, TypeInv, TypeOK, NoProc, Pids
<1>3. p \in procTable
  BY <1>1 DEF PlaceInv, SlotsPartitioned, TableMatchesFreelist
<1>4. \A q \in Pids :
        /\ state[q] = "Dead" /\ q \in procTable => descriptors[q] = "freed"
        /\ q \notin procTable => Clean(q)
        /\ pc[q] \in {"exitDead", "exitYield"} => descriptors[q] = "freed"
  BY <1>1 DEF OwnInv, DeadOwnNothing
<1>5. SUFFICES \A q \in Pids :
        /\ state'[q] = "Dead" /\ q \in procTable' => descriptors'[q] = "freed"
        /\ q \notin procTable' => Clean(q)'
        /\ pc'[q] \in {"exitDead", "exitYield"} => descriptors'[q] = "freed"
  BY DEF OwnInv, DeadOwnNothing
<1>6. CASE setSignalMask(p) \/ background(p)
  BY <1>2, <1>4, <1>6 DEF setSignalMask, background, GoTo, listVars
<1>7. ASSUME NEW step \in {"spawning", "listing"}, syslock(p, step) PROVE OwnInv'
  BY <1>2, <1>4, <1>7 DEF syslock, GoTo, listVars, OwnInv, DeadOwnNothing
<1>8. ASSUME NEW step \in {"spawned", "return"}, sysunlock(p, step) PROVE OwnInv'
  BY <1>2, <1>4, <1>8 DEF sysunlock, GoTo, listVars, OwnInv, DeadOwnNothing
<1>9. CASE sysexecv(p) \/ psLock(p) \/ schedProcUnlock(p) \/ psUnlock(p)
  <2>1. OwnInv'
    BY <1>7, <1>8, <1>9 DEF sysexecv, psLock, schedProcUnlock, psUnlock
  <2> QED BY <2>1 DEF OwnInv, DeadOwnNothing
<1>10. CASE schedProc(p)
  <2>1. procFreelist # <<>>
    BY <1>10 DEF schedProc, newProc
  <2>2. PICK c \in Pids : c = Head(procFreelist)
    BY <1>2, <2>1
  <2>3. /\ state' = [state EXCEPT ![c] = "Ready"] /\ waitQ' = [waitQ EXCEPT ![c] = {}]
        /\ descriptors' = [descriptors EXCEPT ![c] = "open"]
        /\ sigPending' = [sigPending EXCEPT ![c] = {}]
        /\ procTable' = procTable \cup {c}
        /\ pc' = [pc EXCEPT ![c] = "user", ![p] = "queued"]
    BY <1>10, <2>1, <2>2 DEF schedProc, newProc
  <2>4. \A q \in Pids : pc'[q] = IF q = p THEN "queued" ELSE IF q = c THEN "user" ELSE pc[q]
    BY <1>2, <2>3
  <2> QED BY <1>2, <1>4, <2>3, <2>4
<1>11. CASE syswaitpid(p)
  <2>1. child[p] \in procTable /\ waitQ' = [waitQ EXCEPT ![child[p]] = @ \cup {p}]
    BY <1>11 DEF syswaitpid
  <2> QED BY <1>2, <1>3, <1>4, <1>11, <2>1 DEF syswaitpid, GoTo
<1>12. CASE resume(p)
  BY <1>2, <1>4, <1>12 DEF resume, GoTo, listVars
<1>13. CASE fgLoads(p)
  BY <1>2, <1>4, <1>13 DEF fgLoads, GoTo, listVars
<1>14. CASE writeTimer(p) \/ syssleep(p)
  BY <1>2, <1>3, <1>4, <1>14 DEF writeTimer, syssleep, GoTo, listVars
<1>15. CASE exitWake(p)
  BY <1>2, <1>3, <1>4, <1>15 DEF exitWake, woken, GoTo
<1>16. CASE exitFree(p)
  <2>1. \A q \in Pids : waitQ[q] = {} => waitQ'[q] = {}
    BY <1>2, <1>16 DEF exitFree
  <2> QED BY <1>2, <1>3, <1>4, <1>16, <2>1 DEF exitFree, GoTo
<1>17. CASE exitDead(p) \/ _exits(p)
  BY <1>2, <1>3, <1>4, <1>17 DEF exitDead, _exits, At, GoTo, listVars
<1>18. CASE \E q \in Pids : fg(p, q)
  BY <1>2, <1>4, <1>18 DEF fg, GoTo, listVars
<1>19. CASE fgStores(p)
  <2>1. "SigContinue" \in loaded[p]
    BY <1>19 DEF fgStores, At, FgInv
  <2>2. \A q \in Pids : sigPending'[q] = sigPending[q] \/ "SigContinue" \in sigPending'[q]
    BY <1>2, <1>19, <2>1 DEF fgStores
  <2>3. \A q \in Pids : Clean(q) => Clean(q)'
    BY <1>19, <2>2 DEF fgStores, listVars
  <2> QED BY <1>2, <1>4, <1>19, <2>3 DEF fgStores, GoTo, listVars
<1> QED BY <1>6, <1>9, <1>10, <1>11, <1>12, <1>13, <1>14, <1>15, <1>16, <1>17, <1>18, <1>19 DEF process

(* Every step keeps the dead and the free without possessions. *)
LEMMA NextOwnInv == PlaceInv /\ FgInv /\ OwnInv /\ [Next]_vars => OwnInv'
<1> SUFFICES ASSUME PlaceInv, FgInv, OwnInv, [Next]_vars, fault' = "none" PROVE OwnInv'
  BY DEF OwnInv, DeadOwnNothing
<1> USE DEF Clean
<1>1. /\ TypeInv
      /\ state \in [Pids -> ProcStates] /\ waitQ \in [Pids -> SUBSET Pids]
      /\ descriptors \in [Pids -> Descriptors] /\ sigPending \in [Pids -> SUBSET Signals]
      /\ pc \in [Pids -> ProcSteps] /\ procTable \subseteq Pids
      /\ Range(procRunQ) \subseteq procTable
      /\ rp \in Pids => rp \in procTable
  <2>1. Range(procRunQ) \subseteq Pids
    BY DEF PlaceInv, TypeInv, TypeOK, Range
  <2> QED BY <2>1 DEF PlaceInv, TypeInv, TypeOK, SlotsPartitioned, TableMatchesFreelist
<1>2. ASSUME fault = "none" PROVE \A q \in Pids :
        /\ state[q] = "Dead" /\ q \in procTable => descriptors[q] = "freed"
        /\ q \notin procTable => Clean(q)
        /\ pc[q] \in {"exitDead", "exitYield"} => descriptors[q] = "freed"
  BY <1>2 DEF OwnInv, DeadOwnNothing
<1>3. ASSUME \A q \in Pids :
        /\ state'[q] = "Dead" /\ q \in procTable' => descriptors'[q] = "freed"
        /\ q \notin procTable' => Clean(q)'
        /\ pc'[q] \in {"exitDead", "exitYield"} => descriptors'[q] = "freed"
      PROVE OwnInv'
  BY <1>3 DEF OwnInv, DeadOwnNothing
<1>4. ASSUME NEW s, NEW q \in procTable, syspostsignal(q, s), fault = "none",
             UNCHANGED <<state, descriptors, pc, procTable, waitQ>>
      PROVE  OwnInv'
  BY <1>1, <1>2, <1>3, <1>4 DEF syspostsignal
<1>5. CASE interrupt
  <2>1. ASSUME NEW s \in Keys, k70UartInterrupt(s) PROVE OwnInv'
    BY <1>1, <1>4, <2>1 DEF k70UartInterrupt, Unmasked, listVars
  <2>2. ASSUME NEW q \in Pids, pdbHandler(q) PROVE OwnInv'
    BY <1>4, <2>2 DEF pdbHandler, syspostsignal, Unmasked, listVars
  <2> QED BY <1>5, <2>1, <2>2 DEF interrupt
<1>6. ASSUME NEW p \in procTable, NEW st \in [Pids -> ProcStates], fault = "none",
             \A q \in Pids : st[q] = "Dead" <=> state[q] = "Dead", processSignals(p, st),
             UNCHANGED <<pc, procTable>>,
             \A q \in Pids : q # p => sigPending'[q] = sigPending[q]
      PROVE  OwnInv'
  <2>1. \A q \in Pids :
           /\ state'[q] = "Dead" => state[q] = "Dead" \/ descriptors'[q] = "freed"
           /\ descriptors'[q] = descriptors[q] \/ (q = p /\ descriptors'[q] = "freed")
           /\ q # p => waitQ'[q] = waitQ[q]
    BY <1>1, <1>6, SignalsOwnInv
  <2> QED BY <1>1, <1>2, <1>3, <1>6, <2>1
<1>7. CASE systickHandler \/ pendsvHandler
  <2>1. /\ scheduleProc /\ UNCHANGED <<sigPending, pc, procTable>> /\ fault = "none"
    BY <1>7 DEF systickHandler, pendsvHandler
  <2>2. CASE rp \in Pids /\ processSignals(rp, preempted)
    <3>1. /\ preempted \in [Pids -> ProcStates]
          /\ \A q \in Pids : preempted[q] = "Dead" <=> state[q] = "Dead"
      BY <1>1, <2>2 DEF preempted, ProcStates
    <3> QED BY <1>1, <1>6, <2>1, <2>2, <3>1
  <2>3. CASE UNCHANGED <<state, descriptors, waitQ>>
    BY <1>2, <1>3, <2>1, <2>3
  <2> QED BY <2>1, <2>2, <2>3 DEF scheduleProc
<1>8. CASE clearPending
  BY <1>1, <1>2, <1>3, <1>8 DEF clearPending, listVars
<1>9. CASE queueProc \/ beginScan \/ endScan
  BY <1>2, <1>3, <1>9 DEF queueProc, beginScan, endScan, procVars, listVars
<1>10. CASE runProc
  BY <1>1, <1>2, <1>3, <1>10 DEF runProc
<1>11. ASSUME NEW p \in Pids, scanDead(p) PROVE OwnInv'
  <2>1. fault = "none"
    BY <1>11 DEF scanDead, Scanning
  <2> QED BY <1>1, <1>2, <1>3, <1>11, <2>1 DEF scanDead, recycleProc, freeProc
<1>12. ASSUME NEW p \in Pids, scanSignals(p) PROVE OwnInv'
  <2>1. /\ fault = "none" /\ processSignals(p, state) /\ UNCHANGED <<pc, procTable>>
        /\ sigPending' = [sigPending EXCEPT ![p] = {}] /\ p \in Range(procRunQ)
    BY <1>12 DEF scanSignals, Scanning, Range
  <2> QED BY <1>1, <1>6, <2>1
<1>13. CASE UNCHANGED vars
  BY <1>13 DEF vars, procVars, listVars, cpuVars, OwnInv, DeadOwnNothing
<1> QED BY <1>5, <1>7, <1>8, <1>9, <1>10, <1>11, <1>12, <1>13, ProcessOwnInv
        DEF Next, scheduler, halted

(* For every number of Procs, a process dies only with its descriptors freed,
   and a free Proc carries nothing over into its next life, though fg, which
   posts its signal without excluding anybody, may store one into it. *)
THEOREM NothingInherited == Spec => []DeadOwnNothing
<1>1. OwnInv => DeadOwnNothing
  BY DEF OwnInv
<1>2. PlaceInv => TypeInv
  BY DEF PlaceInv
<1> QED BY <1>1, <1>2, InitPlaceInv, NextPlaceInv, InitFgInv, NextFgInv, InitOwnInv, NextOwnInv, PTL
        DEF Spec
-----------------------------------------------------------------------------
(* Only shells spawn, so that only shells are parents and only shells wait for
   a process; the free are not Stopped, and what the scan has found is Ready. *)
StopInv ==
  /\ sched = "found" => state[procRunQ[scan]] = "Ready"
  /\ \A p \in Pids :
       /\ p \notin procTable => state[p] # "Stopped"
       /\ waitQ[p] \subseteq {Shell} /\ ppid[p] \in {Shell, NoProc}
       /\ pc[p] \in {"spawning", "queued", "spawned"} => p = Shell

(* The first process is a shell, or spawns nothing. *)
LEMMA InitStopInv == Init => StopInv
<1> SUFFICES ASSUME Init PROVE StopInv
  OBVIOUS
<1> QED BY ConstantsAssumption DEF Init, StopInv, Pids, NoProc

(* processSignals() stops a process that is in the table, and lets nobody wait
   but the parent; it restarts a Stopped command only by a signal to it. *)
LEMMA SignalsStopInv ==
  ASSUME TypeInv, StopInv, NEW p \in procTable, NEW st \in [Pids -> ProcStates],
         \A q \in Pids : st[q] = "Stopped" <=> state[q] = "Stopped", processSignals(p, st)
  PROVE  \A q \in Pids :
           /\ q \notin procTable => state'[q] # "Stopped"
           /\ waitQ'[q] \subseteq {Shell}
           /\ q # Shell /\ state[q] = "Stopped" /\ state'[q] # "Stopped" => sigPending[q] # {}
<1>1. /\ p \in Pids /\ waitQ \in [Pids -> SUBSET Pids] /\ NoProc \notin Pids
  BY ConstantsAssumption DEF TypeInv, TypeOK, NoProc, Pids
<1>2. \A q \in Pids : /\ q \notin procTable => state[q] # "Stopped"
                      /\ waitQ[q] \subseteq {Shell} /\ ppid[q] \in {Shell, NoProc}
  BY DEF StopInv
<1>3. /\ woken(p, st) \in [Pids -> ProcStates]
      /\ \A q \in Pids : /\ woken(p, st)[q] = "Stopped" => state[q] = "Stopped"
                         /\ q # Shell => woken(p, st)[q] = st[q]
  BY <1>1, <1>2 DEF woken, ProcStates
<1>4. CASE processSigAbort(p, st)
  BY <1>1, <1>2, <1>3, <1>4 DEF processSigAbort
<1>5. CASE processSigStop(p, st)
  BY <1>1, <1>2, <1>3, <1>5 DEF processSigStop
<1>6. CASE processSigContinue(p, st)
  BY <1>1, <1>2, <1>6 DEF processSigContinue
<1>7. CASE processSigAlarm(p, st)
  BY <1>1, <1>2, <1>7 DEF processSigAlarm
<1>8. CASE processNoSignal(p, st)
  BY <1>1, <1>2, <1>8 DEF processNoSignal
<1> QED BY <1>4, <1>5, <1>6, <1>7, <1>8 DEF processSignals

(* What a step may do to a command that is Stopped. *)
StaysStopped ==
  \A p \in Pids \ {Shell} :
    state[p] = "Stopped" /\ state'[p] # "Stopped" => sigPending[p] # {}

(* A process that runs changes its own state, its child's, which was free, and
   those of its waiters, which are shells. *)
LEMMA ProcessStops ==
  ASSUME PlaceInv, RunInv, StopInv, NEW p \in Pids, process(p)
  PROVE  StopInv' /\ StaysStopped
<1>1. /\ sched = "idle" /\ rp = p /\ fault = "none" /\ ~pendsv /\ sched' = sched
  BY DEF process, setSignalMask, sysexecv, schedProc, newProc, schedProcUnlock, psLock, psUnlock, syslock,
         sysunlock, background, syswaitpid, resume, fg, fgLoads, fgStores, writeTimer, syssleep, exitWake, exitFree,
         exitDead, _exits, At, Runs, cpuVars
<1>2. /\ state \in [Pids -> ProcStates] /\ waitQ \in [Pids -> SUBSET Pids]
      /\ ppid \in [Pids -> Pids \cup {NoProc}] /\ pc \in [Pids -> ProcSteps]
      /\ procTable \subseteq Pids /\ procFreelist \in Seq(Pids) /\ NoProc \notin Pids
  BY ConstantsAssumption DEF PlaceInv, TypeInv, TypeOK, NoProc, Pids
<1>3. state[p] = "Running" \/ pc[p] = "exitYield"
  BY <1>1 DEF RunInv, OnlyRpRuns, Runs
<1>4. \A q \in Pids :
        /\ q \notin procTable => state[q] # "Stopped"
        /\ waitQ[q] \subseteq {Shell} /\ ppid[q] \in {Shell, NoProc}
        /\ pc[q] \in {"spawning", "queued", "spawned"} => q = Shell
  BY DEF StopInv
<1>5. SUFFICES \A q \in Pids :
        /\ q \notin procTable' => state'[q] # "Stopped"
        /\ waitQ'[q] \subseteq {Shell} /\ ppid'[q] \in {Shell, NoProc}
        /\ pc'[q] \in {"spawning", "queued", "spawned"} => q = Shell
        /\ q # Shell /\ state[q] = "Stopped" /\ state'[q] # "Stopped" => sigPending[q] # {}
  BY <1>1 DEF StopInv, StaysStopped
<1>6. CASE setSignalMask(p) \/ (\E q \in Pids : fg(p, q)) \/ writeTimer(p) \/ background(p)
  BY <1>2, <1>4, <1>6 DEF setSignalMask, fg, writeTimer, background, GoTo, listVars
<1>16. CASE fgLoads(p) \/ fgStores(p)
  BY <1>2, <1>4, <1>16 DEF fgLoads, fgStores, GoTo, listVars
<1>7. CASE sysexecv(p) \/ psLock(p)
  BY <1>2, <1>4, <1>7 DEF sysexecv, psLock, syslock, At, GoTo, listVars
<1>8. CASE schedProcUnlock(p) \/ psUnlock(p)
  BY <1>2, <1>4, <1>8 DEF schedProcUnlock, psUnlock, sysunlock, At, GoTo, listVars
<1>9. CASE schedProc(p)
  <2>1. CASE procFreelist = <<>>
    BY <1>2, <1>4, <1>9, <2>1 DEF schedProc, newProc, listVars, procVars
  <2>2. CASE procFreelist # <<>>
    <3>1. PICK c \in Pids : c = Head(procFreelist) /\ c # p /\ c \notin procTable
      <4>1. Head(procFreelist) \in Pids /\ Head(procFreelist) \in Range(procFreelist)
        BY <2>2, TailRange DEF PlaceInv, TypeInv, TypeOK
      <4> QED BY <1>1, <4>1 DEF PlaceInv, SlotsPartitioned, TableMatchesFreelist
    <3>2. /\ state' = [state EXCEPT ![c] = "Ready"] /\ waitQ' = [waitQ EXCEPT ![c] = {}]
          /\ ppid' = [ppid EXCEPT ![c] = p] /\ procTable' = procTable \cup {c}
          /\ pc' = [pc EXCEPT ![c] = "user", ![p] = "queued"] /\ pc[p] = "spawning"
      BY <1>9, <2>2, <3>1 DEF schedProc, newProc, At, Runs
    <3>3. \A q \in Pids : pc'[q] = IF q = p THEN "queued" ELSE IF q = c THEN "user" ELSE pc[q]
      BY <1>2, <3>2
    <3> QED BY <1>2, <1>4, <3>1, <3>2, <3>3
  <2> QED BY <2>1, <2>2
<1>10. CASE syswaitpid(p)
  <2>1. p = Shell
    BY <1>4, <1>10 DEF syswaitpid, At
  <2> QED BY <1>2, <1>4, <1>10, <2>1 DEF syswaitpid, GoTo
<1>11. CASE resume(p)
  BY <1>2, <1>4, <1>11 DEF resume, GoTo, listVars
<1>12. CASE syssleep(p) \/ _exits(p)
  BY <1>2, <1>3, <1>4, <1>12 DEF syssleep, _exits, At, GoTo, listVars
<1>13. CASE exitWake(p)
  BY <1>2, <1>4, <1>13 DEF exitWake, woken, GoTo
<1>14. CASE exitFree(p)
  BY <1>2, <1>4, <1>14 DEF exitFree, GoTo
<1>15. CASE exitDead(p)
  BY <1>2, <1>3, <1>4, <1>15 DEF exitDead, At, GoTo, listVars
<1> QED BY <1>6, <1>7, <1>8, <1>9, <1>10, <1>11, <1>12, <1>13, <1>14, <1>15, <1>16 DEF process

(* Every step keeps StopInv, and a Stopped command as it is. *)
LEMMA NextStops == PlaceInv /\ RunInv /\ StopInv /\ [Next]_vars => StopInv' /\ StaysStopped
<1> SUFFICES ASSUME PlaceInv, RunInv, StopInv, [Next]_vars PROVE StopInv' /\ StaysStopped
  OBVIOUS
<1>1. /\ TypeInv
      /\ state \in [Pids -> ProcStates] /\ waitQ \in [Pids -> SUBSET Pids]
      /\ pc \in [Pids -> ProcSteps] /\ procTable \subseteq Pids
      /\ ppid \in [Pids -> Pids \cup {NoProc}]
      /\ Range(procRunQ) \subseteq procTable
      /\ rp \in Pids => rp \in procTable
  <2>1. Range(procRunQ) \subseteq Pids
    BY DEF PlaceInv, TypeInv, TypeOK, Range
  <2> QED BY <2>1 DEF PlaceInv, TypeInv, TypeOK, SlotsPartitioned, TableMatchesFreelist
<1>2. ASSUME NEW p \in procTable, NEW st \in [Pids -> ProcStates],
             \A q \in Pids : st[q] = "Stopped" <=> state[q] = "Stopped", processSignals(p, st),
             UNCHANGED <<pc, ppid, procTable>>, sched' = "found" => state'[procRunQ'[scan']] = "Ready"
      PROVE  StopInv' /\ StaysStopped
  <2>1. \A q \in Pids :
           /\ q \notin procTable => state'[q] # "Stopped"
           /\ waitQ'[q] \subseteq {Shell}
           /\ q # Shell /\ state[q] = "Stopped" /\ state'[q] # "Stopped" => sigPending[q] # {}
    BY <1>1, <1>2, SignalsStopInv
  <2> QED BY <1>2, <2>1 DEF StopInv, StaysStopped
<1>3. CASE interrupt
  BY <1>3 DEF interrupt, k70UartInterrupt, pdbHandler, listVars, StopInv, StaysStopped
<1>4. CASE systickHandler \/ pendsvHandler
  <2>1. scheduleProc /\ UNCHANGED <<pc, ppid, procTable>>
    BY <1>4 DEF systickHandler, pendsvHandler
  <2>2. CASE rp \in Pids /\ processSignals(rp, preempted) /\ sched' = "clear"
    <3>1. /\ preempted \in [Pids -> ProcStates]
          /\ \A q \in Pids : preempted[q] = "Stopped" <=> state[q] = "Stopped"
      BY <1>1, <2>2 DEF preempted, ProcStates
    <3> QED BY <1>1, <1>2, <2>1, <2>2, <3>1
  <2>3. CASE UNCHANGED <<state, waitQ>> /\ sched' = "pick"
    BY <2>1, <2>3 DEF StopInv, StaysStopped
  <2> QED BY <2>1, <2>2, <2>3 DEF scheduleProc
<1>5. CASE clearPending \/ queueProc \/ beginScan \/ endScan
  BY <1>5 DEF clearPending, queueProc, beginScan, endScan, procVars, listVars, StopInv, StaysStopped
<1>6. CASE runProc
  <2>1. /\ rp' = procRunQ[scan] /\ rp' \in Pids /\ state[rp'] = "Ready"
        /\ state' = [state EXCEPT ![rp'] = "Running"] /\ sched' = "idle"
        /\ UNCHANGED <<waitQ, pc, ppid, procTable>>
    BY <1>1, <1>6 DEF runProc, TypeInv, TypeOK, Phases, StopInv
  <2> QED BY <1>1, <2>1 DEF StopInv, StaysStopped
<1>7. ASSUME NEW p \in Pids, scanDead(p) PROVE StopInv' /\ StaysStopped
  BY <1>1, <1>7 DEF scanDead, Scanning, recycleProc, freeProc, cpuVars, StopInv, StaysStopped
<1>8. ASSUME NEW p \in Pids, scanSignals(p) PROVE StopInv' /\ StaysStopped
  <2>1. /\ processSignals(p, state) /\ UNCHANGED <<pc, ppid, procTable, procRunQ>>
        /\ p \in Range(procRunQ) /\ p = procRunQ[scan] /\ sched = "pick"
    BY <1>8 DEF scanSignals, Scanning, Range
  <2>2. sched' = "found" => state'[procRunQ'[scan']] = "Ready"
    BY <1>8, <2>1 DEF scanSignals
  <2> QED BY <1>1, <1>2, <2>1, <2>2
<1>9. CASE UNCHANGED vars
  BY <1>9 DEF vars, procVars, listVars, cpuVars, StopInv, StaysStopped
<1> QED BY <1>3, <1>4, <1>5, <1>6, <1>7, <1>8, <1>9, ProcessStops DEF Next, scheduler, halted

(* For every number of Procs and whatever is typed: a command that was stopped
   is restarted by a signal to it and by nothing else, neither by the scan nor
   by the exits that make other processes Ready. *)
THEOREM StoppedStays == Spec => StoppedUntilSignalled
<1>1. PlaceInv /\ RunInv /\ StopInv /\ [Next]_vars
        => [\A p \in Pids \ {Shell} :
              state[p] = "Stopped" /\ state'[p] # "Stopped" => sigPending[p] # {}]_vars
  BY NextStops DEF StaysStopped
<1> QED
  BY <1>1, InitPlaceInv, NextPlaceInv, InitChildInv, NextChildInv, InitRunInv, NextRunInv, InitStopInv, NextStops, PTL
  DEF Spec, StoppedUntilSignalled
-----------------------------------------------------------------------------
(* Nobody but the shell has its node in a list, the shell is never sent an
   alarm, and while its node is in a list it is not ready to run. *)
WaitInv ==
  /\ WaitpidAssertion
  /\ \A p \in Pids \ {Shell} : nextWaitQ[p] = NoProc
  /\ alarms[Shell] = 0 /\ "SigAlarm" \notin sigPending[Shell]
  /\ \A p \in Pids : pc[p] = "storing" /\ child[p] = Shell => "SigAlarm" \notin loaded[p]
  /\ fault = "none" /\ nextWaitQ[Shell] # NoProc => state[Shell] \in {"Waiting", "Stopped", "Dead"}

(* In main() nobody waits. *)
LEMMA InitWaitInv == Init => WaitInv
  BY ConstantsAssumption DEF Init, WaitInv, WaitpidAssertion, Pids, Shell, NoProc

(* processSignals() makes the shell Ready only with its node taken out. *)
LEMMA SignalsWaitInv ==
  ASSUME TypeInv, RunInv, StopInv, WaitInv, NEW p \in Pids, NEW st \in [Pids -> ProcStates],
         fault = "none", processSignals(p, st),
         nextWaitQ[Shell] # NoProc => st[Shell] = state[Shell]
  PROVE  /\ \A q \in Pids \ {Shell} : nextWaitQ'[q] = NoProc
         /\ fault' # "assert"
         /\ fault' = "none" /\ nextWaitQ'[Shell] # NoProc
              => state'[Shell] \in {"Waiting", "Stopped", "Dead"}
<1>1. /\ nextWaitQ \in [Pids -> Pids \cup {NoProc}] /\ Shell \in Pids /\ NoProc \notin Pids
      /\ procTable \subseteq Pids /\ ppid[p] \in {Shell, NoProc} /\ ppid[p] # p
  BY ConstantsAssumption DEF TypeInv, TypeOK, Shell, Pids, NoProc, StopInv, RunInv
<1>2. /\ \A q \in Pids \ {Shell} : nextWaitQ[q] = NoProc
      /\ nextWaitQ[Shell] # NoProc => st[Shell] \in {"Waiting", "Stopped", "Dead"}
      /\ "SigAlarm" \notin sigPending[Shell]
  BY DEF WaitInv
<1>3. /\ \A q \in Pids \ {Shell} : released(p)[q] = NoProc
      /\ released(p)[Shell] # NoProc => woken(p, st)[Shell] \in {"Waiting", "Stopped", "Dead"}
      /\ woken(p, st) \in [Pids -> ProcStates]
  BY <1>1, <1>2 DEF released, woken, ProcStates
<1>4. CASE processSigAbort(p, st)
  BY <1>1, <1>3, <1>4 DEF processSigAbort
<1>5. CASE processSigStop(p, st)
  BY <1>1, <1>3, <1>5 DEF processSigStop
<1>6. CASE processSigContinue(p, st)
  <2>1. fault' # "assert" /\ (fault' = "none" => ppid[p] = Shell)
    BY <1>1, <1>6 DEF processSigContinue
  <2>2. CASE ppid[p] = Shell
    BY <1>1, <1>2, <1>6, <2>1, <2>2 DEF processSigContinue
  <2>3. CASE ppid[p] = NoProc
    BY <1>1, <1>2, <1>6, <2>1, <2>3 DEF processSigContinue
  <2> QED BY <1>1, <2>2, <2>3
<1>7. CASE processSigAlarm(p, st)
  <2>1. p # Shell
    BY <1>2, <1>7 DEF processSigAlarm
  <2> QED BY <1>1, <1>2, <1>7, <2>1 DEF processSigAlarm
<1>8. CASE processNoSignal(p, st)
  BY <1>1, <1>2, <1>8 DEF processNoSignal
<1> QED BY <1>4, <1>5, <1>6, <1>7, <1>8 DEF processSignals

(* The shell, when it waits, was Running, so that its node is in no list. *)
LEMMA ProcessWaitInv ==
  ASSUME PlaceInv, RunInv, StopInv, WaitInv, NEW p \in Pids, process(p) PROVE WaitInv'
<1>1. rp = p /\ fault = "none" /\ (state[p] = "Running" \/ pc[p] = "exitYield")
  BY DEF process, setSignalMask, sysexecv, schedProc, newProc, schedProcUnlock, psLock, psUnlock, syslock,
         sysunlock, background, syswaitpid, resume, fg, fgLoads, fgStores, writeTimer, syssleep, exitWake,
         exitFree, exitDead, _exits, At, Runs, RunInv, OnlyRpRuns
<1>2. /\ state \in [Pids -> ProcStates] /\ nextWaitQ \in [Pids -> Pids \cup {NoProc}]
      /\ pc \in [Pids -> ProcSteps] /\ child \in [Pids -> Pids \cup {NoProc}]
      /\ sigPending \in [Pids -> SUBSET Signals] /\ loaded \in [Pids -> SUBSET Signals]
      /\ alarms \in [Pids -> 0..MaxAlarms]
      /\ Shell \in Pids /\ NoProc \notin Pids
  BY ConstantsAssumption DEF PlaceInv, TypeInv, TypeOK, Shell, Pids, NoProc
<1>3. /\ \A q \in Pids \ {Shell} : nextWaitQ[q] = NoProc
      /\ alarms[Shell] = 0 /\ "SigAlarm" \notin sigPending[Shell]
      /\ \A q \in Pids : pc[q] = "storing" /\ child[q] = Shell => "SigAlarm" \notin loaded[q]
      /\ nextWaitQ[Shell] # NoProc => state[Shell] \in {"Waiting", "Stopped", "Dead"}
  BY <1>1 DEF WaitInv
<1>4. SUFFICES /\ fault' # "assert"
               /\ \A q \in Pids \ {Shell} : nextWaitQ'[q] = NoProc
               /\ alarms'[Shell] = 0 /\ "SigAlarm" \notin sigPending'[Shell]
               /\ \A q \in Pids : pc'[q] = "storing" /\ child'[q] = Shell => "SigAlarm" \notin loaded'[q]
               /\ fault' = "none" /\ nextWaitQ'[Shell] # NoProc
                    => state'[Shell] \in {"Waiting", "Stopped", "Dead"}
  BY DEF WaitInv, WaitpidAssertion
<1>5. CASE setSignalMask(p) \/ background(p) \/ resume(p)
  BY <1>1, <1>2, <1>3, <1>5 DEF setSignalMask, background, resume, GoTo, listVars, cpuVars
<1>6. CASE sysexecv(p) \/ psLock(p)
  BY <1>1, <1>2, <1>3, <1>6 DEF sysexecv, psLock, syslock, GoTo, listVars
<1>7. CASE schedProcUnlock(p) \/ psUnlock(p)
  BY <1>1, <1>2, <1>3, <1>7 DEF schedProcUnlock, psUnlock, sysunlock, GoTo, listVars
<1>8. CASE schedProc(p)
  <2>1. CASE procFreelist = <<>>
    BY <1>2, <1>3, <1>8, <2>1 DEF schedProc, newProc, listVars, procVars
  <2>2. CASE procFreelist # <<>>
    <3>1. PICK c \in Pids : c = Head(procFreelist)
      BY <2>2 DEF PlaceInv, TypeInv, TypeOK
    <3>2. /\ state' = [state EXCEPT ![c] = "Ready"] /\ nextWaitQ' = [nextWaitQ EXCEPT ![c] = NoProc]
          /\ sigPending' = [sigPending EXCEPT ![c] = {}] /\ loaded' = [loaded EXCEPT ![c] = {}]
          /\ child' = [child EXCEPT ![c] = NoProc, ![p] = c]
          /\ pc' = [pc EXCEPT ![c] = "user", ![p] = "queued"]
          /\ alarms' = alarms /\ fault' = fault
      BY <1>8, <2>2, <3>1 DEF schedProc, newProc, cpuVars
    <3>3. \A q \in Pids :
            /\ child'[q] = IF q = p THEN c ELSE IF q = c THEN NoProc ELSE child[q]
            /\ pc'[q] = IF q = p THEN "queued" ELSE IF q = c THEN "user" ELSE pc[q]
      BY <1>2, <3>2
    <3>4. \A q \in Pids : pc'[q] = "storing" /\ child'[q] = Shell => "SigAlarm" \notin loaded'[q]
      BY <1>2, <1>3, <3>2, <3>3
    <3> QED BY <1>1, <1>2, <1>3, <3>2, <3>4
  <2> QED BY <2>1, <2>2
<1>9. CASE syswaitpid(p)
  <2>1. p = Shell /\ state[Shell] = "Running"
    BY <1>1, <1>9 DEF syswaitpid, At, StopInv
  <2>2. nextWaitQ[p] = NoProc
    BY <1>3, <2>1
  <2> QED BY <1>2, <1>3, <1>9, <2>1, <2>2 DEF syswaitpid, GoTo
<1>10. CASE \E q \in Pids : fg(p, q)
  BY <1>1, <1>2, <1>3, <1>10 DEF fg, GoTo, listVars, cpuVars
<1>11. CASE fgLoads(p)
  <2>1. CASE child[p] = NoProc
    BY <1>2, <1>3, <1>11, <2>1 DEF fgLoads, listVars
  <2>2. CASE child[p] # NoProc
    <3>1. child[p] = Shell => "SigAlarm" \notin loaded'[p]
      BY <1>2, <1>3, <1>11, <2>2 DEF fgLoads
    <3>2. \A q \in Pids : q # p => loaded'[q] = loaded[q] /\ pc'[q] = pc[q]
      BY <1>2, <1>11, <2>2 DEF fgLoads, GoTo
    <3> QED BY <1>1, <1>2, <1>3, <1>11, <2>2, <3>1, <3>2 DEF fgLoads, listVars
  <2> QED BY <2>1, <2>2
<1>12. CASE fgStores(p)
  <2>1. "SigAlarm" \notin sigPending'[Shell]
    BY <1>2, <1>3, <1>12 DEF fgStores, At
  <2>2. \A q \in Pids : pc'[q] = "storing" /\ child'[q] = Shell => "SigAlarm" \notin loaded'[q]
    BY <1>2, <1>3, <1>12 DEF fgStores, GoTo
  <2> QED BY <1>1, <1>2, <1>3, <1>12, <2>1, <2>2 DEF fgStores, listVars, cpuVars
<1>13. CASE writeTimer(p)
  <2>1. p # Shell
    BY <1>13, ConstantsAssumption DEF writeTimer
  <2> QED BY <1>1, <1>2, <1>3, <1>13, <2>1 DEF writeTimer, GoTo, listVars
<1>14. CASE syssleep(p) \/ _exits(p)
  BY <1>1, <1>2, <1>3, <1>14 DEF syssleep, _exits, GoTo, listVars
<1>15. CASE exitWake(p)
  <2>1. /\ \A q \in Pids \ {Shell} : released(p)[q] = NoProc
        /\ released(p)[Shell] # NoProc => woken(p, state)[Shell] \in {"Waiting", "Stopped", "Dead"}
    BY <1>2, <1>3 DEF released, woken
  <2> QED BY <1>2, <1>3, <1>15, <2>1 DEF exitWake, GoTo
<1>16. CASE exitFree(p)
  BY <1>2, <1>3, <1>16 DEF exitFree, GoTo
<1>17. CASE exitDead(p)
  BY <1>1, <1>2, <1>3, <1>17 DEF exitDead, GoTo, listVars, cpuVars
<1> QED BY <1>5, <1>6, <1>7, <1>8, <1>9, <1>10, <1>11, <1>12, <1>13, <1>14, <1>15, <1>16, <1>17
        DEF process

(* Every step keeps WaitInv. *)
LEMMA NextWaitInv == PlaceInv /\ RunInv /\ StopInv /\ WaitInv /\ [Next]_vars => WaitInv'
<1> SUFFICES ASSUME PlaceInv, RunInv, StopInv, WaitInv, [Next]_vars PROVE WaitInv'
  OBVIOUS
<1>1. /\ TypeInv
      /\ state \in [Pids -> ProcStates] /\ nextWaitQ \in [Pids -> Pids \cup {NoProc}]
      /\ pc \in [Pids -> ProcSteps] /\ child \in [Pids -> Pids \cup {NoProc}]
      /\ sigPending \in [Pids -> SUBSET Signals] /\ alarms \in [Pids -> 0..MaxAlarms]
      /\ loaded \in [Pids -> SUBSET Signals]
      /\ Shell \in Pids /\ NoProc \notin Pids
  <2>1. Shell \in Pids /\ NoProc \notin Pids
    BY ConstantsAssumption DEF Shell, Pids, NoProc
  <2> QED BY <2>1 DEF PlaceInv, TypeInv, TypeOK
<1>2. CASE interrupt
  <2>1. ASSUME NEW s \in Keys, k70UartInterrupt(s) PROVE WaitInv'
    <3>1. "SigAlarm" \notin sigPending'[Shell] /\ fault' # "assert"
      BY <1>1, <2>1, ConstantsAssumption DEF k70UartInterrupt, syspostsignal, WaitInv
    <3> QED BY <2>1, <3>1 DEF k70UartInterrupt, Unmasked, listVars, WaitInv, WaitpidAssertion
  <2>2. ASSUME NEW q \in Pids, pdbHandler(q) PROVE WaitInv'
    <3>1. q # Shell
      BY <2>2 DEF pdbHandler, WaitInv
    <3>2. "SigAlarm" \notin sigPending'[Shell] /\ fault' # "assert" /\ alarms'[Shell] = 0
      BY <1>1, <2>2, <3>1 DEF pdbHandler, syspostsignal, WaitInv
    <3> QED BY <2>2, <3>2 DEF pdbHandler, Unmasked, listVars, WaitInv, WaitpidAssertion
  <2> QED BY <1>2, <2>1, <2>2 DEF interrupt
<1>3. CASE systickHandler \/ pendsvHandler
  <2>1. scheduleProc /\ fault = "none" /\ UNCHANGED <<sigPending, pc, child, loaded, alarms>>
    BY <1>3 DEF systickHandler, pendsvHandler
  <2>2. CASE rp \in Pids /\ processSignals(rp, preempted)
    <3>1. /\ preempted \in [Pids -> ProcStates]
          /\ nextWaitQ[Shell] # NoProc => preempted[Shell] = state[Shell]
      BY <1>1, <2>1, <2>2 DEF preempted, ProcStates, WaitInv
    <3>2. /\ \A q \in Pids \ {Shell} : nextWaitQ'[q] = NoProc
          /\ fault' # "assert"
          /\ fault' = "none" /\ nextWaitQ'[Shell] # NoProc
               => state'[Shell] \in {"Waiting", "Stopped", "Dead"}
      BY <1>1, <2>1, <2>2, <3>1, SignalsWaitInv
    <3> QED BY <2>1, <3>2 DEF WaitInv, WaitpidAssertion
  <2>3. CASE UNCHANGED <<state, nextWaitQ, fault>>
    BY <2>1, <2>3 DEF WaitInv, WaitpidAssertion
  <2> QED BY <2>1, <2>2, <2>3 DEF scheduleProc
<1>4. CASE clearPending
  BY <1>1, <1>4 DEF clearPending, listVars, WaitInv, WaitpidAssertion
<1>5. CASE queueProc \/ beginScan \/ endScan
  BY <1>5 DEF queueProc, beginScan, endScan, procVars, listVars, WaitInv, WaitpidAssertion
<1>6. CASE runProc
  <2>1. /\ rp' \in Pids /\ state[rp'] = "Ready" /\ state' = [state EXCEPT ![rp'] = "Running"]
        /\ fault = "none" /\ UNCHANGED <<nextWaitQ, sigPending, alarms, pc, child, loaded, fault>>
    BY <1>1, <1>6 DEF runProc, TypeInv, TypeOK, Phases, StopInv
  <2> QED BY <1>1, <2>1 DEF WaitInv, WaitpidAssertion
<1>7. ASSUME NEW p \in Pids, scanDead(p) PROVE WaitInv'
  <2>1. /\ fault = "none" /\ UNCHANGED <<alarms, fault>>
        /\ state' = [state EXCEPT ![p] = "Dead"] /\ nextWaitQ' = [nextWaitQ EXCEPT ![p] = NoProc]
        /\ sigPending' = [sigPending EXCEPT ![p] = {}] /\ pc' = [pc EXCEPT ![p] = "gone"]
        /\ child' = [child EXCEPT ![p] = NoProc] /\ loaded' = [loaded EXCEPT ![p] = {}]
    BY <1>7 DEF scanDead, Scanning, recycleProc, cpuVars
  <2> QED BY <1>1, <2>1 DEF WaitInv, WaitpidAssertion
<1>8. ASSUME NEW p \in Pids, scanSignals(p) PROVE WaitInv'
  <2>1. /\ fault = "none" /\ processSignals(p, state) /\ UNCHANGED <<pc, child, loaded, alarms>>
        /\ sigPending' = [sigPending EXCEPT ![p] = {}]
    BY <1>8 DEF scanSignals, Scanning
  <2>2. /\ \A q \in Pids \ {Shell} : nextWaitQ'[q] = NoProc
        /\ fault' # "assert"
        /\ fault' = "none" /\ nextWaitQ'[Shell] # NoProc
             => state'[Shell] \in {"Waiting", "Stopped", "Dead"}
    BY <1>1, <2>1, SignalsWaitInv
  <2> QED BY <1>1, <2>1, <2>2 DEF WaitInv, WaitpidAssertion
<1>9. CASE UNCHANGED vars
  BY <1>9 DEF vars, procVars, listVars, cpuVars, WaitInv, WaitpidAssertion
<1> QED BY <1>2, <1>3, <1>4, <1>5, <1>6, <1>7, <1>8, <1>9, ProcessWaitInv DEF Next, scheduler, halted

(* For every number of Procs, whatever is typed, stopped and continued: the
   process that calls waitpid waits for nobody yet, as syswaitpid() asserts. *)
THEOREM WaitpidAsserts == Spec => []WaitpidAssertion
<1>1. WaitInv => WaitpidAssertion
  BY DEF WaitInv
<1> QED
  BY <1>1, InitPlaceInv, NextPlaceInv, InitChildInv, NextChildInv, InitRunInv, NextRunInv,
     InitStopInv, NextStops, InitWaitInv, NextWaitInv, PTL
  DEF Spec
=============================================================================
