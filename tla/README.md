# A verification project for manos

manos is a small Plan9-like operating system for the Freescale K70 (an ARM
Cortex-M4): a preemptive scheduler, processes with signals, devices behind a
file namespace, a heap allocator and a shell, torgo.  This directory holds TLA+
modules translated from its C code, the TLC configurations that check them on
small instances, and theorems about them that TLAPS proves for every value of
the constants.  `PROJECT.json` maps every definition to the lines it models.

All of it is about the K70 build (`PLATFORM_K70CW`).  On the host build
("nice") critical regions and `YIELD` are empty and nothing is scheduled.

## 1. The system

| Component | State | Operations | Hard because |
|---|---|---|---|
| Processes and scheduler (`src/sys/schedule.c`, `src/process`, `src/sys/execv.c`) | 127 `Proc`s on a run queue, a free list or `rp`; `procTable`; wait queues | `kexec`, `waitpid`, exit, sleep, preemption, recycling | every step may be preempted; a Proc is reused with the same pid; lists are changed in and out of critical regions |
| Signals (`postsignal.c`, `signals.c`, `processSignals`) | `sigPending`, `sigMask` | post (keys, timer, `fg`), abort, stop, continue, alarm | posted by interrupts while the scheduler looks at them |
| Locks and references (`src/ipc`) | `locked`, holder, count | trylock, lock (spins through `YIELD`), unlock, inc/dec | holders are preempted and killed; the scheduler ignores locks |
| Critical regions (`include/manos.h`) | `criticalRegionCount` | enter, leave | a counter shared by threads and handlers; no effect in user mode |
| System calls (`svcHandler.c`, `syscall.c`) | the stack frame | 14 calls | run at the lowest exception priority, preemptible |
| Timers and alarms (`devtimer.c`, `timer.c`, `pdbHandler.c`, `toieHandler.c`) | `systime`, the alarm list | arm, tick, expire | alarms outlive their process |
| Console UART (`uart.c`, `devuart.c`) and byte queue (`src/fifoq`) | two rings, the C2 register | putc, getc, interrupt, close | producer and consumer are a thread and a handler |
| Heap allocator (`src/kmalloc`) | chunks, bins, an allocation bitmap | malloc, free, split, coalesce | boundary tags and bins must agree |
| Namespace (`src/walk`, `crumb`, `portal`, `path`, `nodeinfo`, `sys/walk.c`) | static trees, trails, portals | walk, read a directory, mount | index arithmetic, sentinels |
| File descriptors (`src/sys/open.c`, `close.c`, `read.c`, `write.c`) | `descriptorTable` | open, close, read, write | ownership of portals across exit and kill |
| Other devices (`src/dev/dev*.c`) | registers behind files | read, write | text protocols |
| Shell (`src/torgo`) | input buffer, parser state, environment | read a line, parse, run | incremental parsing |
| Commands (`src/torgo/commands`) | none | `ps`, `fg`, `toast`, ... | `ps` walks the run queue; `fg` signals anybody |
| Priority heap, calendar (`src/heapq`, `src/date`) | an array; none | enqueue, dequeue; conversions | boundaries |
| LCD console (`devlcd.c`, `lcd.c`) | the frame buffer, a cursor, colours | putc, scroll, clear, blit | pixel arithmetic; shared by all writers; the heap lies behind it |
| Formatting (`src/sys/fmt.c`) | the output buffer | the printf family | what is left of a buffer; unsigned counts |
| Boot, clocks, SDRAM, fonts | registers | set-up | straight-line code |

How they meet: `kexec` (an SVC) takes `runQLock`, gets a Proc from the free list
and queues it; the parent may `waitpid`.  SysTick (every 50 ms) and PendSV
(`YIELD`) enter `scheduleProc`, which acts on the signals of the preempted
process, queues it, and scans the run queue for a Ready one, recycling the Dead.
The UART handler turns ctrl-C and ctrl-Z into signals to `rp` and moves bytes
between the rings and the data register; the PDB handler turns due alarms into
signals.  `processSignals` frees the descriptors of what it kills and writes to
the console.

What makes each correct: no Proc lost or shared, one process running, nothing
inherited by a reused Proc, locks that exclude, Ready processes that run and Dead
ones that are recycled (processes); no signal lost, a sleep that ends (signals,
alarms); queues that neither lose, double nor reorder, output that is never stranded
(UART); chunks that partition memory and blocks that are disjoint (allocator); a
walk that ends where the tree says, a descriptor that is the file its path names,
portals freed once (namespace); commands executed as typed (shell); a date that
reads back as set (calendar).  `PROJECT.json` lists the hazards, each at its line,
with the properties that would catch it.

## 2. Modules

| Module | What it is |
|---|---|
| `Sched` | processes, lists, signals, waitpid, exit, sleep, `runQLock`, the scheduler, the two interrupts that post signals |
| `MCSched` | `Sched` for TLC |
| `SchedProofs` | eight theorems about `Sched` |
| `FifoQ` | the ring buffer, as operators on records |
| `Uart` | the console: writers, readers, close, the interrupt handler, the line |
| `Channel` | what a queue of the UART promises: a bounded FIFO channel |
| `MCUart` | messages and sizes for TLC, and what the line carries of each message |
| `UartProofs` | six theorems about `Uart`, two of them refinements of `Channel` |
| `CriticalRegion` | the region counter and the interrupt mask, access by access |
| `List`, `RunQueue`, `ProcQueue` | the intrusive lists of `list.h`; the run queue as linked nodes, its scan, and `ps` walking it; the queue it implements |
| `Kmalloc`, `MCKmalloc`, `Heap` | the allocator with tags, bins and bitmap; the disjoint blocks it implements |
| `RamLayout` | the numbers of the K70's SDRAM, header and bitmap |
| `KmallocPreempt` | `Kmalloc` with callers that are preempted inside it |
| `StaticNS`, `Walk` | static namespace tables and moves in them; walks and directory reads in every small table |
| `Namespace`, `MCNamespace` | the tables of the K70 build, paths, mounts, descriptors, and the files of the devices |
| `Alarms` | the clock, the alarm list, both timer handlers, sleeping, dying and reused pids |
| `DateFile`, `Calendar` | the conversions of `date.c` behind `/dev/date`; the calendar they implement |
| `Torgo` | the shell's loop: prompt, parser, argument vector, the wait for a command |
| `Env` | the shell's variables and string comparison |
| `Fmt` | the printf family |
| `Lcd`, `Terminal` | the LCD console by pixels; what a terminal would show |
| `HeapQ`, `PriorityBag` | the priority heap; the bag it implements |
| `MachineProofs` | six theorems about the run queue, `ps`, critical regions and alarms; the refinement of `ProcQueue` |
| `HeapQProofs`, `KmallocProofs` | theorems about the two heaps, with the refinements of `PriorityBag` and `Heap` |
| `StaticNSProofs` | lemmas about the moves, walks and listings in any static table |
| `NamespaceProofs` | two theorems about paths, mounts, descriptors and listings, and the invariant they follow from |
| `LibraryProofs` | five theorems: the calendar (a refinement of `Calendar`), walks, listings, the screen, printing |
| `MCMachine` | the run queue, critical regions and alarms for TLC |
| `MCLibrary` | the priority heap, date file, formatting, static tables, screen and shell for TLC |

`MCMachine`, `MCLibrary`, `MCNamespace`, `MCSched` and `MCUart` each put
several instances side by side: a variable (`part`, `session`, `use`) is chosen in
the initial state and says which instance moves; the variables of the others keep
their first value.  The parts do not interact: a state is a state of one of them,
and a property of one part is a property of it alone.

Operators named `...Mutant` stand before the definition they vary.  They are
deliberately wrong (a dropped test, a missing wrap, a swapped end of a queue),
are used by no specification, and serve to show that each property fails when
the code is wrong in that way.

### Sched

The exception priorities (`include/arch/mk70f12.h`) give the grain.  Threads and
the SVC handler (priority 15) are preempted by SysTick and PendSV (14), and all
of these by the UART and timer handlers (13).  So a process step is enabled only
when the scheduler is idle and no PendSV is pending (`Runs`); scheduler steps
interleave with `interrupt` only; and nothing interleaves with the scan of the
run queue, which masks interrupts (`scan # 0`).  SysTick is disabled while PendSV
is pending: they have one priority and PendSV, with the lower exception number,
is taken first, after which SysTick is restarted.

Variables are the fields of `Proc` as functions of the pid, the two lists as
sequences, `procTable` as the set of its non-NULL entries, `rp`, and where each
process (`pc`) and the scheduler (`sched`, `scan`) are.  Each C function is an
action, or one action per critical region where it has several: `schedProc` is
`syslock`, the critical region with `newProc`, `sysunlock`; `syssleep` is
`writeTimer` and then `syssleep`; `__manos_exit` is `exitWake`, `exitFree`,
`exitDead`, `_exits`; `scheduleProc` is the tests of `processSignals`, the
clearing of `sigPending` (`clearPending`), `queueProc`, and the scan.

Decisions a reader should know of:

- A critical region of a system call or of the scheduler is one action, which
  `CriticalRegion` justifies (run `machine`).  A region in a process's own code
  masks nothing, for in user mode `cpsid` is ignored (section 4).  There is one
  that matters to processes, that of `syspostsignal` when `fg` calls it, and it
  has an action for each access: `fg` reads `procTable`, `fgLoads` reads
  `sigPending`, `fgStores` writes it, to a Proc that may have been recycled
  meanwhile.  The handlers' posts are one action.
- The steps of `__manos_exit` run in thread mode outside any region;
  `wakeWaiting` and the loop of frees are each one step.
- The scheduler calls `syslock(&runQLock)` with `rp = &badProc`, for which
  `syslock` does nothing: the scan does not look at `runQLock`.  `freelistLock`
  is only ever taken inside `runQLock` and a critical region, or by the scan.
  `malLock` is unused.
- A process is named by its pid, for a Proc keeps the pid it is first given and
  is first taken in pid order.
- `waitQ`/`nextWaitQ` are intrusive lists the code can tear apart (a killed
  waiter stays linked; SigContinue links a node that is already linked; a
  recycled Proc's nodes are re-initialized in place).  They are kept from both
  ends, and the first operation on a list with a stale node stops the model with
  `fault = "corrupt"`: what C does from there is undefined.  The other faults: a
  NULL `procTable` entry ("null"), a failed assertion ("assert"), a second free
  ("doublefree"), `newProc` spinning with interrupts masked ("hang"), a process
  run again after `_exits` ("wild").  In a faulted state only `halted` is
  enabled, so these are not deadlocks to TLC.
- Descriptors are "none", "open" or "freed" (freed and not cleared); which files
  are open is the matter of `Namespace`.  Process groups, stacks, canaries and
  what is printed are abstracted; the write of "Killed"/"Stopped" changes no
  process state (and goes nowhere from the scan, where `rp` is `&badProc`).
- ctrl-C and ctrl-Z while `rp` is `&badProc` (pid -1) do nothing, as in the code.
- Time is abstracted: an alarm that is armed may become due at any moment;
  `Alarms` has the clock.
- The first pid is the shell (`Shell`): `main` starts the one `torgo_main`, and
  no file that `sysexecv` runs starts another.  What the others may run is chosen
  by the constants `Sleepers`, `Listers` and `Resumers`; any command may also
  simply end.  `fg` names a pid in
  `1..MaxProc`; a garbled argument (pid 0) is not enumerated.  Of `ps` only the
  lock is here; its walk over the run queue is in `RunQueue`.

### FifoQ, Uart, Channel

`FifoQ` keeps the ring as it is in C: offsets, size, flag and buffer.  `Uart` has
an action per byte of `writeUart` and `readUart` (they may be preempted between
any two bytes, between '\r' and '\n' too), one for the whole interrupt handler,
and two for the read and the write of C2 in `k70UartDisable`, which no critical
region joins.  Waiting for room or for a byte is the guard of the action.  The
transmitter and the line (`transmit`, `arrive`) are hardware, modelled from how
the driver uses them: a byte is sent only with TE on; a byte arriving while RDRF
is set is lost.  RIE is always on after `k70UartEnable` and is left out, as is
the message on a spurious interrupt.  Bytes carry their writer, or their number
on the line, so that the properties can tell them apart; `written`, `line`,
`accepted` and `received` are history variables.

`Channel` is the abstract specification: `put` and `got`, with `got` a prefix of
`put` and at most `Capacity` bytes in between.  `Uart` implements it twice:
`Output` with `put <- written` and `got` the bytes sent and in the data register,
`Input` with `put <- accepted` and `got` the bytes read.

### List, RunQueue

`List` has every operation of `list.h` on two functions, `next` and `prev`.
`RunQueue` has the run queue as such nodes, the scan with its two cursors
(`LIST_FOR_EACH_ENTRY_SAFE`), and `ps` with its one.  Signals and wait queues are
left to `Sched`: a process may wait, be made Ready, and die.  It implements
`ProcQueue`, the sequence that `Sched` takes the queue for.

With processes that wait and wake, `ps` may miss one (it is requeued behind the
cursor's back) and two that take turns can keep it walking; the repository
promises neither, so `PsReturns`, that it comes to the end and has listed everyone,
is checked for processes that are always busy.

### Kmalloc

Addresses and sizes are in double words; a double word holds a tag where a chunk
begins or ends.  A size within 15 bytes of 2^32, whose sum with tags and padding
wraps, is excluded by `KmallocAssumption`; no caller passes one.  `kmalloc` is the
disjunction of the steps `allocateChunk` tries in order, each guarded by the failure
of those before: the chunk freed last, the exact search of a dirty bin, of the
recent list (which re-bins what it passes), the remainder, the clean bins.
Arithmetic on sizes wraps at `WordUnits`.  Bins and thresholds are scaled down;
`RamLayout` has the build's own numbers.  `Heap` is what a caller may rely on:
blocks that are disjoint and as large as asked.

`KmallocPreempt` splits one step of the search where a process in user mode may
be preempted.  The coalescing pass, every call of which is commented out, is not
modelled.

### StaticNS, Walk, Namespace

A table is a function from indices to entries; a move returns an index, "not
found", or "past the end".  `Walk` enumerates every table in breadth first order
up to a size.  `Namespace` has the tables of the build: the root, its mounts,
buttons, LEDs, UART, LCD, ADC, timers, and the `dev` files.  A system call is one
action on the caller's table; portals are counted as they are allocated and
freed (`live`).  `__sysopen`, `sysexecv`, `sysread`, `syswrite`, `sysclose`,
`dirread` and exit are actions.  `sysexecv` counts the portals that it walks to
(`p`, and `pbin` for a command looked up in /bin) and frees each where the code
does; its early `return -1`, which loses `p`, is there (`unread` in `sysexecv`), but
no step takes it: only the root has files of mode 0555, and its read does not fail.
Descriptors outside the table are not
enumerated.  What a process leaks when it is killed or ends (slash, dot, the
parsed path) is counted as its own for good.

### Alarms, DateFile

`Alarms` has `systime`, the alarm list as a set and the pid in each alarm, the free
list through which pids come back, and every signal: an alarm wakes a sleeper,
ctrl-Z stops it, `fg` makes it Ready whether it was stopped or sleeps, ctrl-C kills
it.  The write of the alarm and the wait are two steps.  `MaxTime` ends the clock;
the properties are about what happens before.  In `DateFile` a time is a day and a
second of the day; a request is the numbers `strtol` finds.

### Torgo, Env, Fmt, Lcd, HeapQ

In `Torgo` one action is a key at the prompt or one turn of the parser's loop.
After a command in the foreground that kexec started, the shell waits in `waitpid`
inside that loop, until the command ends, if it does.  The reference is a parse of
the whole text, by which characters are escaped and which are within quotes.  `Env`
has the list of variables as a sequence; what changes it is compiled out of the
shell now.  `Fmt` has one turn of the formatting loop per action, with words and
digit buffer scaled down.  `Lcd` has the pixels of a small screen; `Terminal` says
what cells should show.  `HeapQ` has one action per recursive call; the kernel
builds it and calls it nowhere now.  The memory behind the heap is there too, as a
sift whose bottom has wrapped may read and swap it.

## 3. Runs

| Run | Instances | Checks | Distinct states |
|---|---|---|---|
| `sched_safe` | 3 Procs, the first the shell; sessions *kill* (two that may be ps, ctrl-C), *jobs* (ctrl-Z and fg) | `SlotsPartitioned`, `TableMatchesFreelist`, `OnlyRpRuns`, `DeadOwnNothing`, `LockExcludes`, `WaitpidAssertion`, `StoppedUntilSignalled` | 1.8 million |
| `sched_live` | 2 Procs, the second a sleeper, `ps` or `fg`; both keys, fairness | `TypeOK`, `ReadyRuns`, `DeadRecycled` | 0.33 million |
| `uart_console` | queues of 3; uses *closing* (2 writers and a closer), *reading* (2 readers, 6 bytes typed), *writing* (2 writers, fairness) | `TypeOK`, `QueuedIsTransmitted`, `LineCarriesMessages`, `TypedInOrder`, `OutputChannel`, `InputChannel`, `WritesSent` | 72 thousand |
| `kmalloc_safe` | 13 double words, requests of 0, 15 and 41 bytes; and the layout of the real RAM, an assumption TLC evaluates | `FreeIsAccepted`, `HeapIsSound`, `BitmapIsExact`, `SplitFindsNoRemainder`, `ImplementsHeap` | 93 thousand |
| `machine` | *queue*: 4 Procs, one may wait, two may die, a ps; *busy*: the same, all busy; *region*: 3 threads in system calls and in their own code, regions nested 3 deep; *alarms*: 2 pids with 2 lives, sleeps of 1 and 2 in 2 milliseconds, ctrl-C, ctrl-Z, fg; fairness | `QueueIsSound`, `ImplementsQueue`, `CursorOnQueue`, `PsReturns`; `RegionsHold`; `AlarmsReachSleepers`, `AlarmsFire` | 0.11 million |
| `namespace` | *opening*: 2 processes, 2 descriptors, 9 paths, 3 starts; *reading*: 1 process, 5 files, the buttons | `PortalsAccounted`, `NamesLeadToFiles` | 0.13 million |
| `library` | *heap*: 5 words of 3 values, dequeued to the last; *ticks*: every day of 1970-1973, 2000 and days of 2100; *sets*: dates of common years, whole and in short forms; *format*: formats of up to 3 items, buffers of 1 to 5 and 20; *tables*: static tables of up to 4 nodes, paths of up to 2 elements; *words*: 6 keys of letters, blanks, quotes, escapes, operators; *lines*: 5 keys with backspace, line ends, variables; *screen*: 3 columns, 2.5 rows, 5 characters, 2 greys; fairness of the parser | `HeapOrdered`, `ImplementsPriority`; `ImplementsCalendar`; `PrintsAndFits`; `WalksFollowTree`, `DirectoriesListed`; `ExecutedAsTyped`, `PromptReturns`; `ScreenShowsText` | 0.42 million |

`HeapIsSound`, `QueueIsSound`, `RegionsHold`, `AlarmsReachSleepers`, `NamesLeadToFiles`,
`PrintsAndFits`, `WalksFollowTree`, `DirectoriesListed` and `ScreenShowsText` are
conjunctions of named parts, the type invariant of their module among them; the
parts are stated one by one where the component is.

In five runs TLC finds that the code does not do what a comment or an assertion
of the repository says:

| Run | The statement | What happens |
|---|---|---|
| `sched_sleep` | `toast.c:19`, a 2 second sleep | the alarm is posted before the sleeper waits and consumed while it is still running, or erased by `sigPending = newPending`; it waits for ever |
| `sched_deadlock` | `lock.c:32`, "dead procs can't hold locks" | ctrl-C kills ps with `runQLock` held; it stays locked |
| `kmalloc_preempt` | `kmalloc.c:747`, no address is allocated twice | preempted between search and unlink, a process takes a chunk given to another |
| `heap_lowest` | `downHeapQ.c:73`, dequeues the lowest value | the greatest is dequeued (nothing calls the heap now) |
| `env_match` | `string.c:108`, compares for equality; `env.c:113-114`, NULL unless the name is found | names that differ in the last character match (what would add a variable is compiled out, `torgo.c:244-267`) |

Bounds.  Three Procs let the free list empty ("hang" is reached), a pid be reused
while a relation to its last life is still around (`child`, `ppid`, a stale node,
the holder of a lock), and a process be preempted, killed and waited for by others.
Neither session has both ctrl-C and fg, which together would take TLC too long; the
theorems about `Sched` cover them, for any keys.  `MaxAlarms = 1` bounds the alarms of one
process: `syssleep` arms one and does not return before it waited.  The queue depths
are below the messages' lengths, so that the rings fill and wrap; `MaxTyped = 6` is
twice inQ's depth.  No symmetry is used: pids are handed out in order.  The UART
runs turn the deadlock check off because their messages are finite.

The other bounds: 13 double words hold up to six chunks, of sizes that fall in fast
and range bins, so that every step of the search is taken and the heap fills up;
four nodes give tables with two levels and siblings with children; two descriptors
fill a table; the screen scrolls, wraps and tabs past its edge within five
characters; the buffers of 1 to 5 bytes end inside every kind of string hole; six
keys hold two words, a quotation or an escape, and an operator; five heap words give
three levels.  Where the code fails outside an instance, the instance says so:
*heap* is not dequeued when empty (`Least`), *region* ends where a region that masks
nothing is split (`AfterSplit`), *format* has the formats the kernel uses, *sets*
common years, *screen* one writer and grey backgrounds, *opening* no relative path
of two elements.  Section 4 lists what lies outside.

Fairness.  `Sched`: weak fairness of the scheduler as a whole (SysTick keeps
ticking, a handler that was entered goes on) and of each due alarm (the timer runs);
none of the processes, who may loop for ever.  `Uart`: weak fairness of the writers,
which `ReadyRuns` justifies, of the interrupt and of the transmitter; none of
readers, of who types or of who closes.  `Alarms`: weak fairness of the two timer
handlers.  `RunQueue`: weak fairness of the scheduler and strong fairness of ps,
which only runs when it is scheduled (`ReadyRuns`).  `Torgo`: weak fairness of the
parser while it parses; none of who types, and none of `waitpid`, which may wait for
ever (a command that does not end, or one that ended before it): `PromptReturns` is
about shells that do not.

## 4. Other disagreements met while modelling

The modules hold the properties named here, with the source they quote; TLC finds
each violated on the instance given, which no run keeps.

| Property and instance | The statement | What the code does |
|---|---|---|
| `Sched.KfreeAssertion`, with ctrl-C | `kmalloc.c:813`, only allocated memory is freed | ctrl-C lands between `abortProc` and `state = ProcDead` of an exiting process; `processSignals` frees its descriptors again |
| `Sched.ScanFindsReady` | `schedule.c:50`, does not return until a process is ready | with nothing Ready it returns `&badProc`, and `scheduleProc` loops |
| `CriticalRegion.RegionsExclude`, `AfterSplit = TRUE` | `kmalloc.c:4`, "Single threaded allocator" | in user mode `cpsid` is ignored; two processes are in a region |
| `Kmalloc.AllBinsCanBeUsed` | `kmalloc.c:156`, all bins can be used | a request fails while a larger freed chunk is on a dirty list |
| `RunQueue.recycledUnderPs`, with `Mortals` | `list.h:130`, what is safe if a node is removed | a process is recycled under `ps`'s cursor |
| `Walk.SentinelStops`, `EmptyDirs` | `getNodeInfoStaticNS.c:17-18`, the sentinel | the test for it is never true; a search below a childless directory runs past the table |
| `Namespace.DescriptorNamesFile`, the path bin/ls | `README:59`, relative paths | "bin/ls" opens bin |
| `Namespace.WalkLeavesTrail`, a path below /dev/date | `walk/DESIGN:10-11`, a failed walk leaves a shorter trail | `syswalk` uses a NULL trail |
| `Namespace.ReadFitsBuffer`, /dev/timer | `cat.c:8`, 4 byte chunks | a read of 4 bytes returns 8 |
| `Namespace.LedReadsState` | `devled.c:13`, '1' or '0' is the state | always '0' |
| `Namespace.LedOffsetWritesNothing` | `devled.c:266-267`, no write at an offset | the offset is ignored |
| `Alarms.SleepLasts` with `disturbed` taken for empty, the run's bounds | `toast.c:19`, a 2 second sleep | `fg` wakes a sleeper at once; its alarm, or that of a killed process, ends a later sleep or that of the next with its pid |
| `DateFile.SetReadsBack`, leap years | `commands/date.c:9`, set a date | it reads back a day late |
| `Torgo.EmptyWordsKept` | `parser.c:13`, a quoted word may be empty | `""` is no argument |
| `Torgo.LineIsBounded`, a small `readMax` | `torgo.c:71`, until readMax is met | nothing counts |
| `Env.UnsetKeepsOthers` | `env.c:156`, removes the instances of a name | removes everything |
| `Env.UpdateReturns` | `env.c:131`, replaces the value | loops at the first other variable |
| `Fmt.FitsBuffer`; `FitsWithoutNul` with `%%` | `fmt.c:46`, a buffer of size n | the final 0, or `%%` and what follows, is stored beyond it |
| `Fmt.PrintsFormat`, negative numbers, widths without 0 | `fmt.c:61-71`, int, any width | a negative number prints unsigned; padding is NULs or old digits |
| `Fmt.PrintsFormat`, `useN = FALSE` | `fmt.c:45-47`, prints to the buffer | an empty buffer stays empty |
| `Lcd.ShowsText`, a background in `Colours` | `lcd.c:183`, clears the last row | clears from the second pixel row on |
| `Lcd.DrawsInside`, two writers | `mk70f12.h:55`, the size of the frame buffer | they draw beyond it, into the allocator's header |
| `HeapQ.ReturnSaysValid`, `SiftStaysInside` | `downHeapQ.c:78-79`, `newHeapQ.c:5-6` | the last value is reported as none, and when it is taken `n - 1` wraps and the sift goes past the buffer |

## 5. Proofs

All theorems hold for every value of the constants that the assumption of the module
(`ConstantsAssumption`, `UartAssumption`, `RegionAssumption`, `AlarmsAssumption`,
`RunQueueAssumption`, `HeapAssumption`, `KmallocAssumption`, `NamespaceAssumption`,
`WalkAssumption`, `DateAssumption`, `LcdAssumption`, `FmtAssumption`) allows: any
number of Procs, any assignment of commands to pids, any keys; any depths, messages,
readers; any threads and nesting; any size of either heap, any bins, requests and
number of chunks cut in advance; any paths, processes and descriptors; any static
table; any time, screen, buffer, format.  A theorem that needs more says so in its
ASSUME, and the text below says why the code needs it too.

`SchedProofs`, in this order, each invariant resting on the ones before:

1. `TypeInv` is `TypeOK` with `Phases`: which values of `sched` go with which of
   `rp` and `scan`, and that `scan` points into the run queue when a Proc has
   been found.  Without it `rp` could be no process where `processSignals(rp)`
   is used as an index, and `listUnlink(procRunQ, scan)` could drop the wrong
   node.  => `TypeCorrect`.
2. `PlaceInv` adds `SlotsPartitioned` and `TableMatchesFreelist`, which are
   inductive together.  Only `schedProc`, `queueProc`, `scheduleProc` (at boot),
   `scanDead` and `runProc` move a Proc; three lemmas (`AppendRange`,
   `TailRange`, `UnlinkRange`) say what `listAddBefore`, taking the head and
   `listUnlink` do to the range and to injectivity.  => `NoProcLost`,
   `TableCorrect`.
3. `LockExcludes` is inductive with `TypeInv`.  It survives the kill of a holder
   because nobody clears the lock, and the reuse of its Proc because a new
   process starts outside the guarded code.  => `LockCorrect`.
4. `RunInv` adds to `OnlyRpRuns` that nobody is Running while the scheduler
   works, and that nobody is its own waiter, child or parent: otherwise
   `wakeWaiting(p)` could make the exiting `p` itself Ready.  => `OneRunning`.
5. `FgInv` says that what a preempted `fg` is about to store has a SigContinue: no
   process masks it.  `OwnInv` adds to `DeadOwnNothing` that in `__manos_exit` past
   `abortProc` the descriptors are freed.  A free Proc has no signal but what such
   an `fg` has stored, and that is among them.  => `NothingInherited`.
6. `StopInv` adds that only the shell spawns, is a parent or waits in a `waitQ`, that
   the scan has found a Ready process, and that no free Proc is Stopped: so
   neither an exit, which makes its waiters Ready, nor the scan, nor the reuse of
   a Proc restarts a stopped command.  `StaysStopped` is the step, proved for
   every action.  => `StoppedStays`.
7. `WaitInv`: only the shell is ever in a `waitQ`, and while it is there it is
   Waiting, Stopped or Dead, never Ready, for what would make it Ready takes its
   node out first: it has no alarm, and SigContinue finds it without a parent
   (`procTable` has no entry 0), which stops the machine.  => `WaitpidAsserts`.

`UartProofs` has one invariant, `IInv`: the types, `QueuedIsTransmitted` (a closer
that writes back a stale TIE also turns TE off, for good, so it needs no
strengthening) and for both rings `Between(q, put, got)`, that the ring holds
exactly what was put in and not yet taken out.  The lemmas `Enqueue` and `Dequeue`
show that the two operations of the ring preserve `Between`, whatever its size and
wherever it wraps.  The two refinement theorems then show that each step of `Uart`
is a `Put`, a `Get` or a stutter of `Channel`.

`OrderInv` adds the order of typing: the numbers of the bytes in `accepted` grow
and are below that of the byte in the data register, and what was read is a
prefix of `accepted`.  With `Between` this gives `TypedIsReadInOrder`.

`WrittenInv` follows each byte of a message through `newlines`: what the k-th byte
of a writer in `written` must be is what its message with a '\r' before each '\n'
has there (`sends`), a writer has passed `bytes[p]`, the newlines among them, and one
more if it stands between '\r' and '\n'; and what was transmitted begins `written`.
=> `MessagesAreSentInOrder`, for any writers that interleave byte by byte.

`MachineProofs`, critical regions: as long as no thread took a step while another
was in a region of its own code (`~ split`; there `cpsid` is ignored and the rest is
false, section 4) the count is the depth of the one thread that is inside, what that
thread has loaded is what it will overwrite, and every other is still in front of
its `cpsid` (`RegionInv`).  => `RegionsHoldUnlessSplit`, for threads that enter
regions both ways.

`MachineProofs`, alarms: `AlarmInv` says that an alarm in the list is that of a
process which is still in its sleep, stopped or not, for the time it asked for, and
that one whose time has not come has an alarm, unless the process of that pid was
killed asleep or made Ready by `fg` in its sleep (`disturbed`, a history variable):
that one's alarm stays queued and comes for a later sleep, for the next process of
the pid, or for none (section 4).  What the theorem says of all other pids needs no
assumption on who is killed, stopped or continued.  => `SleepersAreReached`.

`MachineProofs`, run queue: `Ring(links, q)` says that the pointers lead from the list head
through the sequence `q` and back, in both directions.  `RingAppend` and
`RingUnlink` say what `listAddBefore`, `listUnlink` and `listUnlinkAndInit` make of
a ring, `FollowRing` that following the pointers of a ring finds its sequence.
`QInv` adds who is on the queue, where the two cursors of the scan are (the saved
one is behind the entry that is unlinked, so that recycling it does not lose the
place), that a recycled Proc leads to itself, and that `ps` holds `runQLock` and does
not stand on itself.  => `QueueStaysSound`, `PsStaysOnQueue`,
`LinksImplementQueue`.  With `Waiters = {}` and `Mortals = {}`, `BusyInv` says that the
queue only turns and `WalkInv` that `ps` has listed everything before its cursor
in the order of running.  => `BusyPsListsAll`, the safety half of `PsReturns`.

`HeapQProofs`: `SiftsUp` and `SiftsDown` say what is ordered in the middle of a
sift: everything but the pair at `start`, whose children are not greater than its
parent.  => `HeapStaysOrdered`.  The refinement of `PriorityBag` rests on how a
swap, a new word and a word less change the bag of the words below `n`, and on the
root being the greatest.  => `HeapImplementsPriority`.  Both are for `Least >= 1`,
the last value included: `n - 1` wraps there, the sift may read and swap memory
behind the heap, and of the heap, which is empty then, nothing is wrong.  The
greatest comes first, where the comment says the lowest (`heap_lowest`).

`KmallocProofs`: the properties the run checks are not inductive.  `HeapInv` has
three parts, each about as little of the state as possible:

- `Tiled`, about tags alone: headers lead from 0 to the top of memory, the next
  chunk begins where one ends, and footers are exactly the copies of headers.  It
  is kept by the two ways in which tags are written, cutting a free chunk into
  pieces of one size and a rest (`CutTiles`; `splitChunk` and the pieces it makes
  in advance) and marking one chunk free or in use (`MarkTiles`).
- `Listed`, about lists: either the one clean chunk is the whole heap and nothing
  else is listed, or there is no clean chunk and the free chunks are divided among
  the recent list, at most one remainder and the dirty bins, each bin in address
  order.  `BinDirtyIs`, `RebinnedIs` and `UnbinIs` say what binning one chunk, the
  re-binning of the recent list during its search, and taking a chunk out do.
- `Owned`: the owners' chunks are those not free and large enough, and the bitmap
  and the counters are those of these chunks.

The either-or of `Listed` is what keeps `splitChunk`'s rest from overwriting a
remainder.  => `HeapStaysSound`, `SplitNeverFindsRemainder`.  Two chunks of at
least 16 bytes cannot have payloads with the same bit of the bitmap, and the walk
over a block in steps of 16 bytes stays inside its chunk.  => `BitmapStaysExact`.
A neighbour in the tiling has equal tags, and a bit exactly if it is in use.
=> `FreeStaysAccepted`.  Each call is one step of `Heap`, or none when it fails.
=> `KmallocImplementsHeap`.

`KmallocAssumption` asks that every chunk and every request have a bin.  The
build's numbers satisfy it for every size: 126 * (n - 2) is taken modulo 2^29 and
divided by 2^23 - 2, which gives at most 64.  The theorems are about calls that
are not interleaved; with preempted callers they fail (`kmalloc_preempt`).

`StaticNSProofs` is about a table that holds a tree in breadth first order (`IsTree`:
a node's crumb tells its index and that of its parent, which is before it, and the
parents' indices grow).  A packed crumb tells the indices it was made of only where
they fit its bits (`CrumbIs`), so `IsTree` bounds the table.  Children of a
node are neighbours (`SiblingsAre`), a search finds the first of a name (`SearchIs`),
one element of a path leads to the parent, to a child or nowhere (`StepIs`), and a walk
is as many of these as succeed (`GenericWalkIs`); a read of a directory goes on with
its listing where the last one stopped (`ListingGoesOn`).

`NamespaceProofs`: the eight tables of the build are trees (`NodesAre`), so the
turns of `syswalk`'s loop follow the names across the mount points (`SyswalkIs`),
and the walk of a path leads where its names lead, or fails with its portal freed
(`WalkPathIs`, `FindCommandIs`).  `NSInv` says of every slot of every descriptor
table that it is free, or has a portal on a node of the tables, the path that names
that node, and as much of the listing as was read; that processes which do not run
have no open slots; and that the portals allocated are those in slots and two for
each process started; the portals `execv` walks to are freed before it returns
(`ReadCommandIs`: its read of a command does not fail).  => `NoPortalIsLost`, for
all paths; `PathsLeadToFiles`, for paths that are `Straight`.  The code needs that:
`mkPath` drops the last part of a relative path of several (section 4), and ".." in
the root of a device mounted below /dev stays there.  Names are STRING, the tables'
own among them.

`LibraryProofs`:

- *Calendar*.  The loops of `secondsToDate` are functions by recursion; they exist
  because a measure falls (`LoopExists`).  A day is in one year and in one month of it
  (`YearsTo` and `MonthsTo` count the days before), so `secondsToDate` finds the date of a
  time (`DateIs`), and that of the second after is the calendar's, in the six cases of a
  carry (`TickFollows`).  `dateToSeconds` is the inverse on common years (`Common`; in
  leap years it is a day late, section 4).
  => `DateFileIsCalendar`: for every time, without an end, the file is `Calendar`.
- *Walks and listings*.  `WalkInv` holds the trail to the tree and the offset to what was
  listed; both are `StaticNSProofs`' lemmas for every table of `TablesOf`, each of which
  is a tree.  => `WalksAreFollowed`, `ListingsAreWhole`.  `WalkAssumption` asks that the
  indices of the table, its sentinel's too, fit the parent bits of a fid.
- *Screen*.  Between two characters the frame buffer shows `text`; inside `putc` it shows
  a text that has the character and is not yet wrapped or scrolled (`InStep`).
  `ScrollShows`, `ClearShows`, `BlitShows` and `GlyphShows` say what each loop over pixels
  does to what is shown.  => `ScreenShowsItsText`, under `ScreenIsPlain`: one writer, a
  width of whole columns (the K70's 480 pixels are 80 of 6), backgrounds whose three
  parts are equal.  With two writers or coloured backgrounds it is false (section 4).
- *Printing*.  `FmtInv`: what was written is what the items so far mean, cut where the
  buffer ends, and `n` is what is left (`CutJoins`: a text cut after what is left
  continues one that is cut; `MeaningGrows`).  => `FormatsArePrinted`, for `fmtSnprintf`
  and formats that are `Printable`: numbers that are not negative and padded with zeros
  or not at all, where what a format with a number or `%%` means fits the buffer; TLC
  evaluates that those of the run are.  Each of these is needed (section 4); `FmtAssumption`
  asks that the digits of every word fit the digits' buffer and an `Input`'s buffer be
  no larger than a size_t counts.

Induction over natural numbers (along a queue, up a heap, over the values of a
bag, down a path, from day to day) is done with a lemma `NatSetInduction`, which takes
a set and no operator and follows from `WFMin`; a recursive function is first shown to
exist (`Unrolls`).

Only model-checked: the liveness properties (`ReadyRuns`, `DeadRecycled`, `WritesSent`,
`PsReturns`, `AlarmsFire`, `PromptReturns`), which are out of the prover's
reach, and one safety property, `ExecutedAsTyped`.  Its reference reads the whole
text at once, by sets of positions made into sequences, while the parser goes character
by character; a proof would have to say how each of these sets grows with a character,
in every state of quoting and escaping, and has not been done.  The five properties of
section 3 that fail have no theorem, and those of section 4 none without the
hypotheses named there.

## 6. Not modelled

- The set-up of clocks, SDRAM, NVIC, LCD controller and converters: straight-line
  register writes without state of the program's own.
- `MK70F12.h` (20 thousand lines of register definitions) and `profont.c` (a font
  of 3600 lines): tables.
- `printf` front ends, `lsmem`, `pwd`, `echo`, `fizzbuzz`: they print.
- Process groups, `systrylock`, `popCrumb`, `setSignalBlock`, `setSignalUnblock`, the
  coalescing pass of the allocator: no caller.
- Baud and bit settings of the UART, the ADC's values, `fstat`: data.
- The host platform ("nice"): no scheduler, critical regions are empty.
- `src-old`, `include-old`, `cw`: not built, or vendor and IDE files.
- Undefined behaviour past its first step: descriptors outside the table, memory
  after a wild write, a dead stack frame.

## 7. Plan

What is left:

1. `ExecutedAsTyped`: lemmas on how `EscapedIn`, `QuotedIn` and `WordsIn` of a text grow
   with its last character; then an invariant that the parser's words are those of the
   text read so far.
2. `Namespace`: the directories of processes that change `dot`, when the code does so.
3. `Kmalloc`: the coalescing pass, when its calls are back in.
