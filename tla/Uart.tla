-------------------------------- MODULE Uart --------------------------------
(***************************************************************************)
(* The console: processes that read and write /dev/uart/k70Uart, the two   *)
(* byte queues, the UART's interrupt handler and the line.                 *)
(*                                                                         *)
(* k70UartPutc and k70UartGetc leave and enter the critical region again   *)
(* until the queue takes or yields a byte; the attempt that succeeds is    *)
(* one action.  The interrupt handler is one action.  A process may be     *)
(* preempted between any two bytes.  The UART itself (its data register in *)
(* each direction, TDRE, RDRF and the line) is hardware, modelled from how *)
(* the driver uses it.                                                     *)
(***************************************************************************)
EXTENDS Integers, Sequences, FiniteSets, FifoQ

CONSTANTS
  Writers,        \* the processes that write to the console
  Message,        \* the bytes each passes to write(): "nl" or "char"
  Readers,        \* the processes that read from it
  ReadSize,       \* the size each passes to read()
  Closers,        \* the processes that close it
  uartInQDepth, uartOutQDepth,
  MaxTyped        \* bound: bytes that arrive on the line

ASSUME UartAssumption ==
  /\ uartInQDepth \in Nat \ {0} /\ uartOutQDepth \in Nat \ {0}
  /\ MaxTyped \in Nat
  /\ Message \in [Writers -> Seq({"nl", "char"})]
  /\ ReadSize \in [Readers -> Nat]

(* A byte to the line carries its writer, one from the line its number. *)
NoByte  == <<>>
OutByte == Writers \X {"cr", "nl", "char"}
InByte  == (1..MaxTyped) \X {"nul", "char"}
RxByte  == (1..MaxTyped) \X {"char", "ctrlC", "ctrlD", "ctrlZ"}

VARIABLES
  outQ, inQ,      \* uart->outQ, uart->inQ
  TIE, TE, RE,    \* UART_C2: transmit interrupt, transmitter, receiver enabled
  txD, rxD,       \* UART_D: TDRE is txD = NoByte, RDRF is rxD # NoByte
  bytes, cr,      \* writeUart(): bytes written; '\r' is out, its '\n' is not
  savedC2,        \* k70UartDisable(): the TIE it read from C2, or "none"
  written, line,  \* all bytes enqueued on outQ; all bytes sent on the line
  typed,          \* how many bytes have arrived on the line
  accepted,       \* all bytes enqueued on inQ
  received        \* all bytes read() has returned, with the reader

queues == <<outQ, inQ>>
regs   == <<TIE, TE, RE, txD, rxD>>
procs  == <<bytes, cr, savedC2>>
logs   == <<written, line, typed, accepted, received>>
vars   == <<queues, regs, procs, logs>>

(* What each variable may hold. *)
TypeOK ==
  /\ outQ \in FifoQs(uartOutQDepth, OutByte \cup {NoByte})
  /\ inQ \in FifoQs(uartInQDepth, InByte \cup {NoByte})
  /\ TIE \in BOOLEAN /\ TE \in BOOLEAN /\ RE \in BOOLEAN
  /\ txD \in OutByte \cup {NoByte} /\ rxD \in RxByte \cup {NoByte}
  /\ bytes \in [Writers -> Nat] /\ cr \in [Writers -> BOOLEAN]
  /\ savedC2 \in [Closers -> {"none", "on", "off", "closed"}]
  /\ written \in Seq(OutByte) /\ line \in Seq(OutByte)
  /\ typed \in 0..MaxTyped
  /\ accepted \in Seq(InByte) /\ received \in Seq(Readers \X InByte)
-----------------------------------------------------------------------------
(* k70UartPutc(), the attempt that succeeds. *)
k70UartPutcMutant(c) ==       \* the transmit interrupt is not enabled
  /\ ~isFullFifoQ(outQ)
  /\ outQ' = enqueueFifoQ(outQ, c)
  /\ written' = Append(written, c)
  /\ UNCHANGED TIE

k70UartPutc(c) ==
  /\ ~isFullFifoQ(outQ)
  /\ outQ' = enqueueFifoQ(outQ, c)
  /\ TIE' = TRUE
  /\ written' = Append(written, c)

(* writeUart(): on the console a '\r' goes before every '\n'. *)
writeUartMutant(p) ==         \* the '\r' goes out, and then again
  /\ bytes[p] < Len(Message[p])
  /\ LET c == Message[p][bytes[p] + 1] IN
     \/ /\ c = "nl"
        /\ k70UartPutc(<<p, "cr">>)
        /\ UNCHANGED <<bytes, cr>>
     \/ /\ k70UartPutc(<<p, c>>)
        /\ bytes' = [bytes EXCEPT ![p] = @ + 1]
        /\ UNCHANGED cr
  /\ UNCHANGED <<inQ, TE, RE, txD, rxD, savedC2, line, typed, accepted, received>>

writeUart(p) ==
  /\ bytes[p] < Len(Message[p])
  /\ LET c == Message[p][bytes[p] + 1] IN
     \/ /\ c = "nl" /\ ~cr[p]
        /\ k70UartPutc(<<p, "cr">>)
        /\ cr' = [cr EXCEPT ![p] = TRUE]
        /\ UNCHANGED bytes
     \/ /\ c # "nl" \/ cr[p]
        /\ k70UartPutc(<<p, c>>)
        /\ bytes' = [bytes EXCEPT ![p] = @ + 1]
        /\ cr' = [cr EXCEPT ![p] = FALSE]
  /\ UNCHANGED <<inQ, TE, RE, txD, rxD, savedC2, line, typed, accepted, received>>

(* readUart(): one k70UartGetc() after another until `size' bytes are in. *)
readBytes(p) == Len(SelectSeq(received, LAMBDA r : r[1] = p))

readUart(p) ==
  /\ readBytes(p) < ReadSize[p]
  /\ ~inQ.isEmpty
  /\ inQ' = dequeueFifoQ(inQ)
  /\ received' = Append(received, <<p, frontFifoQ(inQ)>>)
  /\ UNCHANGED <<outQ, regs, procs, written, line, typed, accepted>>

(* closeUart() of the data file: k70UartDisable() reads C2 and writes it
   back without TE and RE, not in a critical region. *)
k70UartDisableRead(p) ==
  /\ savedC2[p] = "none"
  /\ savedC2' = [savedC2 EXCEPT ![p] = IF TIE THEN "on" ELSE "off"]
  /\ UNCHANGED <<queues, regs, bytes, cr, logs>>

k70UartDisableWrite(p) ==
  /\ savedC2[p] \in {"on", "off"}
  /\ TIE' = (savedC2[p] = "on")
  /\ TE' = FALSE /\ RE' = FALSE
  /\ savedC2' = [savedC2 EXCEPT ![p] = "closed"]
  /\ UNCHANGED <<queues, txD, rxD, bytes, cr, logs>>
-----------------------------------------------------------------------------
(***************************************************************************)
(* k70UartInterrupt(): first the transmitter, then the receiver.  ctrl-C   *)
(* and ctrl-Z are signals to the running process (see Sched) and are not   *)
(* queued; ctrl-D is queued as 0; what finds inQ full is dropped.          *)
(***************************************************************************)
interruptTx ==
  \/ /\ TIE /\ txD = NoByte /\ ~outQ.isEmpty
     /\ txD' = frontFifoQ(outQ)
     /\ outQ' = dequeueFifoQ(outQ)
     /\ TIE' = ~outQ'.isEmpty
  \/ /\ TIE /\ txD = NoByte /\ outQ.isEmpty
     /\ TIE' = FALSE
     /\ UNCHANGED <<txD, outQ>>
  \/ /\ ~(TIE /\ txD = NoByte)
     /\ UNCHANGED <<txD, outQ, TIE>>

queued(b) == <<b[1], IF b[2] = "ctrlD" THEN "nul" ELSE "char">>

interruptRxMutant ==          \* a byte that finds inQ full is queued
  \/ /\ rxD # NoByte /\ rxD[2] \in {"char", "ctrlD"}
     /\ inQ' = enqueueFifoQ(inQ, queued(rxD))
     /\ accepted' = Append(accepted, queued(rxD))
     /\ rxD' = NoByte
  \/ /\ rxD # NoByte /\ rxD[2] \in {"ctrlC", "ctrlZ"}
     /\ rxD' = NoByte
     /\ UNCHANGED <<inQ, accepted>>
  \/ rxD = NoByte /\ UNCHANGED <<rxD, inQ, accepted>>

interruptRx ==
  \/ /\ rxD # NoByte /\ rxD[2] \in {"char", "ctrlD"} /\ ~isFullFifoQ(inQ)
     /\ inQ' = enqueueFifoQ(inQ, queued(rxD))
     /\ accepted' = Append(accepted, queued(rxD))
     /\ rxD' = NoByte
  \/ /\ rxD # NoByte /\ (rxD[2] \in {"ctrlC", "ctrlZ"} \/ isFullFifoQ(inQ))
     /\ rxD' = NoByte
     /\ UNCHANGED <<inQ, accepted>>
  \/ rxD = NoByte /\ UNCHANGED <<rxD, inQ, accepted>>

k70UartInterrupt ==
  /\ (TIE /\ txD = NoByte) \/ rxD # NoByte
  /\ interruptTx /\ interruptRx
  /\ UNCHANGED <<TE, RE, procs, written, line, typed, received>>

(* Hardware: the transmitter sends the data register ... *)
transmit ==
  /\ TE /\ txD # NoByte
  /\ line' = Append(line, txD)
  /\ txD' = NoByte
  /\ UNCHANGED <<queues, TIE, TE, RE, rxD, procs, written, typed, accepted, received>>

(* ... and a byte arrives; it is lost when the last one was not taken yet. *)
arrive ==
  /\ RE /\ typed < MaxTyped
  /\ typed' = typed + 1
  /\ \E kind \in {"char", "ctrlC", "ctrlD", "ctrlZ"} :
       rxD' = IF rxD = NoByte THEN <<typed + 1, kind>> ELSE rxD
  /\ UNCHANGED <<queues, TIE, TE, RE, txD, procs, written, line, accepted, received>>
-----------------------------------------------------------------------------
(* k70UartPower() and k70UartEnable(), before any process runs. *)
Init ==
  /\ outQ = newFifoQ(uartOutQDepth, NoByte) /\ inQ = newFifoQ(uartInQDepth, NoByte)
  /\ TIE = FALSE /\ TE = TRUE /\ RE = TRUE
  /\ txD = NoByte /\ rxD = NoByte
  /\ bytes = [p \in Writers |-> 0] /\ cr = [p \in Writers |-> FALSE]
  /\ savedC2 = [p \in Closers |-> "none"]
  /\ written = <<>> /\ line = <<>> /\ typed = 0 /\ accepted = <<>> /\ received = <<>>

Next ==
  \/ \E p \in Writers : writeUart(p)
  \/ \E p \in Readers : readUart(p)
  \/ \E p \in Closers : k70UartDisableRead(p) \/ k70UartDisableWrite(p)
  \/ k70UartInterrupt \/ transmit \/ arrive

Spec == Init /\ [][Next]_vars

(* The scheduler gives every writer its turn (see Sched), interrupts are
   taken, and the transmitter sends what it was given.  Nothing is assumed
   of readers, closers and the one who types. *)
Fairness ==
  /\ \A p \in Writers : WF_vars(writeUart(p))
  /\ WF_vars(k70UartInterrupt) /\ WF_vars(transmit)

FairSpec == Spec /\ Fairness
-----------------------------------------------------------------------------
(* The bytes taken from outQ: sent, or in the data register. *)
transmitted == IF txD = NoByte THEN line ELSE Append(line, txD)

bytesReceived == [i \in DOMAIN received |-> received[i][2]]

(* outQ, driven by the writers at one end and the interrupt handler at the
   other, is a bounded channel: no byte is lost, doubled or overtaken
   between k70UartPutc and the data register. *)
Output == INSTANCE Channel WITH
  Byte <- OutByte, Capacity <- uartOutQDepth, put <- written, got <- transmitted
OutputChannel == Output!Spec

(* So is inQ, between the handler and k70UartGetc. *)
Input == INSTANCE Channel WITH
  Byte <- InByte, Capacity <- uartInQDepth, put <- accepted, got <- bytesReceived
InputChannel == Input!Spec

(* While the transmitter is on, bytes never sit in outQ with the transmit
   interrupt off, when nothing would ever take them out: the handler, which
   turns it off, and k70UartPutc, which turns it on, never miss each other. *)
QueuedIsTransmitted == TE /\ ~outQ.isEmpty => TIE

(* What is typed is read in the order it was typed and at most once, however
   many processes read, and ctrl-C and ctrl-Z reach no reader. *)
TypedInOrder ==
  LET inputs == bytesReceived \o contentsFifoQ(inQ) IN
  /\ \A i, j \in DOMAIN inputs : i < j => inputs[i][1] < inputs[j][1]
  /\ rxD # NoByte => \A i \in DOMAIN inputs : inputs[i][1] < rxD[1]

(* Of the first n bytes of s, how many are p's; how many are newlines. *)
bytesOf(s, n, p) == Cardinality({i \in 1..n : s[i][1] = p})
newlines(m, n)   == Cardinality({i \in 1..n : m[i] = "nl"})

(* The k-th byte that a write of m sends is c: m[i] goes behind the bytes
   before it and one '\r' for each '\n' as far as i. *)
sends(m, k, c) == \E i \in DOMAIN m :
  \/ c = m[i] /\ k = i + newlines(m, i)
  \/ c = "cr" /\ m[i] = "nl" /\ k = i + newlines(m, i) - 1

(* Whatever the writers' interleaving, the bytes of one write() are sent in
   its order, each once, with one '\r' before each '\n' (writeUart). *)
LineCarriesMessages == \A i \in DOMAIN line :
  LET p == line[i][1] IN sends(Message[p], bytesOf(line, i, p), line[i][2])
=============================================================================
