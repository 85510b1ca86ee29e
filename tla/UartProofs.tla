----------------------------- MODULE UartProofs -----------------------------
(***************************************************************************)
(* Proofs about the console: each of its two queues, for every depth, is   *)
(* the bounded channel of module Channel, and the transmit interrupt is on *)
(* whenever bytes wait for it.  What is typed is read in order, and what a *)
(* process writes is sent in order, however the others interleave.         *)
(***************************************************************************)
EXTENDS Uart, FiniteSetTheorems, TLAPS

(* Offsets stay in the ring, and wrap at its end. *)
LEMMA RingIndex ==
  ASSUME NEW size \in Nat \ {0}, NEW a \in 0..(size - 1), NEW b \in 0..size
  PROVE  /\ (a + b) % size = IF a + b < size THEN a + b ELSE a + b - size
         /\ (a + b) % size \in 0..(size - 1)
  BY SMT

(* A queue holds no more bytes than its depth; it is full when it holds that
   many and empty when it holds none. *)
LEMMA CountBounds ==
  ASSUME NEW size \in Nat \ {0}, NEW B, NEW q \in FifoQs(size, B)
  PROVE  /\ countFifoQ(q) \in 0..size
         /\ isFullFifoQ(q) <=> countFifoQ(q) = size
         /\ q.isEmpty <=> countFifoQ(q) = 0
  BY DEF FifoQs, countFifoQ, isFullFifoQ

(* enqueueFifoQ() puts one byte behind the ones the queue holds. *)
LEMMA Enqueue ==
  ASSUME NEW size \in Nat \ {0}, NEW B, NEW S, S \subseteq B, NEW q \in FifoQs(size, B),
         NEW put \in Seq(S), NEW got \in Seq(S), Between(q, put, got),
         ~isFullFifoQ(q), NEW c \in S
  PROVE  /\ enqueueFifoQ(q, c) \in FifoQs(size, B)
         /\ ~enqueueFifoQ(q, c).isEmpty
         /\ Between(enqueueFifoQ(q, c), Append(put, c), got)
         /\ Len(put) - Len(got) < size
<1>1. /\ q.readOffset \in 0..(size - 1) /\ q.writeOffset \in 0..(size - 1)
      /\ q.size = size /\ q.buf \in [0..(size - 1) -> B] /\ q.isEmpty \in BOOLEAN
  BY DEF FifoQs
<1>2. PICK a \in 0..(size - 1), w \in 0..(size - 1) : a = q.readOffset /\ w = q.writeOffset
  BY <1>1
<1>3. PICK n \in 0..size : n = countFifoQ(q) /\ n # size
  BY CountBounds
<1>4. PICK next \in 0..(size - 1) :
        next = (w + 1) % size /\ next = IF w + 1 < size THEN w + 1 ELSE 0
  <2>1. 1 \in 0..size
    OBVIOUS
  <2>2. /\ (w + 1) % size = IF w + 1 < size THEN w + 1 ELSE w + 1 - size
        /\ (w + 1) % size \in 0..(size - 1)
    BY <2>1, RingIndex
  <2>3. ~(w + 1 < size) => w + 1 - size = 0
    OBVIOUS
  <2> QED BY <2>2, <2>3
<1>5. PICK r : r = enqueueFifoQ(q, c)
  OBVIOUS
<1>6. /\ r.isEmpty = FALSE /\ r.readOffset = a /\ r.writeOffset = next /\ r.size = size
      /\ r.buf = [q.buf EXCEPT ![w] = c]
  BY <1>1, <1>2, <1>4, <1>5 DEF enqueueFifoQ
<1>7. r \in FifoQs(size, B)
  BY <1>1, <1>2, <1>4, <1>5 DEF enqueueFifoQ, FifoQs
<1>8. n = IF q.isEmpty THEN 0 ELSE IF a < w THEN w - a ELSE w - a + size
  BY <1>1, <1>2, <1>3 DEF countFifoQ
<1>9. (q.isEmpty => a = w) /\ (~q.isEmpty => a # w)
  BY <1>2 DEF Between, isFullFifoQ
<1>10. countFifoQ(r) = n + 1
  <2>1. countFifoQ(r) = IF a < next THEN next - a ELSE next - a + size
    BY <1>6 DEF countFifoQ
  <2> QED BY <1>4, <1>8, <1>9, <2>1
<1>11. (a + n) % size = w
  <2>1. (a + n) % size = IF a + n < size THEN a + n ELSE a + n - size
    BY RingIndex
  <2> QED BY <1>3, <1>8, <1>9, <2>1
<1>12. Len(put) = Len(got) + n /\ Len(put) \in Nat /\ Len(got) \in Nat
  BY <1>3 DEF Between
<1>13. ASSUME NEW i \in 1..(n + 1)
       PROVE  Append(put, c)[Len(got) + i] = r.buf[(a + i - 1) % size]
  <2>1. CASE i = n + 1
    <3>1. Append(put, c)[Len(got) + i] = c
      BY <1>12, <2>1
    <3>2. r.buf[w] = c
      BY <1>1, <1>6
    <3>3. a + i - 1 = a + n
      BY <2>1
    <3> QED BY <1>11, <3>1, <3>2, <3>3
  <2>2. CASE i # n + 1
    <3>1. i \in 1..n
      BY <2>2
    <3>2. Append(put, c)[Len(got) + i] = put[Len(got) + i]
      BY <1>12, <3>1
    <3>3. put[Len(got) + i] = q.buf[(a + i - 1) % size]
      BY <1>1, <1>2, <1>3, <3>1 DEF Between
    <3>4. PICK j \in 0..(size - 1) : j = i - 1
      BY <3>1
    <3>5. PICK k \in 0..(size - 1) :
            k = (a + j) % size /\ k = IF a + j < size THEN a + j ELSE a + j - size
      <4>1. j \in 0..size
        OBVIOUS
      <4> QED BY <4>1, RingIndex
    <3>6. k # w
      BY <1>8, <1>9, <3>1, <3>4, <3>5
    <3>7. r.buf[k] = q.buf[k]
      BY <1>1, <1>6, <3>6
    <3>8. a + i - 1 = a + j
      BY <3>4
    <3> QED BY <3>2, <3>3, <3>5, <3>7, <3>8
  <2> QED BY <2>1, <2>2
<1>14. Len(Append(put, c)) = Len(got) + countFifoQ(r)
  BY <1>10, <1>12
<1>15. Between(r, Append(put, c), got)
  BY <1>6, <1>10, <1>13, <1>14 DEF Between
<1> QED BY <1>5, <1>6, <1>7, <1>12, <1>3, <1>15

(* dequeueFifoQ() takes out the byte that was put in first. *)
LEMMA Dequeue ==
  ASSUME NEW size \in Nat \ {0}, NEW B, NEW S, S \subseteq B, NEW q \in FifoQs(size, B),
         NEW put \in Seq(S), NEW got \in Seq(S), Between(q, put, got), ~q.isEmpty
  PROVE  /\ dequeueFifoQ(q) \in FifoQs(size, B)
         /\ Len(got) < Len(put)
         /\ frontFifoQ(q) = put[Len(got) + 1]
         /\ frontFifoQ(q) \in S
         /\ Between(dequeueFifoQ(q), put, Append(got, frontFifoQ(q)))
<1>1. /\ q.readOffset \in 0..(size - 1) /\ q.writeOffset \in 0..(size - 1)
      /\ q.size = size /\ q.buf \in [0..(size - 1) -> B]
  BY DEF FifoQs
<1>2. PICK a \in 0..(size - 1), w \in 0..(size - 1) : a = q.readOffset /\ w = q.writeOffset
  BY <1>1
<1>3. PICK n \in 1..size : n = countFifoQ(q)
  BY CountBounds
<1>4. PICK next \in 0..(size - 1) :
        next = (a + 1) % size /\ next = IF a + 1 < size THEN a + 1 ELSE 0
  <2>1. 1 \in 0..size
    OBVIOUS
  <2>2. /\ (a + 1) % size = IF a + 1 < size THEN a + 1 ELSE a + 1 - size
        /\ (a + 1) % size \in 0..(size - 1)
    BY <2>1, RingIndex
  <2>3. ~(a + 1 < size) => a + 1 - size = 0
    OBVIOUS
  <2> QED BY <2>2, <2>3
<1>5. PICK r : r = dequeueFifoQ(q)
  OBVIOUS
<1>6. /\ r.isEmpty = (next = w) /\ r.readOffset = next /\ r.writeOffset = w
      /\ r.size = size /\ r.buf = q.buf
  BY <1>1, <1>2, <1>4, <1>5 DEF dequeueFifoQ
<1>7. r \in FifoQs(size, B)
  BY <1>1, <1>2, <1>4, <1>5 DEF dequeueFifoQ, FifoQs
<1>8. n = IF a < w THEN w - a ELSE w - a + size
  BY <1>1, <1>2, <1>3 DEF countFifoQ
<1>9. countFifoQ(r) = n - 1
  <2>1. countFifoQ(r) = IF next = w THEN 0 ELSE IF next < w THEN w - next ELSE w - next + size
    BY <1>6 DEF countFifoQ
  <2> QED BY <1>4, <1>8, <2>1
<1>10. Len(put) = Len(got) + n /\ Len(put) \in Nat /\ Len(got) \in Nat
  BY <1>3 DEF Between
<1>11. ASSUME NEW i \in 1..n
       PROVE  put[Len(got) + i] = q.buf[(a + i - 1) % size]
  BY <1>1, <1>2, <1>3 DEF Between
<1>12. frontFifoQ(q) = put[Len(got) + 1] /\ frontFifoQ(q) \in S
  <2>1. a + 1 - 1 = a + 0 /\ 0 \in 0..size /\ a + 0 = a
    OBVIOUS
  <2>4. (a + 0) % size = a
    <3>1. a % size = a
      OBVIOUS
    <3> QED BY <2>1, <3>1
  <2>2. put[Len(got) + 1] = q.buf[a]
    BY <1>11, <2>1, <2>4
  <2>3. Len(got) + 1 \in 1..Len(put)
    BY <1>10
  <2> QED BY <1>2, <2>2, <2>3 DEF frontFifoQ
<1>13. PICK more \in Seq(S) : more = Append(got, frontFifoQ(q)) /\ Len(more) = Len(got) + 1
  <2>1. frontFifoQ(q) \in S
    BY <1>12
  <2>2. \A x \in S : Append(got, x) \in Seq(S) /\ Len(Append(got, x)) = Len(got) + 1
    OBVIOUS
  <2> QED BY <2>1, <2>2
<1>14. ASSUME NEW i \in 1..(n - 1)
       PROVE  put[Len(more) + i] = r.buf[(next + i - 1) % size]
  <2>1. PICK j \in 1..n : j = i + 1
    OBVIOUS
  <2>2. put[Len(got) + j] = q.buf[(a + j - 1) % size]
    BY <1>11
  <2>3. Len(more) + i = Len(got) + j /\ a + j - 1 = a + i
    BY <1>10, <1>13, <2>1
  <2>4. PICK k \in 0..size : k = i - 1 /\ next + i - 1 = next + k
    OBVIOUS
  <2>5. (a + i) % size = IF a + i < size THEN a + i ELSE a + i - size
    BY i \in 0..size, RingIndex
  <2>6. (next + k) % size = IF next + k < size THEN next + k ELSE next + k - size
    BY RingIndex
  <2>7. (a + i) % size = (next + k) % size
    <3>1. CASE a + 1 < size
      <4>1. next = IF a + 1 < size THEN a + 1 ELSE 0
        BY <1>4
      <4>2. next = a + 1
        BY <3>1, <4>1
      <4>3. k = i - 1 /\ k \in Int /\ i \in Int /\ a \in Int
        BY <2>4
      <4>4. a + i = next + k
        BY <4>2, <4>3
      <4> QED BY <4>4
    <3>2. CASE ~(a + 1 < size)
      BY <1>4, <2>4, <2>5, <2>6, <3>2
    <3> QED BY <3>1, <3>2
  <2> QED BY <1>6, <2>2, <2>3, <2>4, <2>7
<1>15. Between(r, put, more)
  <2>1. Len(put) = Len(more) + countFifoQ(r)
    BY <1>9, <1>10, <1>13
  <2>2. r.isEmpty => r.readOffset = r.writeOffset
    BY <1>6
  <2> QED BY <1>6, <1>9, <1>14, <2>1, <2>2 DEF Between
<1>16. Len(got) < Len(put)
  BY <1>10
<1> QED BY <1>5, <1>7, <1>12, <1>13, <1>15, <1>16
-----------------------------------------------------------------------------
(* What makes the properties inductive: between each two ends of a queue are
   exactly the bytes the ring holds. *)
IInv ==
  /\ TypeOK
  /\ QueuedIsTransmitted
  /\ Between(outQ, written, transmitted)
  /\ Between(inQ, accepted, bytesReceived)

(* An empty data register is not a byte. *)
LEMMA NoByteIsNone == NoByte \notin OutByte /\ NoByte \notin RxByte
  BY DEF NoByte, OutByte, RxByte

(* The bytes read are a sequence. *)
LEMMA BytesReceivedSeq ==
  ASSUME received \in Seq(Readers \X InByte)
  PROVE  bytesReceived \in Seq(InByte) /\ Len(bytesReceived) = Len(received)
<1>1. \A i \in 1..Len(received) : received[i][2] \in InByte
  OBVIOUS
<1> QED BY <1>1 DEF bytesReceived

(* A read adds its byte at the end of the bytes read. *)
LEMMA BytesReceivedAppend ==
  ASSUME received \in Seq(Readers \X InByte), NEW p \in Readers, NEW b \in InByte,
         received' = Append(received, <<p, b>>)
  PROVE  bytesReceived' = Append(bytesReceived, b)
<1>1. /\ received' \in Seq(Readers \X InByte) /\ Len(received') = Len(received) + 1
      /\ \A i \in 1..Len(received) : received'[i] = received[i]
      /\ received'[Len(received) + 1] = <<p, b>>
  OBVIOUS
<1>2. /\ bytesReceived' = [i \in 1..(Len(received) + 1) |-> received'[i][2]]
      /\ bytesReceived = [i \in 1..Len(received) |-> received[i][2]]
      /\ Len(received) \in Nat
  BY <1>1 DEF bytesReceived
<1>3. bytesReceived \in Seq(InByte) /\ Len(bytesReceived) = Len(received)
  BY BytesReceivedSeq
<1>4. /\ Append(bytesReceived, b) = [i \in 1..(Len(received) + 1) |->
                                   IF i = Len(received) + 1 THEN b ELSE bytesReceived[i]]
  BY <1>2, <1>3
<1> QED BY <1>1, <1>2, <1>4

(* What was taken from outQ is a sequence of bytes. *)
LEMMA TransmittedSeq ==
  ASSUME TypeOK
  PROVE  transmitted \in Seq(OutByte)
  BY NoByteIsNone DEF TypeOK, transmitted

(* The queues are empty when the console is powered on. *)
LEMMA InitIInv == Init => IInv
<1> SUFFICES ASSUME Init PROVE IInv
  OBVIOUS
<1> USE UartAssumption
<1>1. TypeOK
  <2>1. ASSUME NEW size \in Nat \ {0}, NEW B
        PROVE  newFifoQ(size, NoByte) \in FifoQs(size, B \cup {NoByte})
    BY DEF newFifoQ, clearFifoQ, FifoQs
  <2>2. /\ outQ \in FifoQs(uartOutQDepth, OutByte \cup {NoByte})
        /\ inQ \in FifoQs(uartInQDepth, InByte \cup {NoByte})
    BY <2>1 DEF Init
  <2>3. /\ bytes \in [Writers -> Nat] /\ cr \in [Writers -> BOOLEAN]
        /\ savedC2 \in [Closers -> {"none", "on", "off", "closed"}]
        /\ typed \in 0..MaxTyped
    BY DEF Init
  <2>4. /\ TIE \in BOOLEAN /\ TE \in BOOLEAN /\ RE \in BOOLEAN
        /\ txD \in OutByte \cup {NoByte} /\ rxD \in RxByte \cup {NoByte}
    BY DEF Init
  <2>5. /\ written \in Seq(OutByte) /\ line \in Seq(OutByte)
        /\ accepted \in Seq(InByte) /\ received \in Seq(Readers \X InByte)
    BY DEF Init
  <2> QED BY <2>2, <2>3, <2>4, <2>5 DEF TypeOK
<1>2. QueuedIsTransmitted
  BY DEF Init, QueuedIsTransmitted, newFifoQ, clearFifoQ
<1>3. transmitted = <<>> /\ bytesReceived = <<>>
  BY DEF Init, transmitted, bytesReceived
<1>4. Between(outQ, written, transmitted)
  BY <1>3 DEF Init, Between, newFifoQ, clearFifoQ, countFifoQ
<1>5. Between(inQ, accepted, bytesReceived)
  BY <1>3 DEF Init, Between, newFifoQ, clearFifoQ, countFifoQ
<1> QED BY <1>1, <1>2, <1>4, <1>5 DEF IInv

(* Every action of the console preserves it. *)
LEMMA NextIInv == IInv /\ [Next]_vars => IInv'
<1> SUFFICES ASSUME IInv, [Next]_vars PROVE IInv'
  OBVIOUS
<1> USE UartAssumption
<1> DEFINE OutB == OutByte \cup {NoByte}
           InB == InByte \cup {NoByte}
<1>1. /\ TypeOK /\ QueuedIsTransmitted
      /\ Between(outQ, written, transmitted)
      /\ Between(inQ, accepted, bytesReceived)
      /\ outQ \in FifoQs(uartOutQDepth, OutB) /\ inQ \in FifoQs(uartInQDepth, InB)
      /\ transmitted \in Seq(OutByte) /\ bytesReceived \in Seq(InByte)
      /\ written \in Seq(OutByte) /\ accepted \in Seq(InByte)
  BY TransmittedSeq, BytesReceivedSeq DEF IInv, TypeOK
<1>2. ASSUME NEW p \in Writers, writeUart(p) PROVE IInv'
  <2>1. PICK c \in OutByte :
          /\ k70UartPutc(c)
          /\ bytes' \in [Writers -> Nat] /\ cr' \in [Writers -> BOOLEAN]
    <3>1. Message[p][bytes[p] + 1] \in {"nl", "char"}
      BY <1>1, <1>2 DEF TypeOK, writeUart
    <3>2. <<p, "cr">> \in OutByte /\ <<p, Message[p][bytes[p] + 1]>> \in OutByte
      BY <3>1 DEF OutByte
    <3>3. CASE Message[p][bytes[p] + 1] = "nl" /\ ~cr[p]
      <4>1. /\ k70UartPutc(<<p, "cr">>)
            /\ cr' = [cr EXCEPT ![p] = TRUE] /\ bytes' = bytes
        BY <1>2, <3>3 DEF writeUart
      <4> QED BY <1>1, <3>2, <4>1 DEF TypeOK
    <3>4. CASE ~(Message[p][bytes[p] + 1] = "nl" /\ ~cr[p])
      <4>1. /\ k70UartPutc(<<p, Message[p][bytes[p] + 1]>>)
            /\ cr' = [cr EXCEPT ![p] = FALSE] /\ bytes' = [bytes EXCEPT ![p] = @ + 1]
        BY <1>2, <3>4 DEF writeUart
      <4>2. bytes' \in [Writers -> Nat] /\ cr' \in [Writers -> BOOLEAN]
        BY <1>1, <4>1 DEF TypeOK
      <4> QED BY <3>2, <4>1, <4>2
    <3> QED BY <3>3, <3>4
  <2>2. /\ outQ' \in FifoQs(uartOutQDepth, OutB) /\ ~outQ'.isEmpty
        /\ Between(outQ', written', transmitted)
    BY <1>1, <2>1, Enqueue DEF k70UartPutc
  <2>3. transmitted' = transmitted /\ bytesReceived' = bytesReceived
    BY <1>2 DEF writeUart, transmitted, bytesReceived
  <2>4. TypeOK'
    BY <1>1, <1>2, <2>1, <2>2, SMTT(30) DEF TypeOK, writeUart, k70UartPutc
  <2>5. QueuedIsTransmitted'
    BY <2>1 DEF k70UartPutc, QueuedIsTransmitted
  <2>6. Between(inQ, accepted, bytesReceived)'
    BY <1>1, <1>2, <2>3 DEF writeUart
  <2> QED BY <2>2, <2>3, <2>4, <2>5, <2>6 DEF IInv
<1>3. ASSUME NEW p \in Readers, readUart(p) PROVE IInv'
  <2>1. /\ dequeueFifoQ(inQ) \in FifoQs(uartInQDepth, InB)
        /\ frontFifoQ(inQ) \in InByte
        /\ Between(dequeueFifoQ(inQ), accepted, Append(bytesReceived, frontFifoQ(inQ)))
    BY <1>1, <1>3, Dequeue DEF readUart
  <2>2. bytesReceived' = Append(bytesReceived, frontFifoQ(inQ))
    BY <1>1, <1>3, <2>1, BytesReceivedAppend DEF TypeOK, readUart
  <2>3. Between(inQ, accepted, bytesReceived)'
    BY <1>3, <2>1, <2>2 DEF readUart
  <2>4. received' \in Seq(Readers \X InByte)
    BY <1>1, <1>3, <2>1 DEF TypeOK, readUart
  <2>5. TypeOK'
    BY <1>1, <1>3, <2>1, <2>4 DEF TypeOK, readUart, regs, procs
  <2>6. QueuedIsTransmitted' /\ Between(outQ, written, transmitted)'
    BY <1>1, <1>3 DEF readUart, QueuedIsTransmitted, transmitted, regs
  <2> QED BY <2>3, <2>5, <2>6 DEF IInv
<1>4. ASSUME NEW p \in Closers, k70UartDisableRead(p) \/ k70UartDisableWrite(p) PROVE IInv'
  <2>1. UNCHANGED <<queues, txD, rxD, bytes, cr, logs>>
    BY <1>4 DEF k70UartDisableRead, k70UartDisableWrite, regs
  <2>2. TypeOK'
    BY <1>1, <1>4, <2>1
       DEF TypeOK, k70UartDisableRead, k70UartDisableWrite, queues, regs, logs
  <2>3. QueuedIsTransmitted'
    BY <1>1, <1>4, <2>1 DEF QueuedIsTransmitted, k70UartDisableRead, k70UartDisableWrite,
                            queues, regs
  <2>4. Between(outQ, written, transmitted)' /\ Between(inQ, accepted, bytesReceived)'
    BY <1>1, <2>1 DEF transmitted, bytesReceived, queues, logs
  <2> QED BY <2>2, <2>3, <2>4 DEF IInv
<1>5. CASE k70UartInterrupt
  <2>1. /\ outQ' \in FifoQs(uartOutQDepth, OutB) /\ txD' \in OutB /\ TIE' \in BOOLEAN
        /\ Between(outQ', written', transmitted')
        /\ QueuedIsTransmitted'
    <3>1. CASE TIE /\ txD = NoByte /\ ~outQ.isEmpty
      <4>1. /\ dequeueFifoQ(outQ) \in FifoQs(uartOutQDepth, OutB)
            /\ frontFifoQ(outQ) \in OutByte
            /\ Between(dequeueFifoQ(outQ), written, Append(transmitted, frontFifoQ(outQ)))
        BY <1>1, <3>1, Dequeue
      <4>2. /\ outQ' = dequeueFifoQ(outQ) /\ txD' = frontFifoQ(outQ) /\ TIE' = ~outQ'.isEmpty
            /\ written' = written /\ line' = line
        BY <1>5, <3>1 DEF k70UartInterrupt, interruptTx
      <4>3. transmitted' = Append(transmitted, frontFifoQ(outQ))
        BY <3>1, <4>1, <4>2, NoByteIsNone DEF transmitted
      <4> QED BY <4>1, <4>2, <4>3 DEF QueuedIsTransmitted
    <3>2. CASE ~(TIE /\ txD = NoByte /\ ~outQ.isEmpty)
      <4>1. UNCHANGED <<TE, written, line>>
        BY <1>5 DEF k70UartInterrupt
      <4>2. UNCHANGED <<outQ, txD>> /\ (UNCHANGED TIE \/ (~TIE' /\ TIE' \in BOOLEAN /\ outQ.isEmpty))
        BY <1>5, <3>2 DEF k70UartInterrupt, interruptTx
      <4> QED BY <1>1, <4>1, <4>2 DEF TypeOK, QueuedIsTransmitted, transmitted
    <3> QED BY <3>1, <3>2
  <2>2. /\ inQ' \in FifoQs(uartInQDepth, InB) /\ rxD' \in RxByte \cup {NoByte}
        /\ accepted' \in Seq(InByte) /\ received' = received
        /\ Between(inQ', accepted', bytesReceived')
    <3>1. received' = received /\ bytesReceived' = bytesReceived
      BY <1>5 DEF k70UartInterrupt, bytesReceived
    <3>2. CASE rxD # NoByte /\ rxD[2] \in {"char", "ctrlD"} /\ ~isFullFifoQ(inQ)
      <4>1. queued(rxD) \in InByte
        BY <1>1, <3>2 DEF TypeOK, RxByte, InByte, queued
      <4>2. /\ inQ' = enqueueFifoQ(inQ, queued(rxD))
            /\ accepted' = Append(accepted, queued(rxD)) /\ rxD' = NoByte
        BY <1>5, <3>2 DEF k70UartInterrupt, interruptRx
      <4>3. /\ enqueueFifoQ(inQ, queued(rxD)) \in FifoQs(uartInQDepth, InB)
            /\ Between(enqueueFifoQ(inQ, queued(rxD)), Append(accepted, queued(rxD)), bytesReceived)
        BY <1>1, <3>2, <4>1, Enqueue
      <4>4. Append(accepted, queued(rxD)) \in Seq(InByte)
        BY <1>1, <4>1
      <4> QED BY <3>1, <4>2, <4>3, <4>4
    <3>3. CASE ~(rxD # NoByte /\ rxD[2] \in {"char", "ctrlD"} /\ ~isFullFifoQ(inQ))
      <4>1. UNCHANGED <<inQ, accepted>> /\ rxD' \in {rxD, NoByte}
        BY <1>5, <3>3 DEF k70UartInterrupt, interruptRx
      <4> QED BY <1>1, <3>1, <4>1 DEF TypeOK
    <3> QED BY <3>2, <3>3
  <2>3. TypeOK'
    BY <1>1, <1>5, <2>1, <2>2 DEF TypeOK, k70UartInterrupt, procs
  <2> QED BY <2>1, <2>2, <2>3 DEF IInv
<1>6. CASE transmit
  <2>1. /\ UNCHANGED <<queues, TIE, TE, RE, rxD, procs, written, typed, accepted, received>>
        /\ line' = Append(line, txD) /\ txD' = NoByte /\ txD \in OutByte
    BY <1>1, <1>6 DEF transmit, TypeOK
  <2>2. transmitted' = transmitted /\ bytesReceived' = bytesReceived
    BY <2>1, NoByteIsNone DEF transmitted, bytesReceived
  <2>3. TypeOK'
    BY <1>1, <2>1 DEF TypeOK, queues, procs
  <2> QED BY <1>1, <2>1, <2>2, <2>3 DEF IInv, QueuedIsTransmitted, queues
<1>7. CASE arrive
  <2>1. UNCHANGED <<queues, TIE, TE, RE, txD, procs, written, line, accepted, received>>
    BY <1>7 DEF arrive
  <2>2. typed' \in 0..MaxTyped /\ rxD' \in RxByte \cup {NoByte}
    BY <1>1, <1>7 DEF arrive, TypeOK, RxByte
  <2>3. TypeOK'
    BY <1>1, <2>1, <2>2 DEF TypeOK, queues, procs
  <2> QED BY <1>1, <2>1, <2>3 DEF IInv, QueuedIsTransmitted, transmitted, bytesReceived, queues
<1>8. CASE UNCHANGED vars
  BY <1>1, <1>8 DEF IInv, TypeOK, QueuedIsTransmitted, transmitted, bytesReceived, vars,
                    queues, regs, procs, logs
<1> QED BY <1>2, <1>3, <1>4, <1>5, <1>6, <1>7, <1>8 DEF Next

(* For all depths of the queues and all messages, the offsets stay in their
   rings and every field keeps its type. *)
THEOREM TypeCorrect == Spec => []TypeOK
<1>1. IInv => TypeOK
  BY DEF IInv
<1> QED BY <1>1, InitIInv, NextIInv, PTL DEF Spec

(* For all depths, a byte in outQ has the transmit interrupt on for as long
   as the transmitter is. *)
THEOREM NoStrandedOutput == Spec => []QueuedIsTransmitted
<1>1. IInv => QueuedIsTransmitted
  BY DEF IInv
<1> QED BY <1>1, InitIInv, NextIInv, PTL DEF Spec

(* For every depth, outQ between k70UartPutc and the data register is a
   bounded channel: nothing is lost, doubled or overtaken. *)
THEOREM OutputRefinesChannel == Spec => OutputChannel
<1> USE UartAssumption
<1>1. Init => Output!Init
  BY DEF Init, Output!Init, transmitted
<1>2. IInv /\ [Next]_vars => [Output!Next]_(Output!vars)
  <2> SUFFICES ASSUME IInv, [Next]_vars PROVE Output!Next \/ UNCHANGED Output!vars
    OBVIOUS
  <2>1. /\ TypeOK /\ Between(outQ, written, transmitted)
        /\ outQ \in FifoQs(uartOutQDepth, OutByte \cup {NoByte})
        /\ transmitted \in Seq(OutByte) /\ written \in Seq(OutByte)
    BY TransmittedSeq DEF IInv, TypeOK
  <2>2. ASSUME NEW p \in Writers, writeUart(p) PROVE Output!Next
    <3>1. PICK c \in OutByte : k70UartPutc(c)
      <4>1. Message[p][bytes[p] + 1] \in {"nl", "char"}
        BY <2>1, <2>2 DEF TypeOK, writeUart
      <4>2. <<p, "cr">> \in OutByte /\ <<p, Message[p][bytes[p] + 1]>> \in OutByte
        BY <4>1 DEF OutByte
      <4> QED BY <2>2, <4>2 DEF writeUart
    <3>2. Len(written) - Len(transmitted) < uartOutQDepth
      BY <2>1, <3>1, Enqueue DEF k70UartPutc
    <3>3. transmitted' = transmitted /\ written' = Append(written, c)
      BY <2>2, <3>1 DEF writeUart, k70UartPutc, transmitted
    <3> QED BY <3>2, <3>3 DEF Output!Next, Output!Put
  <2>3. ASSUME k70UartInterrupt PROVE Output!Next \/ UNCHANGED Output!vars
    <3>1. CASE TIE /\ txD = NoByte /\ ~outQ.isEmpty
      <4>1. /\ Len(transmitted) < Len(written)
            /\ frontFifoQ(outQ) = written[Len(transmitted) + 1]
            /\ frontFifoQ(outQ) \in OutByte
        BY <2>1, <3>1, Dequeue, SMTT(30)
      <4>2. txD' = frontFifoQ(outQ) /\ written' = written /\ line' = line
        BY <2>3, <3>1 DEF k70UartInterrupt, interruptTx
      <4>3. transmitted' = Append(transmitted, frontFifoQ(outQ))
        BY <3>1, <4>1, <4>2, NoByteIsNone DEF transmitted
      <4> QED BY <4>1, <4>2, <4>3 DEF Output!Next, Output!Get
    <3>2. CASE ~(TIE /\ txD = NoByte /\ ~outQ.isEmpty)
      <4>1. UNCHANGED <<written, line>>
        BY <2>3 DEF k70UartInterrupt
      <4>2. UNCHANGED txD
        BY <2>3, <3>2 DEF k70UartInterrupt, interruptTx
      <4> QED BY <4>1, <4>2 DEF Output!vars, transmitted
    <3> QED BY <3>1, <3>2
  <2>4. CASE transmit
    BY <2>1, <2>4, NoByteIsNone DEF transmit, TypeOK, transmitted, Output!vars
  <2>5. ASSUME NEW p \in Readers, readUart(p) PROVE UNCHANGED Output!vars
    BY <2>5 DEF readUart, transmitted, Output!vars, regs
  <2>6. ASSUME NEW p \in Closers, k70UartDisableRead(p) \/ k70UartDisableWrite(p)
        PROVE  UNCHANGED Output!vars
    BY <2>6 DEF k70UartDisableRead, k70UartDisableWrite, transmitted, Output!vars, regs, logs
  <2>7. CASE arrive
    BY <2>7 DEF arrive, transmitted, Output!vars
  <2>8. CASE UNCHANGED vars
    BY <2>8 DEF vars, regs, logs, transmitted, Output!vars
  <2> QED BY <2>2, <2>3, <2>4, <2>5, <2>6, <2>7, <2>8 DEF Next
<1> QED BY <1>1, <1>2, InitIInv, NextIInv, PTL DEF Spec, OutputChannel, Output!Spec

(* For every depth, so is inQ between the interrupt handler and k70UartGetc,
   with any number of readers. *)
THEOREM InputRefinesChannel == Spec => InputChannel
<1> USE UartAssumption
<1>1. Init => Input!Init
  BY DEF Init, Input!Init, bytesReceived
<1>2. IInv /\ [Next]_vars => [Input!Next]_(Input!vars)
  <2> SUFFICES ASSUME IInv, [Next]_vars PROVE Input!Next \/ UNCHANGED Input!vars
    OBVIOUS
  <2>1. /\ TypeOK /\ Between(inQ, accepted, bytesReceived)
        /\ inQ \in FifoQs(uartInQDepth, InByte \cup {NoByte})
        /\ bytesReceived \in Seq(InByte) /\ accepted \in Seq(InByte)
    BY BytesReceivedSeq DEF IInv, TypeOK
  <2>2. ASSUME NEW p \in Readers, readUart(p) PROVE Input!Next
    <3>1. /\ Len(bytesReceived) < Len(accepted)
          /\ frontFifoQ(inQ) = accepted[Len(bytesReceived) + 1]
          /\ frontFifoQ(inQ) \in InByte
      BY <2>1, <2>2, Dequeue DEF readUart
    <3>2. bytesReceived' = Append(bytesReceived, frontFifoQ(inQ)) /\ accepted' = accepted
      BY <2>1, <2>2, <3>1, BytesReceivedAppend DEF TypeOK, readUart
    <3> QED BY <3>1, <3>2 DEF Input!Next, Input!Get
  <2>3. ASSUME k70UartInterrupt PROVE Input!Next \/ UNCHANGED Input!vars
    <3>1. bytesReceived' = bytesReceived
      BY <2>3 DEF k70UartInterrupt, bytesReceived
    <3>2. CASE rxD # NoByte /\ rxD[2] \in {"char", "ctrlD"} /\ ~isFullFifoQ(inQ)
      <4>1. queued(rxD) \in InByte
        BY <2>1, <3>2 DEF TypeOK, RxByte, InByte, queued
      <4>2. accepted' = Append(accepted, queued(rxD))
        BY <2>3, <3>2 DEF k70UartInterrupt, interruptRx
      <4>3. Len(accepted) - Len(bytesReceived) < uartInQDepth
        BY <2>1, <3>2, <4>1, Enqueue
      <4> QED BY <3>1, <4>1, <4>2, <4>3 DEF Input!Next, Input!Put
    <3>3. CASE ~(rxD # NoByte /\ rxD[2] \in {"char", "ctrlD"} /\ ~isFullFifoQ(inQ))
      <4>1. UNCHANGED accepted
        BY <2>3, <3>3 DEF k70UartInterrupt, interruptRx
      <4> QED BY <3>1, <4>1 DEF Input!vars
    <3> QED BY <3>2, <3>3
  <2>4. ASSUME NEW p \in Writers, writeUart(p) PROVE UNCHANGED Input!vars
    BY <2>4 DEF writeUart, bytesReceived, Input!vars
  <2>5. ASSUME NEW p \in Closers, k70UartDisableRead(p) \/ k70UartDisableWrite(p)
        PROVE  UNCHANGED Input!vars
    BY <2>5 DEF k70UartDisableRead, k70UartDisableWrite, bytesReceived, Input!vars, logs
  <2>6. CASE transmit \/ arrive
    BY <2>6 DEF transmit, arrive, bytesReceived, Input!vars
  <2>7. CASE UNCHANGED vars
    BY <2>7 DEF vars, logs, bytesReceived, Input!vars
  <2> QED BY <2>2, <2>3, <2>4, <2>5, <2>6, <2>7 DEF Next
<1> QED BY <1>1, <1>2, InitIInv, NextIInv, PTL DEF Spec, InputChannel, Input!Spec
-----------------------------------------------------------------------------
(* The bytes read so far begin what the handler has queued, which was queued in
   the order of arrival; what is in the data register arrived after it. *)
OrderInv ==
  /\ \A i \in 1..Len(bytesReceived) : bytesReceived[i] = accepted[i]
  /\ \A i, j \in 1..Len(accepted) : i < j => accepted[i][1] < accepted[j][1]
  /\ \A i \in 1..Len(accepted) : accepted[i][1] <= typed
  /\ rxD # NoByte => /\ rxD[1] <= typed
                     /\ \A i \in 1..Len(accepted) : accepted[i][1] < rxD[1]

(* Nothing has arrived yet. *)
LEMMA InitOrderInv == Init => OrderInv
<1> SUFFICES ASSUME Init PROVE OrderInv
  OBVIOUS
<1>1. accepted = <<>> /\ bytesReceived = <<>> /\ rxD = NoByte
  BY DEF Init, bytesReceived
<1> QED BY <1>1 DEF OrderInv

(* A read takes the oldest byte that was queued; the handler queues the byte in
   the data register. *)
LEMMA NextOrderInv == IInv /\ OrderInv /\ [Next]_vars => OrderInv'
<1> SUFFICES ASSUME IInv, OrderInv, [Next]_vars PROVE OrderInv'
  OBVIOUS
<1> USE UartAssumption
<1>1. /\ TypeOK /\ Between(inQ, accepted, bytesReceived)
      /\ inQ \in FifoQs(uartInQDepth, InByte \cup {NoByte})
      /\ bytesReceived \in Seq(InByte) /\ accepted \in Seq(InByte)
      /\ rxD \in RxByte \cup {NoByte} /\ typed \in Nat
  BY BytesReceivedSeq DEF IInv, TypeOK
<1>2. \A i \in 1..Len(accepted) : accepted[i][1] \in Nat
  BY <1>1 DEF InByte
<1>3. ASSUME NEW p \in Readers, readUart(p) PROVE OrderInv'
  <2>1. /\ Len(bytesReceived) < Len(accepted)
        /\ frontFifoQ(inQ) = accepted[Len(bytesReceived) + 1]
        /\ frontFifoQ(inQ) \in InByte
    BY <1>1, <1>3, Dequeue DEF readUart
  <2>2. bytesReceived' = Append(bytesReceived, frontFifoQ(inQ))
    BY <1>1, <1>3, <2>1, BytesReceivedAppend DEF TypeOK, readUart
  <2>3. UNCHANGED <<accepted, rxD, typed>>
    BY <1>3 DEF readUart, regs
  <2>4. \A i \in 1..Len(bytesReceived') : bytesReceived'[i] = accepted[i]
    BY <1>1, <2>1, <2>2 DEF OrderInv
  <2> QED BY <2>3, <2>4 DEF OrderInv
<1>4. CASE k70UartInterrupt
  <2>1. UNCHANGED <<received, bytesReceived, typed>>
    BY <1>4 DEF k70UartInterrupt, bytesReceived
  <2>2. CASE rxD # NoByte /\ rxD[2] \in {"char", "ctrlD"} /\ ~isFullFifoQ(inQ)
    <3>1. accepted' = Append(accepted, queued(rxD)) /\ rxD' = NoByte
      BY <1>4, <2>2 DEF k70UartInterrupt, interruptRx
    <3>2. queued(rxD)[1] = rxD[1] /\ rxD[1] \in Nat /\ queued(rxD) \in InByte
      BY <1>1, <2>2 DEF queued, RxByte, InByte
    <3>3. /\ Len(accepted') = Len(accepted) + 1 /\ Len(accepted) \in Nat
          /\ \A i \in 1..Len(accepted) : accepted'[i] = accepted[i]
          /\ accepted'[Len(accepted) + 1] = queued(rxD)
      BY <1>1, <3>1, <3>2
    <3>4. Len(bytesReceived) <= Len(accepted) /\ Len(bytesReceived) \in Nat
      BY <1>1, CountBounds DEF Between
    <3>5. \A i, j \in 1..Len(accepted') : i < j => accepted'[i][1] < accepted'[j][1]
      <4> SUFFICES ASSUME NEW i \in 1..Len(accepted'), NEW j \in 1..Len(accepted'), i < j
                   PROVE  accepted'[i][1] < accepted'[j][1]
        OBVIOUS
      <4>1. i \in 1..Len(accepted) /\ accepted'[i] = accepted[i]
        BY <3>3
      <4>2. CASE j = Len(accepted) + 1
        BY <2>2, <3>2, <3>3, <4>1, <4>2 DEF OrderInv
      <4>3. CASE j # Len(accepted) + 1
        <5>1. j \in 1..Len(accepted) /\ accepted'[j] = accepted[j]
          <6>1. PICK n \in Nat : n = Len(accepted) /\ Len(accepted') = n + 1
            BY <3>3
          <6>2. j \in 1..n
            BY <4>3, <6>1
          <6> QED BY <3>3, <6>1, <6>2
        <5>2. accepted[i][1] < accepted[j][1]
          BY <4>1, <5>1 DEF OrderInv
        <5> QED BY <4>1, <5>1, <5>2
      <4> QED BY <4>2, <4>3
    <3>6. \A i \in 1..Len(accepted') : accepted'[i][1] <= typed
      BY <2>2, <3>2, <3>3 DEF OrderInv
    <3>7. \A i \in 1..Len(bytesReceived) : bytesReceived[i] = accepted'[i]
      BY <3>3, <3>4 DEF OrderInv
    <3> QED BY <2>1, <3>1, <3>5, <3>6, <3>7 DEF OrderInv
  <2>3. CASE ~(rxD # NoByte /\ rxD[2] \in {"char", "ctrlD"} /\ ~isFullFifoQ(inQ))
    <3>1. UNCHANGED accepted /\ rxD' \in {rxD, NoByte}
      BY <1>4, <2>3 DEF k70UartInterrupt, interruptRx
    <3> QED BY <2>1, <3>1 DEF OrderInv
  <2> QED BY <2>2, <2>3
<1>5. CASE arrive
  <2>1. /\ UNCHANGED <<received, bytesReceived, accepted>> /\ typed' = typed + 1
        /\ rxD = NoByte => rxD'[1] = typed + 1
        /\ rxD # NoByte => rxD' = rxD
    BY <1>5 DEF arrive, bytesReceived
  <2>2. rxD # NoByte => rxD[1] \in Nat
    BY <1>1 DEF RxByte
  <2>3. \A i \in 1..Len(accepted) : accepted[i][1] \in Nat /\ accepted[i][1] <= typed
    BY <1>2 DEF OrderInv
  <2>4. CASE rxD = NoByte
    <3>1. \A i \in 1..Len(accepted) : accepted[i][1] <= typed + 1 /\ accepted[i][1] < typed + 1
      BY <1>1, <2>3
    <3> QED BY <1>1, <2>1, <2>4, <3>1 DEF OrderInv
  <2>5. CASE rxD # NoByte
    <3>1. rxD[1] <= typed + 1 /\ \A i \in 1..Len(accepted) : accepted[i][1] <= typed + 1
      BY <1>1, <2>2, <2>3, <2>5 DEF OrderInv
    <3> QED BY <2>1, <2>5, <3>1 DEF OrderInv
  <2> QED BY <2>4, <2>5
<1>6. ASSUME UNCHANGED <<received, accepted, rxD, typed>> PROVE OrderInv'
  BY <1>6 DEF OrderInv, bytesReceived
<1>7. ASSUME NEW p \in Writers, writeUart(p) PROVE OrderInv'
  BY <1>6, <1>7 DEF writeUart
<1>8. ASSUME NEW p \in Closers, k70UartDisableRead(p) \/ k70UartDisableWrite(p) PROVE OrderInv'
  BY <1>6, <1>8 DEF k70UartDisableRead, k70UartDisableWrite, regs, logs
<1>9. CASE transmit \/ UNCHANGED vars
  BY <1>6, <1>9 DEF transmit, vars, regs, logs
<1> QED BY <1>3, <1>4, <1>5, <1>7, <1>8, <1>9 DEF Next

(* The length and the type of a concatenation. *)
LEMMA ConcatSeq ==
  ASSUME NEW S, NEW s \in Seq(S), NEW t \in Seq(S)
  PROVE  /\ s \o t \in Seq(S) /\ Len(s \o t) = Len(s) + Len(t)
         /\ Len(s) \in Nat /\ Len(t) \in Nat
  OBVIOUS

(* Two sequences that are as long and agree everywhere are one. *)
LEMMA SameSeq ==
  ASSUME NEW S, NEW s \in Seq(S), NEW t \in Seq(S), Len(s) = Len(t),
         \A i \in 1..Len(t) : s[i] = t[i]
  PROVE  s = t
  OBVIOUS

(* What was read and what is still in the ring is what was queued. *)
LEMMA InputsAreAccepted ==
  ASSUME IInv, OrderInv
  PROVE  bytesReceived \o contentsFifoQ(inQ) = accepted
<1> USE UartAssumption
<1> DEFINE r == bytesReceived
           c == contentsFifoQ(inQ)
           k == countFifoQ(inQ)
<1>1. /\ Between(inQ, accepted, r) /\ inQ \in FifoQs(uartInQDepth, InByte \cup {NoByte})
      /\ r \in Seq(InByte) /\ accepted \in Seq(InByte)
  BY BytesReceivedSeq DEF IInv, TypeOK
<1>2. k \in Nat
  BY <1>1, CountBounds
<1>3. /\ Len(accepted) = Len(r) + k /\ DOMAIN c = 1..k
      /\ \A i \in 1..k : c[i] = accepted[Len(r) + i]
  BY <1>1 DEF Between, contentsFifoQ
<1>4. \A i \in 1..Len(r) : r[i] = accepted[i]
  BY DEF OrderInv
<1>5. c = [i \in 1..k |-> accepted[Len(r) + i]]
  BY <1>3 DEF contentsFifoQ
<1> HIDE DEF k, r, c
<1>6. c \in Seq(InByte) /\ Len(c) = k
  <2>1. \A i \in 1..k : accepted[Len(r) + i] \in InByte
    BY <1>1, <1>2, <1>3
  <2> QED BY <1>2, <1>5, <2>1
<1>7. /\ r \o c \in Seq(InByte) /\ Len(r \o c) = Len(accepted)
      /\ Len(r) \in Nat /\ Len(accepted) \in Nat
  BY <1>1, <1>3, <1>6, ConcatSeq
<1>8. ASSUME NEW i \in 1..Len(accepted) PROVE (r \o c)[i] = accepted[i]
  <2>1. CASE i <= Len(r)
    BY <1>1, <1>4, <1>6, <2>1
  <2>2. CASE i > Len(r)
    <3>1. i - Len(r) \in 1..k /\ Len(r) + (i - Len(r)) = i
      BY <1>1, <1>2, <1>3, <2>2
    <3>2. (r \o c)[i] = c[i - Len(r)]
      BY <1>1, <1>3, <1>6, <2>2
    <3>3. c[i - Len(r)] = accepted[Len(r) + (i - Len(r))]
      BY <1>3, <3>1
    <3> QED BY <3>1, <3>2, <3>3
  <2> QED BY <1>7, <2>1, <2>2
<1>9. r \o c = accepted
  BY <1>1, <1>7, <1>8, SameSeq
<1> QED BY <1>9 DEF r, c

(* For every depth of inQ and any number of readers: what is typed is read in
   the order it was typed and at most once, and nothing overtakes the byte that
   is still in the data register. *)
THEOREM TypedIsReadInOrder == Spec => []TypedInOrder
<1>1. IInv /\ OrderInv => TypedInOrder
  <2> SUFFICES ASSUME IInv, OrderInv PROVE TypedInOrder
    OBVIOUS
  <2>1. bytesReceived \o contentsFifoQ(inQ) = accepted /\ DOMAIN accepted = 1..Len(accepted)
    BY InputsAreAccepted DEF IInv, TypeOK
  <2> QED BY <2>1 DEF OrderInv, TypedInOrder
<1> QED BY <1>1, InitIInv, NextIInv, InitOrderInv, NextOrderInv, PTL DEF Spec
-----------------------------------------------------------------------------
(* Counting the members of A among the first numbers: one more number. *)
LEMMA CountOneMore ==
  ASSUME NEW n \in Nat, NEW A \in SUBSET (1..n)
  PROVE  Cardinality(A) \in Nat /\ Cardinality(A \cup {n + 1}) = Cardinality(A) + 1
<1>1. IsFiniteSet(A)
  <2>1. IsFiniteSet(1..n)
    BY FS_Interval
  <2> QED BY <2>1, FS_Subset
<1>2. Cardinality(A) \in Nat
  BY <1>1, FS_CardinalityType
<1>3. n + 1 \notin A
  OBVIOUS
<1>4. Cardinality(A \cup {n + 1}) = Cardinality(A) + 1
  BY <1>1, <1>3, FS_AddElement
<1> QED BY <1>2, <1>4

(* The newlines among the first characters of a message. *)
LEMMA Newlines ==
  ASSUME NEW m, NEW n \in Nat
  PROVE  /\ newlines(m, n) \in Nat /\ newlines(m, 0) = 0
         /\ newlines(m, n + 1) = newlines(m, n) + IF m[n + 1] = "nl" THEN 1 ELSE 0
<1> DEFINE A == {i \in 1..n : m[i] = "nl"}
           B == {i \in 1..(n + 1) : m[i] = "nl"}
<1>1. A \in SUBSET (1..n)
  OBVIOUS
<1>2. B = IF m[n + 1] = "nl" THEN A \cup {n + 1} ELSE A
  OBVIOUS
<1>3. newlines(m, n) = Cardinality(A) /\ newlines(m, n + 1) = Cardinality(B)
  BY DEF newlines
<1>4. newlines(m, 0) = 0
  <2>1. {i \in 1..0 : m[i] = "nl"} = {}
    OBVIOUS
  <2> QED BY <2>1, FS_EmptySet DEF newlines
<1> HIDE DEF A, B
<1>5. Cardinality(A) \in Nat /\ Cardinality(A \cup {n + 1}) = Cardinality(A) + 1
  BY <1>1, CountOneMore
<1> QED BY <1>2, <1>3, <1>4, <1>5

(* The bytes of a writer among the first that were sent, when one follows. *)
LEMMA BytesOfAppend ==
  ASSUME NEW S, NEW s \in Seq(S), NEW b \in S, NEW p
  PROVE  /\ \A i \in 1..Len(s) : bytesOf(Append(s, b), i, p) = bytesOf(s, i, p)
         /\ bytesOf(s, Len(s), p) \in Nat
         /\ bytesOf(Append(s, b), Len(s) + 1, p) =
              bytesOf(s, Len(s), p) + IF b[1] = p THEN 1 ELSE 0
<1>1. PICK n \in Nat : n = Len(s)
  OBVIOUS
<1>2. PICK t : t = Append(s, b)
  OBVIOUS
<1>3. (\A i \in 1..n : t[i] = s[i]) /\ t[n + 1] = b
  BY <1>1, <1>2
<1>4. ASSUME NEW i \in 1..n PROVE bytesOf(t, i, p) = bytesOf(s, i, p)
  <2>1. {j \in 1..i : t[j][1] = p} = {j \in 1..i : s[j][1] = p}
    BY <1>3
  <2> QED BY <2>1 DEF bytesOf
<1> DEFINE A == {j \in 1..n : s[j][1] = p}
           B == {j \in 1..(n + 1) : t[j][1] = p}
<1>5. A \in SUBSET (1..n) /\ B = IF b[1] = p THEN A \cup {n + 1} ELSE A
  BY <1>3
<1>6. bytesOf(s, n, p) = Cardinality(A) /\ bytesOf(t, n + 1, p) = Cardinality(B)
  BY DEF bytesOf
<1> HIDE DEF A, B
<1>7. Cardinality(A) \in Nat /\ Cardinality(A \cup {n + 1}) = Cardinality(A) + 1
  BY <1>5, CountOneMore
<1>8. bytesOf(t, n + 1, p) = bytesOf(s, n, p) + IF b[1] = p THEN 1 ELSE 0
  BY <1>5, <1>6, <1>7
<1> QED BY <1>1, <1>2, <1>4, <1>6, <1>7, <1>8

(* How many bytes a writer has passed to k70UartPutc(). *)
passed(p) == bytes[p] + newlines(Message[p], bytes[p]) + IF cr[p] THEN 1 ELSE 0

(* What was enqueued of each writer is its message as far as `bytes' and `cr'
   say, and what was transmitted begins what was enqueued. *)
WrittenInv ==
  /\ \A i \in 1..Len(written) :
       sends(Message[written[i][1]], bytesOf(written, i, written[i][1]), written[i][2])
  /\ \A p \in Writers :
       /\ bytesOf(written, Len(written), p) = passed(p)
       /\ cr[p] => bytes[p] < Len(Message[p]) /\ Message[p][bytes[p] + 1] = "nl"
  /\ \A i \in 1..Len(transmitted) : transmitted[i] = written[i]

(* Nothing has been written yet. *)
LEMMA InitWrittenInv == Init => WrittenInv
<1> SUFFICES ASSUME Init PROVE WrittenInv
  OBVIOUS
<1>1. written = <<>> /\ transmitted = <<>>
  BY DEF Init, transmitted
<1>2. \A p \in Writers : bytes[p] = 0 /\ ~cr[p]
  BY DEF Init
<1>3. ASSUME NEW p \in Writers
      PROVE  bytesOf(written, Len(written), p) = passed(p) /\ ~cr[p]
  <2>1. {i \in 1..0 : written[i][1] = p} = {}
    OBVIOUS
  <2>2. bytesOf(written, Len(written), p) = 0
    BY <1>1, <2>1, FS_EmptySet DEF bytesOf
  <2>3. newlines(Message[p], 0) = 0
    BY Newlines
  <2> QED BY <1>2, <2>2, <2>3 DEF passed
<1> QED BY <1>1, <1>3 DEF WrittenInv

(* What comes after the first n characters of a message. *)
LEMMA NextByte ==
  ASSUME NEW m \in Seq({"nl", "char"}), NEW n \in Nat, n < Len(m)
  PROVE  LET k == n + newlines(m, n) IN
         /\ m[n + 1] = "nl" => sends(m, k + 1, "cr") /\ sends(m, k + 2, "nl")
         /\ m[n + 1] # "nl" => sends(m, k + 1, m[n + 1])
<1>1. PICK i \in 1..Len(m) : i = n + 1
  OBVIOUS
<1>2. PICK h \in Nat : h = newlines(m, n)
  BY Newlines
<1>3. newlines(m, i) = h + IF m[i] = "nl" THEN 1 ELSE 0
  BY <1>1, <1>2, Newlines
<1>4. i \in DOMAIN m
  OBVIOUS
<1>5. CASE m[i] = "nl"
  <2>1. i + newlines(m, i) = n + h + 2 /\ i + newlines(m, i) - 1 = n + h + 1
    BY <1>1, <1>3, <1>5
  <2>2. sends(m, n + h + 1, "cr")
    BY <1>4, <1>5, <2>1 DEF sends
  <2>3. sends(m, n + h + 2, "nl")
    BY <1>4, <1>5, <2>1 DEF sends
  <2> QED BY <1>1, <1>2, <1>5, <2>2, <2>3
<1>6. CASE m[i] # "nl"
  <2>1. i + newlines(m, i) = n + h + 1
    BY <1>1, <1>3, <1>6
  <2>2. sends(m, n + h + 1, m[i])
    BY <1>4, <2>1 DEF sends
  <2> QED BY <1>1, <1>2, <1>6, <2>2
<1> QED BY <1>5, <1>6

(* One round of writeUart() passes the byte of its message that is next. *)
LEMMA WriteNext ==
  ASSUME TypeOK, WrittenInv, NEW p \in Writers, writeUart(p)
  PROVE  /\ \E c \in OutByte : /\ k70UartPutc(c) /\ c[1] = p
                               /\ sends(Message[p], passed(p) + 1, c[2])
         /\ passed(p)' = passed(p) + 1 /\ passed(p) \in Nat
         /\ cr'[p] => bytes'[p] < Len(Message[p]) /\ Message[p][bytes'[p] + 1] = "nl"
<1> USE UartAssumption
<1>1. PICK m \in Seq({"nl", "char"}) : m = Message[p]
  OBVIOUS
<1>2. PICK n \in Nat : n = bytes[p] /\ n < Len(m)
  BY <1>1 DEF TypeOK, writeUart
<1>3. PICK h \in Nat : h = newlines(m, n)
  BY Newlines
<1>4. newlines(m, n + 1) = h + IF m[n + 1] = "nl" THEN 1 ELSE 0
  BY <1>3, Newlines
<1>5. passed(p) = n + h + IF cr[p] THEN 1 ELSE 0
  BY <1>1, <1>2, <1>3 DEF passed
<1>6. /\ m[n + 1] = "nl" => sends(m, n + h + 1, "cr") /\ sends(m, n + h + 2, "nl")
      /\ m[n + 1] # "nl" => sends(m, n + h + 1, m[n + 1])
  BY <1>2, <1>3, NextByte
<1>7. cr[p] => m[n + 1] = "nl"
  BY <1>1, <1>2 DEF WrittenInv
<1>8. m[n + 1] \in {"nl", "char"}
  BY <1>2
<1>9. <<p, "cr">> \in OutByte /\ <<p, m[n + 1]>> \in OutByte
  BY <1>8 DEF OutByte
<1>10. CASE m[n + 1] = "nl" /\ ~cr[p] /\ cr' = [cr EXCEPT ![p] = TRUE]
            /\ k70UartPutc(<<p, "cr">>) /\ UNCHANGED bytes
  <2>1. cr'[p]
    BY <1>10 DEF TypeOK
  <2>2. bytes'[p] = n
    BY <1>2, <1>10
  <2>3. passed(p)' = n + h + 1 /\ passed(p) = n + h
    BY <1>1, <1>3, <1>5, <1>10, <2>1, <2>2 DEF passed
  <2>4. sends(m, passed(p) + 1, "cr")
    BY <1>6, <1>10, <2>3
  <2>5. \E c \in OutByte : /\ k70UartPutc(c) /\ c[1] = p
                           /\ sends(Message[p], passed(p) + 1, c[2])
    <3>1. <<p, "cr">>[1] = p /\ <<p, "cr">>[2] = "cr"
      OBVIOUS
    <3> QED BY <1>1, <1>9, <1>10, <2>4, <3>1
  <2>6. passed(p)' = passed(p) + 1 /\ passed(p) \in Nat
    BY <2>3
  <2>7. bytes'[p] < Len(Message[p]) /\ Message[p][bytes'[p] + 1] = "nl"
    BY <1>1, <1>2, <1>10, <2>2
  <2> QED BY <2>5, <2>6, <2>7
<1>11. CASE (m[n + 1] # "nl" \/ cr[p]) /\ cr' = [cr EXCEPT ![p] = FALSE]
            /\ k70UartPutc(<<p, m[n + 1]>>) /\ bytes' = [bytes EXCEPT ![p] = @ + 1]
  <2>1. ~cr'[p]
    BY <1>11 DEF TypeOK
  <2>2. bytes'[p] = n + 1
    BY <1>2, <1>11 DEF TypeOK
  <2>3. passed(p)' = n + 1 + newlines(m, n + 1)
    <3>1. passed(p)' = bytes'[p] + newlines(Message[p], bytes'[p]) + IF cr'[p] THEN 1 ELSE 0
      BY DEF passed
    <3>2. passed(p)' = n + 1 + newlines(m, n + 1) + 0
      BY <1>1, <2>1, <2>2, <3>1
    <3> QED BY <1>4, <3>2
  <2>4. passed(p)' = passed(p) + 1 /\ passed(p) \in Nat
    BY <1>4, <1>5, <1>7, <1>11, <2>3
  <2>5. sends(m, passed(p) + 1, m[n + 1])
    <3>1. CASE cr[p]
      <4>1. passed(p) + 1 = n + h + 2
        BY <1>5, <3>1
      <4> QED BY <1>6, <1>7, <3>1, <4>1
    <3>2. CASE ~cr[p]
      <4>1. passed(p) + 1 = n + h + 1
        BY <1>5, <3>2
      <4> QED BY <1>6, <1>11, <3>2, <4>1
    <3> QED BY <3>1, <3>2
  <2>6. \E c \in OutByte : /\ k70UartPutc(c) /\ c[1] = p
                           /\ sends(Message[p], passed(p) + 1, c[2])
    <3>1. <<p, m[n + 1]>>[1] = p /\ <<p, m[n + 1]>>[2] = m[n + 1]
      OBVIOUS
    <3> QED BY <1>1, <1>9, <1>11, <2>5, <3>1
  <2> QED BY <2>1, <2>4, <2>6
<1> QED BY <1>1, <1>2, <1>10, <1>11 DEF writeUart

(* Every action of the console preserves it. *)
LEMMA NextWrittenInv == IInv /\ WrittenInv /\ [Next]_vars => WrittenInv'
<1> SUFFICES ASSUME IInv, WrittenInv, [Next]_vars PROVE WrittenInv'
  OBVIOUS
<1> USE UartAssumption
<1>1. /\ TypeOK /\ Between(outQ, written, transmitted)
      /\ outQ \in FifoQs(uartOutQDepth, OutByte \cup {NoByte})
      /\ transmitted \in Seq(OutByte) /\ written \in Seq(OutByte)
  BY TransmittedSeq DEF IInv, TypeOK
<1>2. Len(transmitted) <= Len(written) /\ Len(transmitted) \in Nat /\ Len(written) \in Nat
  <2>1. countFifoQ(outQ) \in 0..uartOutQDepth
    BY <1>1, CountBounds
  <2>2. Len(written) = Len(transmitted) + countFifoQ(outQ)
    BY <1>1 DEF Between
  <2>3. Len(transmitted) \in Nat /\ Len(written) \in Nat
    BY <1>1
  <2> QED BY <2>1, <2>2, <2>3
<1>3. ASSUME NEW p \in Writers, writeUart(p) PROVE WrittenInv'
  <2>1. PICK c \in OutByte : /\ k70UartPutc(c) /\ c[1] = p
                             /\ sends(Message[p], passed(p) + 1, c[2])
    BY <1>1, <1>3, WriteNext
  <2>2. /\ passed(p)' = passed(p) + 1 /\ passed(p) \in Nat
        /\ cr'[p] => bytes'[p] < Len(Message[p]) /\ Message[p][bytes'[p] + 1] = "nl"
    BY <1>1, <1>3, WriteNext
  <2>3. PICK n \in Nat : n = Len(written)
    BY <1>2
  <2>4. /\ written' = Append(written, c) /\ Len(written') = n + 1
        /\ (\A i \in 1..n : written'[i] = written[i]) /\ written'[n + 1] = c
    BY <1>1, <2>1, <2>3 DEF k70UartPutc
  <2>5. transmitted' = transmitted
    BY <1>3 DEF writeUart, transmitted
  <2>6. ASSUME NEW q
        PROVE  /\ \A i \in 1..n : bytesOf(written', i, q) = bytesOf(written, i, q)
               /\ bytesOf(written', n + 1, q) = bytesOf(written, n, q) + IF q = p THEN 1 ELSE 0
               /\ bytesOf(written, n, q) \in Nat
    BY <1>1, <2>1, <2>3, <2>4, BytesOfAppend
  <2>7. bytesOf(written, n, p) = passed(p)
    BY <2>3 DEF WrittenInv
  <2>8. ASSUME NEW i \in 1..(n + 1)
        PROVE  sends(Message[written'[i][1]], bytesOf(written', i, written'[i][1]), written'[i][2])
    <3>1. CASE i = n + 1
      <4>1. bytesOf(written', i, p) = passed(p) + 1
        BY <2>6, <2>7, <3>1
      <4> QED BY <2>1, <2>4, <3>1, <4>1
    <3>2. CASE i # n + 1
      <4>1. i \in 1..n
        BY <3>2
      <4>2. sends(Message[written[i][1]], bytesOf(written, i, written[i][1]), written[i][2])
        BY <2>3, <4>1 DEF WrittenInv
      <4> QED BY <2>4, <2>6, <4>1, <4>2
    <3> QED BY <3>1, <3>2
  <2>9. ASSUME NEW q \in Writers
        PROVE  /\ bytesOf(written', n + 1, q) = passed(q)'
               /\ cr'[q] => bytes'[q] < Len(Message[q]) /\ Message[q][bytes'[q] + 1] = "nl"
    <3>1. CASE q = p
      BY <2>2, <2>6, <2>7, <3>1
    <3>2. CASE q # p
      <4>1. bytes'[q] = bytes[q] /\ cr'[q] = cr[q]
        BY <1>1, <1>3, <3>2 DEF writeUart, TypeOK
      <4>2. passed(q)' = passed(q)
        BY <4>1 DEF passed
      <4>3. bytesOf(written, n, q) = passed(q)
        BY <2>3 DEF WrittenInv
      <4>4. bytesOf(written', n + 1, q) = bytesOf(written, n, q)
        BY <2>6, <3>2
      <4> QED BY <4>1, <4>2, <4>3, <4>4 DEF WrittenInv
    <3> QED BY <3>1, <3>2
  <2>10. \A i \in 1..Len(transmitted) : transmitted[i] = written'[i]
    BY <1>2, <2>3, <2>4 DEF WrittenInv
  <2> QED BY <2>4, <2>5, <2>8, <2>9, <2>10 DEF WrittenInv
<1>4. ASSUME UNCHANGED <<written, bytes, cr>>,
             \A i \in 1..Len(transmitted') : transmitted'[i] = written[i]
      PROVE  WrittenInv'
  BY <1>4 DEF WrittenInv, passed
<1>5. CASE k70UartInterrupt
  <2>1. UNCHANGED <<written, bytes, cr, line>>
    BY <1>5 DEF k70UartInterrupt, procs
  <2>2. CASE TIE /\ txD = NoByte /\ ~outQ.isEmpty
    <3>1. /\ frontFifoQ(outQ) = written[Len(transmitted) + 1]
          /\ frontFifoQ(outQ) \in OutByte
      BY <1>1, <2>2, Dequeue, SMTT(30)
    <3>2. txD' = frontFifoQ(outQ)
      BY <1>5, <2>2 DEF k70UartInterrupt, interruptTx
    <3>3. transmitted' = Append(transmitted, frontFifoQ(outQ))
      BY <2>1, <2>2, <3>1, <3>2, NoByteIsNone DEF transmitted
    <3>4. \A i \in 1..Len(transmitted') : transmitted'[i] = written[i]
      BY <1>1, <3>1, <3>3 DEF WrittenInv
    <3> QED BY <1>4, <2>1, <3>4
  <2>3. CASE ~(TIE /\ txD = NoByte /\ ~outQ.isEmpty)
    <3>1. UNCHANGED txD
      BY <1>5, <2>3 DEF k70UartInterrupt, interruptTx
    <3>2. transmitted' = transmitted
      BY <2>1, <3>1 DEF transmitted
    <3> QED BY <1>4, <2>1, <3>2 DEF WrittenInv
  <2> QED BY <2>2, <2>3
<1>6. CASE transmit
  <2>1. UNCHANGED <<written, bytes, cr>> /\ transmitted' = transmitted
    BY <1>1, <1>6, NoByteIsNone DEF transmit, TypeOK, transmitted, procs
  <2> QED BY <1>4, <2>1 DEF WrittenInv
<1>7. ASSUME UNCHANGED <<written, bytes, cr, txD, line>> PROVE WrittenInv'
  <2>1. transmitted' = transmitted
    BY <1>7 DEF transmitted
  <2> QED BY <1>4, <1>7, <2>1 DEF WrittenInv
<1>8. ASSUME NEW p \in Readers, readUart(p) PROVE WrittenInv'
  BY <1>7, <1>8 DEF readUart, regs, procs
<1>9. ASSUME NEW p \in Closers, k70UartDisableRead(p) \/ k70UartDisableWrite(p) PROVE WrittenInv'
  BY <1>7, <1>9 DEF k70UartDisableRead, k70UartDisableWrite, regs, logs
<1>10. CASE arrive \/ UNCHANGED vars
  BY <1>7, <1>10 DEF arrive, vars, regs, procs, logs
<1> QED BY <1>3, <1>5, <1>6, <1>8, <1>9, <1>10 DEF Next

(* For all messages, depths and numbers of writers: the bytes of one write() are
   sent in its order, each once, with one '\r' before each '\n'. *)
THEOREM MessagesAreSentInOrder == Spec => []LineCarriesMessages
<1>1. IInv /\ WrittenInv => LineCarriesMessages
  <2> SUFFICES ASSUME IInv, WrittenInv, NEW i \in DOMAIN line
               PROVE  sends(Message[line[i][1]], bytesOf(line, i, line[i][1]), line[i][2])
    BY DEF LineCarriesMessages
  <2>1. /\ Between(outQ, written, transmitted) /\ transmitted \in Seq(OutByte)
        /\ outQ \in FifoQs(uartOutQDepth, OutByte \cup {NoByte})
        /\ written \in Seq(OutByte) /\ line \in Seq(OutByte) /\ txD \in OutByte \cup {NoByte}
    BY TransmittedSeq DEF IInv, TypeOK
  <2>2. Len(transmitted) <= Len(written) /\ Len(transmitted) \in Nat /\ Len(written) \in Nat
    <3>1. countFifoQ(outQ) \in 0..uartOutQDepth
      BY <2>1, UartAssumption, CountBounds
    <3>2. Len(written) = Len(transmitted) + countFifoQ(outQ)
      BY <2>1 DEF Between
    <3>3. Len(transmitted) \in Nat /\ Len(written) \in Nat
      BY <2>1
    <3> QED BY <3>1, <3>2, <3>3
  <2>3. Len(line) <= Len(transmitted) /\ \A j \in 1..Len(line) : line[j] = transmitted[j]
    BY <2>1 DEF transmitted
  <2>4. /\ i \in 1..Len(line) /\ i \in 1..Len(written)
        /\ \A j \in 1..i : line[j] = written[j]
    BY <2>1, <2>2, <2>3, SMTT(30) DEF WrittenInv
  <2>5. {j \in 1..i : line[j][1] = line[i][1]} = {j \in 1..i : written[j][1] = line[i][1]}
    BY <2>4
  <2>6. bytesOf(line, i, line[i][1]) = bytesOf(written, i, line[i][1])
    BY <2>5 DEF bytesOf
  <2>7. line[i] = written[i]
    BY <2>4
  <2> QED BY <2>4, <2>6, <2>7 DEF WrittenInv
<1> QED BY <1>1, InitIInv, NextIInv, InitWrittenInv, NextWrittenInv, PTL DEF Spec
=============================================================================
