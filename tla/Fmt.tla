-------------------------------- MODULE Fmt --------------------------------
(***************************************************************************)
(* fmtVsnprintfInternal (fmt.c), the formatting under every print of the   *)
(* kernel.  A format is a sequence of items: a character, "%%", a number   *)
(* hole and a string hole; one action is one turn of the loop over them.   *)
(*                                                                         *)
(* Numbers are scaled down: a word has WordSize values, the digits' buffer *)
(* INTBUF_SIZE places.  Digits are 0..9; "nul" is a byte that was never    *)
(* written, " " a blank, "c" any other character.  A size_t that is        *)
(* counted down from 0 is SIZE_T_MAX.                                      *)
(***************************************************************************)
EXTENDS Integers, Sequences

CONSTANTS Inputs,        \* formats, with their arguments, and buffer sizes
          useN,          \* TRUE: fmtSnprintf; FALSE: fmtSprintf
          WordSize, INTBUF_SIZE, SIZE_T_MAX

(* %[0][width]d, %[0][width]u with argument arg; %[width][.precision]s of len
   characters (precision -1: none). *)
Char    == [item |-> "char"]
Percent == [item |-> "percent"]
Number(zero, width, arg) == [item |-> "number", zero |-> zero, width |-> width, arg |-> arg]
Str(width, precision, len) == [item |-> "string", width |-> width, precision |-> precision, len |-> len]

IsItem(h) ==
  \/ h.item \in {"char", "percent"}
  \/ h.item = "number" /\ h.zero \in BOOLEAN /\ h.width \in Nat /\ h.arg \in Int
  \/ h.item = "string" /\ h.width \in Nat /\ h.precision \in Int /\ h.len \in Nat

(* The digits that uintToStr() writes, most significant first. *)
digits(i) ==
  LET d[k \in 0..i] == IF k < 10 THEN <<k>> ELSE d[k \div 10] \o <<k % 10>> IN d[i]

FmtAssumption ==
  /\ WordSize \in Nat \ {0} /\ INTBUF_SIZE \in Nat \ {0} /\ SIZE_T_MAX \in Nat /\ useN \in BOOLEAN
  /\ \A k \in 0..(WordSize - 1) : Len(digits(k)) <= INTBUF_SIZE
  /\ \A i \in Inputs : /\ i.room \in 1..SIZE_T_MAX /\ Len(i.fmt) \in Nat
                       /\ \A k \in 1..Len(i.fmt) : IsItem(i.fmt[k])

VARIABLES
  fmt,       \* the format
  pos,       \* the item that is next
  nleft,     \* what is left of the buffer
  room,      \* the buffer's size
  out,       \* what was written
  intBuf,    \* the digits of the last number, kept from hole to hole
  scanned,   \* this turn of the outer loop copied characters
  done

fmtVars == <<fmt, pos, nleft, room, out, intBuf, scanned, done>>

Repeat(x, k) == [i \in 1..k |-> x]

(* fmtSprintf() takes the length of the string that its buffer holds for the
   buffer's size; the buffers it is given are fresh, and hold none. *)
FmtInit ==
  /\ \E i \in Inputs : fmt = i.fmt /\ room = i.room
  /\ pos = 1 /\ out = <<>>
  /\ nleft = (IF useN THEN room ELSE 0)
  /\ intBuf = Repeat("nul", INTBUF_SIZE) /\ scanned = FALSE /\ done = FALSE

less(k) == IF k <= nleft THEN nleft - k ELSE SIZE_T_MAX - (k - nleft - 1)

(* An item is looked at in a turn of the outer loop, or, after characters, in
   the same turn, whatever is left then. *)
atItem(item) == ~ done /\ pos <= Len(fmt) /\ fmt[pos].item = item /\ (nleft > 0 \/ scanned)

copyChar ==
  /\ atItem("char") /\ nleft > 0
  /\ out' = Append(out, "c") /\ nleft' = nleft - 1 /\ pos' = pos + 1 /\ scanned' = TRUE
  /\ UNCHANGED <<fmt, room, intBuf, done>>

percent ==
  /\ atItem("percent")
  /\ out' = Append(out, "%") /\ nleft' = less(1) /\ pos' = pos + 1 /\ scanned' = FALSE
  /\ UNCHANGED <<fmt, room, intBuf, done>>

(* None is written to the places before the digits. *)
uintToStr(buf, i) == SubSeq(buf, 1, INTBUF_SIZE - Len(digits(i))) \o digits(i)

AtMostMutant(k) == k
AtMost(k)       == IF useN /\ k > nleft THEN nleft ELSE k

printNumber ==
  /\ atItem("number")
  /\ LET h      == fmt[pos]
         buf    == uintToStr(IF h.zero THEN Repeat(0, INTBUF_SIZE) ELSE intBuf, h.arg % WordSize)
         length == Len(digits(h.arg % WordSize))
         bytes  == AtMost(IF length < h.width THEN h.width ELSE length)
     IN /\ out' = out \o SubSeq(buf, INTBUF_SIZE - bytes + 1, INTBUF_SIZE)
        /\ nleft' = less(bytes) /\ intBuf' = buf
  /\ pos' = pos + 1 /\ scanned' = FALSE /\ UNCHANGED <<fmt, room, done>>

printString ==
  /\ atItem("string")
  /\ LET h     == fmt[pos]
         bytes == IF h.precision >= 0 /\ h.precision < h.len THEN h.precision ELSE h.len
         pad   == AtMost(IF h.width > bytes THEN h.width - bytes ELSE 0)
         left  == IF useN THEN nleft - pad ELSE less(pad)
         text  == IF useN /\ bytes > left THEN left ELSE bytes
     IN /\ out' = out \o Repeat(" ", pad) \o Repeat("c", text)
        /\ nleft' = (IF useN THEN left - text ELSE less(pad + text))
  /\ pos' = pos + 1 /\ scanned' = FALSE /\ UNCHANGED <<fmt, room, intBuf, done>>

(* The loop ends, and a NUL follows what was written. *)
terminate ==
  /\ ~ done /\ (pos <= Len(fmt) => nleft = 0 /\ (scanned => fmt[pos].item = "char"))
  /\ done' = TRUE
  /\ UNCHANGED <<fmt, pos, nleft, room, out, intBuf, scanned>>

FmtNext == copyChar \/ percent \/ printNumber \/ printString \/ terminate

FmtSpec == FmtInit /\ [][FmtNext]_fmtVars

-----------------------------------------------------------------------------
(***************************************************************************)
(* What the format language of the comment in fmt.c means.                 *)
(***************************************************************************)
Padded(zero, text, width) ==
  Repeat(IF zero THEN 0 ELSE " ", IF width > Len(text) THEN width - Len(text) ELSE 0) \o text

Meaning(h) ==
  CASE h.item = "char"    -> <<"c">>
    [] h.item = "percent" -> <<"%">>
    [] h.item = "number"  -> IF h.arg >= 0 THEN Padded(h.zero, digits(h.arg), h.width)
                             ELSE Padded(h.zero, <<"-">> \o digits(-h.arg), h.width)
    [] h.item = "string"  ->
         Padded(FALSE, Repeat("c", IF h.precision >= 0 /\ h.precision < h.len
                                     THEN h.precision ELSE h.len), h.width)

(* The meaning of the first k items of a format. *)
meaningTo(f) ==
  LET upTo[k \in 0..Len(f)] == IF k = 0 THEN <<>> ELSE upTo[k - 1] \o Meaning(f[k]) IN upTo

Formatted == meaningTo(fmt)[Len(fmt)]

(* The numbers that the kernel prints: of a word and not negative, in no more
   places than the digits' buffer has, with leading zeros where the width asks
   for more places than there are digits. *)
Plain(h) ==
  h.item = "number" => /\ h.arg \in 0..(WordSize - 1) /\ h.width <= INTBUF_SIZE
                       /\ h.zero \/ h.width <= Len(digits(h.arg))

(* ... in a buffer that is large enough, or in a text that is only characters
   and strings. *)
Printable(i) ==
  /\ \A k \in 1..Len(i.fmt) : Plain(i.fmt[k])
  /\ \/ Len(meaningTo(i.fmt)[Len(i.fmt)]) <= i.room
     \/ \A k \in 1..Len(i.fmt) : i.fmt[k].item \in {"char", "string"}

FmtTypeOK == /\ pos \in 1..(Len(fmt) + 1) /\ nleft \in 0..SIZE_T_MAX
             /\ Len(intBuf) = INTBUF_SIZE /\ done \in BOOLEAN

(* What is printed is what the format means, cut off where the buffer ends
   (uintToStr, the holes' widths and precisions, the count n). *)
PrintsFormat == done => out = SubSeq(Formatted, 1, IF Len(Formatted) <= room
                                                     THEN Len(Formatted) ELSE room)

(* No more is written than there is room for, whatever the items and where the
   room ends (every use of n). *)
FitsWithoutNul == Len(out) <= room

(* ... and neither is the NUL: the buffer is "of size n". *)
FitsBuffer == done => Len(out) + 1 <= room

(* What is printed is what the format means, cut off where the buffer ends, and
   no more is written than there is room for (uintToStr, the holes' widths and
   precisions, every use of the count n). *)
PrintsAndFits == FmtTypeOK /\ PrintsFormat /\ FitsWithoutNul
=============================================================================
