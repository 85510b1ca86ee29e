----------------------------- MODULE MCLibrary ------------------------------
(***************************************************************************)
(* What the kernel and the shell do by themselves, each part on a small    *)
(* instance: the priority heap, the date file, printing, walks in static   *)
(* namespaces, the screen, and the shell that takes what is typed: words   *)
(* and operators, or lines that are edited.  A behaviour is one of a       *)
(* single part; the others stay in one of their initial states.            *)
(***************************************************************************)
EXTENDS HeapQ, DateFile, Walk, Fmt, Lcd

VARIABLES part, shell, readBuf, rest, state, token, tokens, keys, input, executed

torgoVars == <<shell, readBuf, rest, state, token, tokens, keys, input, executed>>

Typing == INSTANCE Torgo WITH
  Keys <- {"n", " ", ";", "nl", "quote", "escape"}, MaxKeys <- 6, readMax <- 32
Lines == INSTANCE Torgo WITH
  Keys <- {"n", "nl", "quote", "escape", "$", "&", "del", "eof"}, MaxKeys <- 5, readMax <- 32

(***************************************************************************)
(* The last second of every day of 1970 to 1973 and of 2000 and around the *)
(* end of February 2100: leap years and others, a century that is a leap   *)
(* year and one that is not; and of a minute and of an hour.  Dates of     *)
(* common years are set, whole and in the short forms.                     *)
(***************************************************************************)
Days        == (0..1460) \cup (10956..11323) \cup (47535..47545)
LastSeconds == {59, 3599, 86399}
TickTimes   == [day : Days, sec : {86399}] \cup [day : {58}, sec : LastSeconds]
LastDay(m)  == IF m = 2 THEN 28 ELSE 31
CommonDates ==
  {<<y, m, LastDay(m), 23, 59, 59>> : y \in {1971, 1975}, m \in {1, 2, 12}}
    \cup {<<1971, 3, 1>>, <<1999, 12, 31>>, <<2100, 2, 28>>, <<2001, 2>>, <<2001>>, <<2001, 9, 30, 12>>}

Boot        == [day |-> 0, sec |-> 86399]

(* A clock that is only set, and starts at one time. *)
Sets == INSTANCE DateFile WITH Times <- {Boot}, Requests <- CommonDates

(* Every format of three items in a buffer that is large enough, and text in
   one that is not. *)
Item(S, k) == UNION {[1..j -> S] : j \in 0..k}
Text    == {Char} \cup {Str(0, -1, 2), Str(4, -1, 2), Str(0, 1, 2), Str(3, 1, 2)}
Numbers == {Number(FALSE, 0, 0), Number(FALSE, 0, 42), Number(TRUE, 2, 5), Number(TRUE, 3, 107)}
Kernel  == [fmt : Item(Text \cup Numbers \cup {Percent}, 3), room : {20}]
             \cup [fmt : Item(Text, 3), room : 1..5]

ASSUME PartsAssumption ==
  /\ HeapAssumption /\ DateAssumption /\ Sets!DateAssumption /\ FmtAssumption
  /\ WalkAssumption /\ \A i \in Inputs : Printable(i)
  /\ LcdAssumption /\ Typing!TorgoAssumption /\ Lines!TorgoAssumption

PartInit ==
  /\ part \in {"heap", "ticks", "sets", "format", "tables", "words", "lines", "screen"}
  /\ IF part = "heap" THEN Init
     ELSE /\ buf = [i \in 0..5 |-> 0] /\ n = 0 /\ pc = "idle" /\ start = 0 /\ bottom = 0
          /\ x = 0 /\ ok = 1 /\ was = {0}
  /\ IF part = "ticks" THEN DateInit ELSE Sets!DateInit
  /\ IF part = "format" THEN FmtInit
     ELSE /\ fmt = <<>> /\ room = 20 /\ pos = 1 /\ out = <<>> /\ nleft = 20
          /\ intBuf = <<"nul", "nul", "nul">> /\ scanned = FALSE /\ done = FALSE
  /\ IF part = "tables" THEN WalkingInit
     ELSE /\ ns = CHOOSE t \in TablesOf(1) : TRUE
          /\ portal = ns[0].crumb /\ path = <<>> /\ from = portal
          /\ trail = emptyWalkTrail(0)
          /\ offset = 0 /\ listed = <<>> /\ last = <<0, 0>>
  /\ LcdInit /\ Typing!TorgoInit

kernelVars == <<vars, dateVars, fmtVars, walkVars>>

PartNext ==
  /\ \/ part = "heap" /\ Next /\ UNCHANGED <<dateVars, fmtVars, walkVars, lcdVars, torgoVars>>
     \/ part = "ticks" /\ DateNext /\ UNCHANGED <<vars, fmtVars, walkVars, lcdVars, torgoVars>>
     \/ part = "sets" /\ Sets!DateNext /\ UNCHANGED <<vars, fmtVars, walkVars, lcdVars, torgoVars>>
     \/ part = "format" /\ FmtNext /\ UNCHANGED <<vars, dateVars, walkVars, lcdVars, torgoVars>>
     \/ part = "tables" /\ Walking /\ UNCHANGED <<vars, dateVars, fmtVars, lcdVars, torgoVars>>
     \/ part = "screen" /\ LcdNext /\ UNCHANGED <<kernelVars, torgoVars>>
     \/ part = "words" /\ Typing!TorgoNext /\ UNCHANGED <<kernelVars, lcdVars>>
     \/ part = "lines" /\ Lines!TorgoNext /\ UNCHANGED <<kernelVars, lcdVars>>
  /\ UNCHANGED part

(* The shell is never starved of the processor while it parses. *)
PartSpec ==
  /\ PartInit /\ [][PartNext]_<<part, kernelVars, lcdVars, torgoVars>>
  /\ WF_torgoVars(Typing!parse)
-----------------------------------------------------------------------------
(* At every prompt the commands executed are those the grammar finds in all
   that was typed, whatever the lines it came in (parseInputParser "can still
   continue, it just needs more data"). *)
ExecutedAsTyped == Typing!ExecutedAsTyped

(* torgo_main's inner loop ends, whatever the line and however many commands it
   has: the shell comes back to its prompt (hasUnparsedInputParser) unless it
   waits for ever for a command that does not end (waitpid). *)
PromptReturns == Typing!PromptReturns
=============================================================================
