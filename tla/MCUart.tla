------------------------------- MODULE MCUart -------------------------------
(***************************************************************************)
(* Small instances of Uart, and the writes that are sent to their end.     *)
(* One run looks at three uses of the console: who writes while it is      *)
(* being closed, who reads, and who writes while a key is typed.           *)
(***************************************************************************)
EXTENDS Uart

Messages == [p \in Writers |-> IF p = "w1" THEN <<"char", "nl", "char">>
                               ELSE <<"nl", "nl">>]
ReadSizes == [p \in Readers |-> 2]

VARIABLE use

UseNext ==
  /\ Next
  /\ use = "closing" => UNCHANGED typed
  /\ use = "reading" => UNCHANGED <<bytes, cr, savedC2>>
  /\ use = "writing" => UNCHANGED savedC2 /\ typed' <= 1
  /\ UNCHANGED use

(* The fairness of Uart, where somebody writes and nobody closes. *)
UseFairness ==
  /\ \A p \in Writers : WF_vars(use = "writing" /\ writeUart(p))
  /\ WF_vars(use = "writing" /\ k70UartInterrupt)
  /\ WF_vars(use = "writing" /\ transmit)

UseInit == Init /\ use \in {"closing", "reading", "writing"}

UseSpec == UseInit /\ [][UseNext]_<<vars, use>> /\ UseFairness

(* Every write to the console is sent to its last byte, through a queue far
   smaller than the message, if nobody closes the console. *)
WritesSent == \A p \in Writers :
  (use = "writing") ~> LET all == Len(Message[p])
                       IN  bytesOf(line, Len(line), p) = all + newlines(Message[p], all)
=============================================================================
