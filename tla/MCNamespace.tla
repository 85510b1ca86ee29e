---------------------------- MODULE MCNamespace -----------------------------
(***************************************************************************)
(* Namespace with the paths processes use.  One run has two parts: two     *)
(* processes that open and execute paths, and one that opens, reads and    *)
(* writes files while somebody presses buttons.                            *)
(***************************************************************************)
EXTENDS Namespace

Abs(parts) == [abs |-> TRUE, parts |-> parts]
Rel(parts) == [abs |-> FALSE, parts |-> parts]

(* A command by each kind of name, a missing one, dots, a node across a
   mount point, a file that is one, a device's root, and what is no file. *)
WalkedPaths ==
  {Abs(<<"bin", "ls">>), Rel(<<"ls">>), Rel(<<"date">>), Abs(<<"bin", "no">>),
   Abs(<<"bin", "..", "dev", "led", ".", "blue">>), Abs(<<"dev", "date">>),
   Abs(<<"dev", "lcd">>), Abs(<<"dev", "led", "no">>), Abs(<<"bin", "ls", "x">>)}

(* The buttons, LEDs, a directory, and a file whose text is read in parts. *)
ReadPaths ==
  {Abs(<<"dev", "swpb", "1">>), Abs(<<"dev", "swpb", "2raw">>), Abs(<<"dev", "led", "green">>),
   Abs(<<"dev">>), Abs(<<"dev", "interrupts">>)}

AllPaths == WalkedPaths \cup ReadPaths

ASSUME AllStraight == \A path \in AllPaths : Straight(path)

VARIABLE part

PartNext ==
  /\ \/ part = "opening" /\ Calls(WalkedPaths, {})
     \/ part = "reading" /\ Calls(ReadPaths, Sizes) /\ UNCHANGED starts
     \/ part = "reading" /\ \E b \in Buttons : Press(b)
  /\ UNCHANGED part

PartInit ==
  /\ Init /\ part \in {"opening", "reading"}
  /\ part = "reading" => procs = {CHOOSE p \in Procs : TRUE}

PartSpec == PartInit /\ [][PartNext]_<<vars, part>>
=============================================================================
