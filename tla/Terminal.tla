------------------------------ MODULE Terminal ------------------------------
(***************************************************************************)
(* What a console on a screen promises, in cells: Rows lines, the last of  *)
(* which is typed on, and the column of the next character.                *)
(***************************************************************************)
EXTENDS Integers

CONSTANTS Rows, Cols, TabSpc

Blank(bg) == <<"blank", bg>>

empty(bg) == [cells |-> [r \in 0..(Rows - 1) |-> [k \in 0..(Cols - 1) |-> Blank(bg)]], col |-> 0]

(* A picture over the whole screen: a cell keeps the row it was drawn in. *)
picture == [r \in 0..(Rows - 1) |-> [k \in 0..(Cols - 1) |-> <<"picture", r>>]]

(* Row 0 is the bottom one. *)
scrolled(t, bg) ==
  [t EXCEPT !.cells = [r \in 0..(Rows - 1) |->
     IF r = 0 THEN [k \in 0..(Cols - 1) |-> Blank(bg)] ELSE t.cells[r - 1]]]

wrapped(t, bg) == IF t.col < Cols THEN t ELSE [scrolled(t, bg) EXCEPT !.col = 0]

typed(t, c, bg) ==
  CASE c = "CR"  -> [t EXCEPT !.col = 0]
    [] c = "LF"  -> scrolled(t, bg)
    [] c = "TAB" -> wrapped([t EXCEPT !.col = (t.col \div TabSpc + 1) * TabSpc], bg)
    [] c = "BS"  -> [t EXCEPT !.col = IF t.col = 0 THEN 0 ELSE t.col - 1]
    [] c = "FF"  -> empty(bg)
    [] OTHER     -> wrapped([t EXCEPT !.cells[0][t.col] = <<"char", c>>, !.col = t.col + 1], bg)
=============================================================================
