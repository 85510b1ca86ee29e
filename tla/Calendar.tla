------------------------------ MODULE Calendar ------------------------------
(***************************************************************************)
(* What the date file promises: a clock that shows a date of the Gregorian *)
(* calendar, goes on by one second at a time and can be set.               *)
(***************************************************************************)
EXTENDS Integers

CONSTANT NoDate

VARIABLES now,     \* the date of this second
          asked,   \* the date set, in the second it was set, or NoDate
          shown    \* the date last read

Leap(y) == 4 * (y \div 4) = y /\ (100 * (y \div 100) = y => 400 * (y \div 400) = y)

LastDay(y, m) == CASE m = 1 -> IF Leap(y) THEN 29 ELSE 28    \* February
                   [] m \in {3, 5, 8, 10}  -> 30
                   [] OTHER -> 31

Dates == [year : Nat, month : 0..11, day : 1..31, hours : 0..23, minutes : 0..59, seconds : 0..59]
Date(d) == d \in Dates /\ d.day <= LastDay(d.year, d.month)

(* The second after d. *)
Following(d) ==
  IF d.seconds < 59 THEN [d EXCEPT !.seconds = @ + 1] ELSE
  IF d.minutes < 59 THEN [d EXCEPT !.minutes = @ + 1, !.seconds = 0] ELSE
  IF d.hours < 23   THEN [d EXCEPT !.hours = @ + 1, !.minutes = 0, !.seconds = 0] ELSE
  LET midnight == [d EXCEPT !.hours = 0, !.minutes = 0, !.seconds = 0] IN
  IF d.day < LastDay(d.year, d.month) THEN [midnight EXCEPT !.day = @ + 1] ELSE
  IF d.month < 11 THEN [midnight EXCEPT !.month = @ + 1, !.day = 1]
  ELSE [midnight EXCEPT !.year = @ + 1, !.month = 0, !.day = 1]

Tick == now' = Following(now) /\ asked' = NoDate /\ UNCHANGED shown
Read == shown' = now /\ UNCHANGED <<now, asked>>
Set  == Date(now') /\ asked' = now' /\ UNCHANGED shown

Init == Date(now) /\ asked = NoDate /\ shown = NoDate

Next == Tick \/ Read \/ Set

Spec == Init /\ [][Next]_<<now, asked, shown>>
=============================================================================
