------------------------------ MODULE DateFile ------------------------------
(***************************************************************************)
(* /dev/date: the conversions between seconds and dates (date.c), reading  *)
(* and setting the date through the timer's timestamp (devdev.c), and the  *)
(* timer interrupt that moves it on.                                       *)
(*                                                                         *)
(* A time is a day number and a second of that day, seconds / 86400 and    *)
(* seconds % 86400; milliseconds are left out.  A request is the sequence  *)
(* of numbers written to the file, as strtol takes them: year, month, day, *)
(* hours, minutes, seconds, the last ones possibly missing.                *)
(***************************************************************************)
EXTENDS Integers, Sequences

CONSTANTS Times,      \* times the clock may have come to
          Requests,   \* what is written to the file
          Seconds,    \* bound: the seconds of a day in which the clock is moved on
          NoDate

EPOCH_YEAR == 1970

SecondsOfDay == 0..86399

DateAssumption ==
  /\ Times \subseteq [day : Nat, sec : SecondsOfDay]
  /\ \A r \in Requests : r \in Seq(Nat) /\ Len(r) \in 1..6

IS_LEAPMutant(year) == year % 4 = 0
IS_LEAP(year)       == year % 400 = 0 \/ (year % 100 # 0 /\ year % 4 = 0)
DAYS_IN_YEAR(year)  == IF IS_LEAP(year) THEN 366 ELSE 365

monthDays(year) ==
  <<31, IF IS_LEAP(year) THEN 29 ELSE 28, 31, 30, 31, 30, 31, 31, 30, 31, 30, 31>>

(* The days of the months before month (counted from 0). *)
daysBefore(year, month) ==
  LET sum[i \in 0..month] == IF i = 0 THEN 0 ELSE sum[i - 1] + monthDays(year)[i]
  IN sum[month]

(* secondsToDate()'s two loops, which take off whole years and then months,
   eleven at most. *)
takeYears(days) ==
  LET take[s \in [year : Nat, days : 0..days]] ==
        IF s.days >= DAYS_IN_YEAR(s.year)
          THEN take[[year |-> s.year + 1, days |-> s.days - DAYS_IN_YEAR(s.year)]]
          ELSE s
  IN take[[year |-> EPOCH_YEAR, days |-> days]]

takeMonths(year, days) ==
  LET take[s \in [month : 0..11, days : 0..days]] ==
        IF s.month < 11 /\ s.days >= monthDays(year)[s.month + 1]
          THEN take[[month |-> s.month + 1, days |-> s.days - monthDays(year)[s.month + 1]]]
          ELSE s
  IN take[[month |-> 0, days |-> days]]

secondsToDate(time) ==
  LET y == takeYears(time.day)
      m == takeMonths(y.year, y.days)
  IN [year |-> y.year, month |-> m.month, day |-> m.days + 1,
      hours |-> time.sec \div 3600, minutes |-> (time.sec % 3600) \div 60,
      seconds |-> time.sec % 60]

(* dateToSeconds() counts the years down from the date's own to 1971, or up
   from it to 1969; its dates have days that start at 0. *)
yearDays(year) ==
  LET down[y \in EPOCH_YEAR..year] ==
        IF y > EPOCH_YEAR THEN DAYS_IN_YEAR(y) + down[y - 1] ELSE 0
      up[y \in year..EPOCH_YEAR] ==
        IF y < EPOCH_YEAR THEN DAYS_IN_YEAR(y) + up[y + 1] ELSE 0
  IN IF year >= EPOCH_YEAR THEN down[year] ELSE up[year]

dateToSeconds(d) ==
  LET sec == d.seconds + d.minutes * 60 + d.hours * 3600
  IN [day |-> yearDays(d.year) + daysBefore(d.year, d.month) + d.day + sec \div 86400,
      sec |-> sec % 86400]

VARIABLES timestamp,   \* Timer.timestamp of the k70Timer, as a time
          asked,       \* the date set, until the clock goes on
          shown        \* the date last read

dateVars == <<timestamp, asked, shown>>

numberAt(request, i) == IF i <= Len(request) THEN request[i] ELSE 0

(* writeDate()'s fields: the numbers there are, 0 for those there are not, and
   months and days that start at 0. *)
parse(request) ==
  LET less(n) == IF n > 0 THEN n - 1 ELSE 0
  IN [year |-> numberAt(request, 1), month |-> less(numberAt(request, 2)),
      day |-> less(numberAt(request, 3)), hours |-> numberAt(request, 4),
      minutes |-> numberAt(request, 5), seconds |-> numberAt(request, 6)]

(* The date a request means: January and the 1st when there is no more. *)
meantBy(request) ==
  [year |-> request[1], month |-> IF Len(request) < 2 THEN 0 ELSE request[2] - 1,
   day |-> IF Len(request) < 3 THEN 1 ELSE request[3], hours |-> numberAt(request, 4),
   minutes |-> numberAt(request, 5), seconds |-> numberAt(request, 6)]

DateInit == timestamp \in Times /\ asked = NoDate /\ shown = NoDate

writeDate(request) == /\ timestamp' = dateToSeconds(parse(request))
                      /\ asked' = meantBy(request)
                      /\ UNCHANGED shown

readDate == /\ shown' = secondsToDate(timestamp)
            /\ UNCHANGED <<timestamp, asked>>

(* toieHandler(), as often as a second takes. *)
toieHandler ==
  /\ timestamp.sec \in Seconds
  /\ timestamp' = IF timestamp.sec = 86399 THEN [day |-> timestamp.day + 1, sec |-> 0]
                                           ELSE [timestamp EXCEPT !.sec = @ + 1]
  /\ asked' = NoDate /\ UNCHANGED shown

DateNext == (\E r \in Requests : writeDate(r)) \/ readDate \/ toieHandler

DateSpec == DateInit /\ [][DateNext]_dateVars

-----------------------------------------------------------------------------
calendar == INSTANCE Calendar WITH now <- secondsToDate(timestamp)

(* The date file is a calendar clock: each second reads as the date after the
   one before, over the ends of months, leap Februaries and years, and what is
   set is what the clock goes on from (secondsToDate, dateToSeconds). *)
ImplementsCalendar == calendar!Spec

(* A date that was set is the date that is read until the clock goes on
   (date --set "YYYY [MM [DD [HH [MM [SS]]]]]"). *)
SetReadsBack == asked # NoDate => secondsToDate(timestamp) = asked
=============================================================================
