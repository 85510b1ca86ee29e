---------------------------- MODULE LibraryProofs ----------------------------
(***************************************************************************)
(* What the parts of the library promise, for every value of their         *)
(* constants: the date file is a calendar clock, walks and listings follow *)
(* the tree that a static table holds, the screen shows, pixel by pixel,   *)
(* what was typed, and a format is printed as it means, as far as the      *)
(* buffer goes.                                                            *)
(***************************************************************************)
EXTENDS DateFile, Walk, Lcd, Fmt, StaticNSProofs

-----------------------------------------------------------------------------
(* F runs the loop `while s is in more do s := f[s]'. *)
Loops(F, D, more, f) == F = [s \in D |-> IF s \in more THEN F[f[s]] ELSE s]

(* Every turn makes the measure mu less. *)
Falls(D, more, f, mu) == \A s \in D : s \in more => f[s] \in D /\ mu[f[s]] < mu[s]

(* There is such an F. *)
LEMMA LoopExists ==
  ASSUME NEW D, NEW more, NEW f \in [D -> D], NEW N \in Nat, NEW mu \in [D -> 0..N],
         Falls(D, more, f, mu)
  PROVE  \E F : Loops(F, D, more, f)
<1> USE DEF Falls
<1> DEFINE Solves(F, m) ==
             \A s \in D : mu[s] <= m => F[s] = IF s \in more THEN F[f[s]] ELSE s
           S == {m \in Nat : \E F : F \in [D -> D] /\ Solves(F, m)}
<1>1. 0 \in S
  <2> DEFINE F == [s \in D |-> s]
  <2>1. ASSUME NEW s \in D, mu[s] <= 0 PROVE s \notin more
    BY <2>1
  <2>2. F \in [D -> D] /\ Solves(F, 0)
    BY <2>1
  <2> HIDE DEF F, Solves
  <2> QED BY <2>2
<1>2. ASSUME NEW m \in Nat, m \in S PROVE m + 1 \in S
  <2>1. PICK F : F \in [D -> D] /\ Solves(F, m)
    BY <1>2
  <2> DEFINE G == [s \in D |-> IF s \in more THEN F[f[s]] ELSE s]
  <2>2. G \in [D -> D]
    BY <2>1
  <2>3. ASSUME NEW s \in D, mu[s] <= m PROVE G[s] = F[s]
    BY <2>1, <2>3
  <2>4. ASSUME NEW s \in D, mu[s] <= m + 1, s \in more PROVE G[s] = G[f[s]]
    <3>1. f[s] \in D /\ mu[f[s]] < mu[s] /\ mu[f[s]] \in Nat /\ mu[s] \in Nat
      BY <2>4
    <3>2. mu[f[s]] <= m
      BY <2>4, <3>1
    <3>3. G[f[s]] = F[f[s]]
      BY <2>3, <3>1, <3>2
    <3> QED BY <2>4, <3>3
  <2>5. \A s \in D : s \notin more => G[s] = s
    OBVIOUS
  <2> HIDE DEF G
  <2>6. Solves(G, m + 1)
    BY <2>4, <2>5
  <2> HIDE DEF Solves
  <2> QED BY <2>2, <2>6
<1>3. N \in S
  <2> HIDE DEF S
  <2> QED BY <1>1, <1>2, NatSetInduction
<1>4. PICK F : F \in [D -> D] /\ Solves(F, N)
  BY <1>3
<1>5. \A s \in D : F[s] = IF s \in more THEN F[f[s]] ELSE s
  BY <1>4
<1>6. F = [s \in D |-> F[s]]
  BY <1>4
<1>7. F = [s \in D |-> IF s \in more THEN F[f[s]] ELSE s]
  BY <1>5, <1>6
<1> QED BY <1>7 DEF Loops

(* It keeps what each turn keeps, and ends where no turn is made. *)
LEMMA LoopEnds ==
  ASSUME NEW D, NEW more, NEW f, NEW N \in Nat, NEW mu \in [D -> 0..N],
         Falls(D, more, f, mu), NEW F, Loops(F, D, more, f),
         NEW I, I \subseteq D, \A s \in I : s \in more => f[s] \in I,
         NEW s0 \in I
  PROVE  F[s0] \in I /\ F[s0] \notin more
<1> USE DEF Falls, Loops
<1> DEFINE Ends(s) == F[s] \in I /\ F[s] \notin more
           S == {m \in Nat : \A s \in I : mu[s] <= m => Ends(s)}
<1>1. \A s \in D : F[s] = IF s \in more THEN F[f[s]] ELSE s
  OBVIOUS
<1>2. 0 \in S
  <2>1. ASSUME NEW s \in I, mu[s] <= 0 PROVE Ends(s)
    <3>1. s \in D /\ mu[s] = 0
      BY <2>1
    <3>2. s \notin more
      BY <3>1
    <3> QED BY <1>1, <3>1, <3>2
  <2> HIDE DEF Ends
  <2> QED BY <2>1
<1>3. ASSUME NEW m \in Nat, m \in S PROVE m + 1 \in S
  <2>1. ASSUME NEW s \in I, mu[s] <= m + 1 PROVE Ends(s)
    <3>1. CASE s \in more
      <4>1. s \in D /\ f[s] \in I /\ f[s] \in D /\ mu[f[s]] < mu[s] /\ mu[f[s]] \in Nat /\ mu[s] \in Nat
        BY <3>1
      <4>2. mu[f[s]] <= m
        BY <2>1, <4>1
      <4>3. Ends(f[s])
        <5> HIDE DEF Ends
        <5> QED BY <1>3, <4>1, <4>2
      <4> QED BY <1>1, <3>1, <4>1, <4>3
    <3>2. CASE s \notin more
      BY <1>1, <3>2
    <3> QED BY <3>1, <3>2
  <2> HIDE DEF Ends
  <2> QED BY <2>1
<1>4. N \in S
  <2> HIDE DEF S
  <2> QED BY <1>2, <1>3, NatSetInduction
<1>5. mu[s0] <= N
  OBVIOUS
<1> QED BY <1>4, <1>5
-----------------------------------------------------------------------------
(* How many multiples of w there are from 1 to y. *)
LEMMA Multiples ==
  ASSUME NEW w \in Nat \ {0}, NEW y \in Nat
  PROVE  /\ (y + 1) \div w = (y \div w) + IF (y + 1) % w = 0 THEN 1 ELSE 0
         /\ y \div w \in Nat /\ y \div w <= y
  BY SMT

(* A year is divisible by 100 if it is by 400, and by 4 if it is by 100. *)
LEMMA Divisible ==
  ASSUME NEW y \in Nat
  PROVE  /\ y % 400 = 0 => y % 100 = 0
         /\ y % 100 = 0 => y % 4 = 0
  BY SMT

(* The leap years from 1 to y, and the days from the epoch to the first of y. *)
Leaps(y) == (y \div 4) - (y \div 100) + (y \div 400)

YearsTo(y) == 365 * (y - EPOCH_YEAR) + Leaps(y - 1) - Leaps(EPOCH_YEAR - 1)

(* One more leap year, or not. *)
LEMMA LeapsNext ==
  ASSUME NEW y \in Nat
  PROVE  /\ Leaps(y + 1) = Leaps(y) + IF IS_LEAP(y + 1) THEN 1 ELSE 0
         /\ Leaps(y) \in Int
<1>1. y + 1 \in Nat
  OBVIOUS
<1>2. /\ (y + 1) \div 4 = (y \div 4) + IF (y + 1) % 4 = 0 THEN 1 ELSE 0
      /\ (y + 1) \div 100 = (y \div 100) + IF (y + 1) % 100 = 0 THEN 1 ELSE 0
      /\ (y + 1) \div 400 = (y \div 400) + IF (y + 1) % 400 = 0 THEN 1 ELSE 0
      /\ y \div 4 \in Nat /\ y \div 100 \in Nat /\ y \div 400 \in Nat
  BY Multiples
<1>3. /\ (y + 1) % 400 = 0 => (y + 1) % 100 = 0
      /\ (y + 1) % 100 = 0 => (y + 1) % 4 = 0
  BY <1>1, Divisible
<1> QED BY <1>2, <1>3 DEF Leaps, IS_LEAP

(* The length of a year. *)
LEMMA YearLength ==
  ASSUME NEW y
  PROVE  /\ DAYS_IN_YEAR(y) \in {365, 366} /\ DAYS_IN_YEAR(y) \in Nat
         /\ DAYS_IN_YEAR(y) = 365 + IF IS_LEAP(y) THEN 1 ELSE 0
  BY DEF DAYS_IN_YEAR

(* From the first of a year to the first of the next. *)
LEMMA YearsNext ==
  ASSUME NEW y \in Nat, y >= EPOCH_YEAR
  PROVE  /\ YearsTo(y + 1) = YearsTo(y) + DAYS_IN_YEAR(y)
         /\ YearsTo(y) \in Int /\ YearsTo(EPOCH_YEAR) = 0
<1>1. y - 1 \in Nat /\ (y - 1) + 1 = y /\ (y + 1) - 1 = y
  BY DEF EPOCH_YEAR
<1>2. Leaps(y) = Leaps(y - 1) + IF IS_LEAP(y) THEN 1 ELSE 0
  BY <1>1, LeapsNext
<1>3. Leaps(y - 1) \in Int /\ Leaps(EPOCH_YEAR - 1) \in Int /\ EPOCH_YEAR \in Nat
  <2>1. EPOCH_YEAR - 1 \in Nat /\ EPOCH_YEAR \in Nat
    BY DEF EPOCH_YEAR
  <2> QED BY <1>1, <2>1, LeapsNext
<1>4. /\ YearsTo(y + 1) = 365 * ((y + 1) - EPOCH_YEAR) + Leaps(y) - Leaps(EPOCH_YEAR - 1)
      /\ YearsTo(y) = 365 * (y - EPOCH_YEAR) + Leaps(y - 1) - Leaps(EPOCH_YEAR - 1)
      /\ YearsTo(EPOCH_YEAR) = 365 * (EPOCH_YEAR - EPOCH_YEAR) + Leaps(EPOCH_YEAR - 1) - Leaps(EPOCH_YEAR - 1)
  BY <1>1 DEF YearsTo
<1>5. DAYS_IN_YEAR(y) = 365 + IF IS_LEAP(y) THEN 1 ELSE 0
  BY YearLength
<1> QED BY <1>2, <1>3, <1>4, <1>5

(* Later years begin later. *)
LEMMA YearsGrow ==
  ASSUME NEW a \in Nat, a >= EPOCH_YEAR, NEW b \in Nat, a < b
  PROVE  YearsTo(a) + DAYS_IN_YEAR(a) <= YearsTo(b)
<1> DEFINE S == {k \in Nat : YearsTo(a + 1) <= YearsTo((a + 1) + k)}
<1>1. EPOCH_YEAR \in Nat
  BY DEF EPOCH_YEAR
<1>2. 0 \in S
  <2>1. (a + 1) + 0 = a + 1 /\ a + 1 \in Nat /\ a + 1 >= EPOCH_YEAR
    BY <1>1
  <2>2. YearsTo(a + 1) \in Int
    BY <2>1, YearsNext
  <2> QED BY <2>1, <2>2
<1>3. ASSUME NEW k \in Nat, k \in S PROVE k + 1 \in S
  <2> DEFINE y == (a + 1) + k
  <2>1. y \in Nat /\ y >= EPOCH_YEAR /\ (a + 1) + (k + 1) = y + 1 /\ a + 1 \in Nat /\ a + 1 >= EPOCH_YEAR
    BY <1>1
  <2>2. YearsTo(y + 1) = YearsTo(y) + DAYS_IN_YEAR(y) /\ YearsTo(y) \in Int /\ YearsTo(a + 1) \in Int
    BY <2>1, YearsNext
  <2>3. DAYS_IN_YEAR(y) \in Nat
    BY YearLength
  <2>4. YearsTo(a + 1) <= YearsTo(y)
    BY <1>3
  <2>5. YearsTo(a + 1) <= YearsTo(y + 1)
    <3> HIDE DEF y
    <3> QED BY <2>2, <2>3, <2>4
  <2>6. YearsTo(y + 1) = YearsTo((a + 1) + (k + 1))
    BY <2>1
  <2> HIDE DEF y
  <2> QED BY <2>5, <2>6
<1>4. b - (a + 1) \in S
  <2>1. b - (a + 1) \in Nat
    OBVIOUS
  <2> HIDE DEF S
  <2> QED BY <1>2, <1>3, <2>1, NatSetInduction
<1>5. (a + 1) + (b - (a + 1)) = b
  OBVIOUS
<1> QED BY <1>4, <1>5, YearsNext

(* No year begins before the epoch. *)
LEMMA YearsPositive ==
  ASSUME NEW y \in Nat, y >= EPOCH_YEAR
  PROVE  YearsTo(y) \in Nat
<1>1. EPOCH_YEAR \in Nat
  BY DEF EPOCH_YEAR
<1>2. YearsTo(EPOCH_YEAR) = 0 /\ YearsTo(y) \in Int /\ DAYS_IN_YEAR(EPOCH_YEAR) \in Nat
  BY YearsNext, YearLength
<1>3. CASE y = EPOCH_YEAR
  BY <1>2, <1>3
<1>4. CASE y # EPOCH_YEAR
  <2>1. EPOCH_YEAR < y
    BY <1>1, <1>4
  <2>2. YearsTo(EPOCH_YEAR) + DAYS_IN_YEAR(EPOCH_YEAR) <= YearsTo(y)
    BY <1>1, <2>1, YearsGrow
  <2> QED BY <1>2, <2>2
<1> QED BY <1>3, <1>4

(* A day is in one year. *)
LEMMA OneYear ==
  ASSUME NEW a \in Nat, a >= EPOCH_YEAR, NEW b \in Nat, b >= EPOCH_YEAR, NEW c \in Nat, NEW d \in Nat,
         c < DAYS_IN_YEAR(a), d < DAYS_IN_YEAR(b), YearsTo(a) + c = YearsTo(b) + d
  PROVE  a = b /\ c = d
<1>1. YearsTo(a) \in Int /\ YearsTo(b) \in Int /\ DAYS_IN_YEAR(a) \in Nat /\ DAYS_IN_YEAR(b) \in Nat
  BY YearsNext, YearLength
<1>2. ~ (a < b)
  <2> SUFFICES ASSUME a < b PROVE FALSE
    OBVIOUS
  <2>1. YearsTo(a) + DAYS_IN_YEAR(a) <= YearsTo(b)
    BY YearsGrow
  <2> QED BY <1>1, <2>1
<1>3. ~ (b < a)
  <2> SUFFICES ASSUME b < a PROVE FALSE
    OBVIOUS
  <2>1. YearsTo(b) + DAYS_IN_YEAR(b) <= YearsTo(a)
    BY YearsGrow
  <2> QED BY <1>1, <2>1
<1>4. a = b
  BY <1>2, <1>3
<1> QED BY <1>1, <1>4

(* The first loop of secondsToDate() finds the year, and the days gone in it. *)
IsYear(days, s) ==
  /\ s \in [year : Nat, days : Nat] /\ s.year >= EPOCH_YEAR
  /\ YearsTo(s.year) + s.days = days /\ s.days < DAYS_IN_YEAR(s.year)

LEMMA TakeYearsIs ==
  ASSUME NEW days \in Nat
  PROVE  IsYear(days, takeYears(days))
<1> DEFINE D == [year : Nat, days : 0..days]
           next(s) == [year |-> s.year + 1, days |-> s.days - DAYS_IN_YEAR(s.year)]
           more == {s \in D : s.days >= DAYS_IN_YEAR(s.year)}
           f == [s \in D |-> IF s \in more THEN next(s) ELSE s]
           mu == [s \in D |-> s.days]
           step(F) == [s \in D |-> IF s.days >= DAYS_IN_YEAR(s.year) THEN F[next(s)] ELSE s]
           take == CHOOSE F : F = step(F)
           I == {s \in D : s.year >= EPOCH_YEAR /\ YearsTo(s.year) + s.days = days}
           s0 == [year |-> EPOCH_YEAR, days |-> days]
<1>1. ASSUME NEW s \in D, s \in more
      PROVE  /\ next(s) \in D /\ next(s).year = s.year + 1
             /\ next(s).days = s.days - DAYS_IN_YEAR(s.year) /\ next(s).days < s.days
  <2>1. DAYS_IN_YEAR(s.year) \in Nat /\ DAYS_IN_YEAR(s.year) > 0
    BY YearLength
  <2>2. s.year \in Nat /\ s.days \in 0..days /\ s.days >= DAYS_IN_YEAR(s.year)
    BY <1>1
  <2>3. s.year + 1 \in Nat /\ s.days - DAYS_IN_YEAR(s.year) \in 0..days
    BY <2>1, <2>2
  <2> QED BY <2>1, <2>2, <2>3
<1>2. f \in [D -> D] /\ mu \in [D -> 0..days]
  BY <1>1
<1>3. Falls(D, more, f, mu)
  BY <1>1 DEF Falls
<1>4. \A F : Loops(F, D, more, f) <=> F = step(F)
  BY DEF Loops
<1>5. I \subseteq D /\ s0 \in I
  <2>1. EPOCH_YEAR \in Nat /\ EPOCH_YEAR >= EPOCH_YEAR
    BY DEF EPOCH_YEAR
  <2>2. YearsTo(EPOCH_YEAR) = 0
    BY <2>1, YearsNext
  <2> QED BY <2>1, <2>2
<1>6. ASSUME NEW s \in I, s \in more PROVE f[s] \in I
  <2>1. f[s] = next(s) /\ s \in D
    BY <1>6
  <2>2. next(s) \in D /\ next(s).year = s.year + 1 /\ next(s).days = s.days - DAYS_IN_YEAR(s.year)
    BY <1>1, <1>6, <2>1
  <2>3. s.year \in Nat /\ s.year >= EPOCH_YEAR /\ YearsTo(s.year) + s.days = days /\ s.days \in Nat
    BY <1>6
  <2>4. /\ YearsTo(s.year + 1) = YearsTo(s.year) + DAYS_IN_YEAR(s.year) /\ YearsTo(s.year) \in Int
        /\ DAYS_IN_YEAR(s.year) \in Nat
    BY <2>3, YearsNext, YearLength
  <2>5. s.year + 1 >= EPOCH_YEAR
    BY <2>3 DEF EPOCH_YEAR
  <2>6. YearsTo(next(s).year) + next(s).days = days
    BY <2>2, <2>3, <2>4
  <2> HIDE DEF next
  <2> QED BY <2>1, <2>2, <2>5, <2>6
<1>7. takeYears(days) = take[s0]
  BY DEF takeYears
<1> HIDE DEF D, next, more, f, mu, step, I, s0
<1>8. \E F : F = step(F)
  <2>1. \E F : Loops(F, D, more, f)
    BY <1>2, <1>3, LoopExists
  <2> QED BY <1>4, <2>1
<1>9. take = step(take)
  BY <1>8
<1>10. Loops(take, D, more, f)
  BY <1>4, <1>9
<1> HIDE DEF take
<1>11. take[s0] \in I /\ take[s0] \notin more
  <2>1. \A s \in I : s \in more => f[s] \in I
    BY <1>6
  <2> QED BY <2>1, <1>2, <1>3, <1>5, <1>10, LoopEnds
<1>12. ASSUME NEW s \in I, s \notin more PROVE IsYear(days, s)
  <2>1. s \in D /\ ~ (s.days >= DAYS_IN_YEAR(s.year)) /\ s.year >= EPOCH_YEAR /\ YearsTo(s.year) + s.days = days
    BY <1>5, <1>12 DEF I, more
  <2>2. s \in [year : Nat, days : Nat] /\ s.days \in Nat
    BY <2>1 DEF D
  <2>3. DAYS_IN_YEAR(s.year) \in Nat
    BY YearLength
  <2> QED BY <2>1, <2>2, <2>3 DEF IsYear
<1> QED BY <1>7, <1>11, <1>12
-----------------------------------------------------------------------------
(* The days from the first of the year to the first of a month. *)
MonthsTo(year, m) ==
  <<0, 31, 59, 90, 120, 151, 181, 212, 243, 273, 304, 334, 365>>[m + 1]
    + IF m > 1 /\ IS_LEAP(year) THEN 1 ELSE 0

(* The months of a year, one after the other. *)
LEMMA MonthsNext ==
  ASSUME NEW year, NEW m \in 0..11
  PROVE  /\ monthDays(year)[m + 1] \in 28..31
         /\ MonthsTo(year, m + 1) = MonthsTo(year, m) + monthDays(year)[m + 1]
         /\ MonthsTo(year, m) \in Nat /\ MonthsTo(year, 0) = 0
         /\ MonthsTo(year, 12) = DAYS_IN_YEAR(year)
<1>1. \/ m = 0 \/ m = 1 \/ m = 2 \/ m = 3 \/ m = 4 \/ m = 5
      \/ m = 6 \/ m = 7 \/ m = 8 \/ m = 9 \/ m = 10 \/ m = 11
  OBVIOUS
<1>2. MonthsTo(year, 0) = 0 /\ MonthsTo(year, 12) = DAYS_IN_YEAR(year)
  BY DEF MonthsTo, DAYS_IN_YEAR
<1>3. /\ monthDays(year)[m + 1] \in 28..31
      /\ MonthsTo(year, m + 1) = MonthsTo(year, m) + monthDays(year)[m + 1]
      /\ MonthsTo(year, m) \in Nat
  BY <1>1 DEF MonthsTo, monthDays
<1> QED BY <1>2, <1>3

(* Later months begin later. *)
LEMMA MonthsGrow ==
  ASSUME NEW year, NEW a \in 0..11, NEW b \in 0..12, a < b
  PROVE  MonthsTo(year, a) + monthDays(year)[a + 1] <= MonthsTo(year, b)
<1> DEFINE S == {k \in Nat : (a + 1) + k <= 12 => MonthsTo(year, a + 1) <= MonthsTo(year, (a + 1) + k)}
<1>1. \A i \in 0..12 : MonthsTo(year, i) \in Nat
  <2>1. ASSUME NEW i \in 0..12 PROVE MonthsTo(year, i) \in Nat
    <3>1. CASE i = 12
      BY <3>1, 0 \in 0..11, MonthsNext, YearLength
    <3>2. CASE i # 12
      BY <3>2, i \in 0..11, MonthsNext
    <3> QED BY <3>1, <3>2
  <2> QED BY <2>1
<1>2. 0 \in S
  <2>1. (a + 1) + 0 = a + 1 /\ a + 1 \in 0..12
    OBVIOUS
  <2> QED BY <1>1, <2>1
<1>3. ASSUME NEW k \in Nat, k \in S PROVE k + 1 \in S
  <2> SUFFICES ASSUME (a + 1) + (k + 1) <= 12
               PROVE  MonthsTo(year, a + 1) <= MonthsTo(year, (a + 1) + (k + 1))
    OBVIOUS
  <2>1. PICK i \in 0..11 : i = (a + 1) + k /\ i + 1 = (a + 1) + (k + 1)
    OBVIOUS
  <2>2. MonthsTo(year, i + 1) = MonthsTo(year, i) + monthDays(year)[i + 1] /\ monthDays(year)[i + 1] \in 28..31
    BY MonthsNext
  <2>3. MonthsTo(year, a + 1) <= MonthsTo(year, i)
    BY <1>3, <2>1
  <2>4. MonthsTo(year, a + 1) \in Nat /\ MonthsTo(year, i) \in Nat
    BY <1>1, a + 1 \in 0..12, i \in 0..12
  <2>5. MonthsTo(year, a + 1) <= MonthsTo(year, i + 1)
    BY <2>2, <2>3, <2>4
  <2> QED BY <2>1, <2>5
<1>4. b - (a + 1) \in S
  <2>1. b - (a + 1) \in Nat
    OBVIOUS
  <2> HIDE DEF S
  <2> QED BY <1>2, <1>3, <2>1, NatSetInduction
<1>5. (a + 1) + (b - (a + 1)) = b /\ b <= 12
  OBVIOUS
<1>6. MonthsTo(year, a + 1) <= MonthsTo(year, b)
  BY <1>4, <1>5
<1> QED BY <1>6, MonthsNext

(* Day n of the year is day c of month m, both counted from 0. *)
InMonth(year, n, m, c) ==
  /\ m \in 0..11 /\ c \in Nat /\ c < monthDays(year)[m + 1]
  /\ MonthsTo(year, m) + c = n

(* A day of a year is in one month. *)
LEMMA OneMonth ==
  ASSUME NEW year, NEW n, NEW a, NEW b, NEW c, NEW d, InMonth(year, n, a, c), InMonth(year, n, b, d)
  PROVE  a = b /\ c = d
<1>0. /\ a \in 0..11 /\ b \in 0..11 /\ c \in Nat /\ d \in Nat
      /\ c < monthDays(year)[a + 1] /\ d < monthDays(year)[b + 1]
      /\ MonthsTo(year, a) + c = MonthsTo(year, b) + d
  BY DEF InMonth
<1>1. /\ MonthsTo(year, a) \in Nat /\ MonthsTo(year, b) \in Nat
      /\ monthDays(year)[a + 1] \in Nat /\ monthDays(year)[b + 1] \in Nat
  <2>1. MonthsTo(year, a) \in Nat /\ monthDays(year)[a + 1] \in 28..31
    BY <1>0, MonthsNext
  <2>2. MonthsTo(year, b) \in Nat /\ monthDays(year)[b + 1] \in 28..31
    BY <1>0, MonthsNext
  <2> QED BY <2>1, <2>2
<1>2. ~ (a < b)
  <2> SUFFICES ASSUME a < b PROVE FALSE
    OBVIOUS
  <2>1. MonthsTo(year, a) + monthDays(year)[a + 1] <= MonthsTo(year, b)
    BY <1>0, b \in 0..12, MonthsGrow
  <2> QED BY <1>0, <1>1, <2>1
<1>3. ~ (b < a)
  <2> SUFFICES ASSUME b < a PROVE FALSE
    OBVIOUS
  <2>1. MonthsTo(year, b) + monthDays(year)[b + 1] <= MonthsTo(year, a)
    BY <1>0, a \in 0..12, MonthsGrow
  <2> QED BY <1>0, <1>1, <2>1
<1>4. a = b
  BY <1>0, <1>2, <1>3
<1> QED BY <1>0, <1>1, <1>4

(* The second loop of secondsToDate() finds the month, and the days gone in it. *)
IsMonth(year, days, s) ==
  s \in [month : 0..11, days : Nat] /\ InMonth(year, days, s.month, s.days)

LEMMA TakeMonthsIs ==
  ASSUME NEW year, NEW days \in Nat, days < DAYS_IN_YEAR(year)
  PROVE  IsMonth(year, days, takeMonths(year, days))
<1> DEFINE D == [month : 0..11, days : 0..days]
           next(s) == [month |-> s.month + 1, days |-> s.days - monthDays(year)[s.month + 1]]
           more == {s \in D : s.month < 11 /\ s.days >= monthDays(year)[s.month + 1]}
           f == [s \in D |-> IF s \in more THEN next(s) ELSE s]
           mu == [s \in D |-> s.days]
           step(F) == [s \in D |-> IF s.month < 11 /\ s.days >= monthDays(year)[s.month + 1]
                                   THEN F[next(s)] ELSE s]
           take == CHOOSE F : F = step(F)
           I == {s \in D : MonthsTo(year, s.month) + s.days = days}
           s0 == [month |-> 0, days |-> days]
<1>1. ASSUME NEW s \in D, s \in more
      PROVE  /\ next(s) \in D /\ next(s).month = s.month + 1
             /\ next(s).days = s.days - monthDays(year)[s.month + 1] /\ next(s).days < s.days
  <2>1. s.month \in 0..11 /\ s.days \in 0..days /\ s.month < 11 /\ s.days >= monthDays(year)[s.month + 1]
    BY <1>1
  <2>2. monthDays(year)[s.month + 1] \in 28..31
    BY <2>1, MonthsNext
  <2>3. s.month + 1 \in 0..11 /\ s.days - monthDays(year)[s.month + 1] \in 0..days
    BY <2>1, <2>2
  <2> QED BY <2>1, <2>2, <2>3
<1>2. f \in [D -> D] /\ mu \in [D -> 0..days]
  BY <1>1
<1>3. Falls(D, more, f, mu)
  BY <1>1 DEF Falls
<1>4. \A F : Loops(F, D, more, f) <=> F = step(F)
  BY DEF Loops
<1>5. I \subseteq D /\ s0 \in I
  <2>1. MonthsTo(year, 0) = 0
    BY 0 \in 0..11, MonthsNext
  <2> QED BY <2>1
<1>6. ASSUME NEW s \in I, s \in more PROVE f[s] \in I
  <2>1. f[s] = next(s) /\ s \in D
    BY <1>6
  <2>2. next(s) \in D /\ next(s).month = s.month + 1 /\ next(s).days = s.days - monthDays(year)[s.month + 1]
    BY <1>1, <1>6, <2>1
  <2>3. s.month \in 0..11 /\ MonthsTo(year, s.month) + s.days = days /\ s.days \in Nat
    BY <1>6
  <2>4. /\ MonthsTo(year, s.month + 1) = MonthsTo(year, s.month) + monthDays(year)[s.month + 1]
        /\ MonthsTo(year, s.month) \in Nat /\ monthDays(year)[s.month + 1] \in 28..31
    BY <2>3, MonthsNext
  <2>5. MonthsTo(year, next(s).month) + next(s).days = days
    BY <2>2, <2>3, <2>4
  <2> HIDE DEF next
  <2> QED BY <2>1, <2>2, <2>5
<1>7. takeMonths(year, days) = take[s0]
  BY DEF takeMonths
<1> HIDE DEF D, next, more, f, mu, step, I, s0
<1>8. \E F : F = step(F)
  <2>1. \E F : Loops(F, D, more, f)
    BY <1>2, <1>3, LoopExists
  <2> QED BY <1>4, <2>1
<1>9. take = step(take)
  BY <1>8
<1>10. Loops(take, D, more, f)
  BY <1>4, <1>9
<1> HIDE DEF take
<1>11. take[s0] \in I /\ take[s0] \notin more
  <2>1. \A s \in I : s \in more => f[s] \in I
    BY <1>6
  <2> QED BY <2>1, <1>2, <1>3, <1>5, <1>10, LoopEnds
<1>12. ASSUME NEW s \in I, s \notin more PROVE IsMonth(year, days, s)
  <2>1. /\ s \in D /\ ~ (s.month < 11 /\ s.days >= monthDays(year)[s.month + 1])
        /\ MonthsTo(year, s.month) + s.days = days
    BY <1>5, <1>12 DEF I, more
  <2>2. s \in [month : 0..11, days : Nat] /\ s.days \in Nat /\ s.month \in 0..11
    BY <2>1 DEF D
  <2>3. monthDays(year)[s.month + 1] \in 28..31
    BY <2>2, MonthsNext
  <2>4. CASE s.month < 11
    BY <2>1, <2>2, <2>3, <2>4 DEF IsMonth, InMonth
  <2>5. CASE ~ (s.month < 11)
    <3>1. s.month = 11 /\ s.month + 1 = 12
      BY <2>2, <2>5
    <3>2. /\ MonthsTo(year, 12) = MonthsTo(year, s.month) + monthDays(year)[s.month + 1]
          /\ MonthsTo(year, 12) = DAYS_IN_YEAR(year) /\ MonthsTo(year, s.month) \in Nat
      BY <2>2, <3>1, MonthsNext
    <3>3. s.days < monthDays(year)[s.month + 1]
      BY <2>1, <2>2, <2>3, <3>2
    <3> QED BY <2>1, <2>2, <3>3 DEF IsMonth, InMonth
  <2> QED BY <2>4, <2>5
<1> QED BY <1>7, <1>11, <1>12
-----------------------------------------------------------------------------
(* A date by its parts, c being the days gone in the month; the time of the
   day; and the time that the date is of. *)
DateOf(y, m, c, h, i, s) ==
  [year |-> y, month |-> m, day |-> c + 1, hours |-> h, minutes |-> i, seconds |-> s]

HourOf(sec)   == sec \div 3600
MinuteOf(sec) == (sec % 3600) \div 60
SecondOf(sec) == sec % 60

SecIs(sec, h, i, s) ==
  h \in 0..23 /\ i \in 0..59 /\ s \in 0..59 /\ sec = 3600 * h + 60 * i + s

TimeIs(t, h, i, s) == SecIs(t.sec, h, i, s)

Stands(t, y, m, c, h, i, s) ==
  /\ y \in Nat /\ y >= EPOCH_YEAR
  /\ InMonth(y, t.day - YearsTo(y), m, c) /\ TimeIs(t, h, i, s)

DayEnd == 24 * (60 * 60) - 1

LEMMA DayEndIs == DayEnd \in Nat /\ DayEnd < 24 * 3600
  BY SMT DEF DayEnd

Clock == [day : Nat, sec : SecondsOfDay]

LEMMA ClockIs ==
  ASSUME NEW t
  PROVE  /\ t \in Clock => t.day \in Nat /\ t.sec \in 0..DayEnd /\ t = [day |-> t.day, sec |-> t.sec]
         /\ t.day \in Nat /\ t.sec \in 0..DayEnd /\ t = [day |-> t.day, sec |-> t.sec] => t \in Clock
<1>1. SecondsOfDay = 0..DayEnd
  BY SMTT(60) DEF SecondsOfDay, DayEnd
<1> QED BY <1>1 DEF Clock

(* The seconds of a day in hours, minutes and seconds. *)
LEMMA TimeParts ==
  ASSUME NEW t, NEW h, NEW i, NEW s, TimeIs(t, h, i, s)
  PROVE  HourOf(t.sec) = h /\ MinuteOf(t.sec) = i /\ SecondOf(t.sec) = s
<1>0. h \in 0..23 /\ i \in 0..59 /\ s \in 0..59 /\ t.sec = 3600 * h + 60 * i + s
  BY SMT DEF TimeIs, SecIs
<1>1. PICK r \in 0..3599 : r = 60 * i + s
  BY <1>0, SMT
<1>2. t.sec = 3600 * h + r
  BY <1>0, <1>1, SMT
<1>3. t.sec \div 3600 = h /\ t.sec % 3600 = r
  BY <1>0, <1>2, SMT
<1>4. r \div 60 = i
  BY <1>0, <1>1, SMT
<1>5. PICK k \in Nat : k = 60 * h + i
  BY <1>0, SMT
<1>6. t.sec = 60 * k + s
  BY <1>0, <1>5, SMT
<1>7. t.sec % 60 = s
  BY <1>0, <1>6, SMT
<1> QED BY <1>3, <1>4, <1>7, SMT DEF HourOf, MinuteOf, SecondOf

(* Every second of a day has such parts. *)
LEMMA TimeHasParts ==
  ASSUME NEW sec \in 0..DayEnd
  PROVE  SecIs(sec, HourOf(sec), MinuteOf(sec), SecondOf(sec))
<1>1. sec \div 3600 \in 0..23 /\ sec % 3600 \in 0..3599 /\ sec = 3600 * (sec \div 3600) + (sec % 3600)
  <2>1. sec \in Nat /\ sec < 24 * 3600
    <3>1. sec \in Nat /\ sec <= DayEnd
      BY DayEndIs, SMT
    <3> QED BY <3>1, DayEndIs, SMT
  <2>2. sec \div 3600 \in Nat /\ sec % 3600 \in 0..3599 /\ sec = 3600 * (sec \div 3600) + (sec % 3600)
    BY <2>1, SMT
  <2> DEFINE q == sec \div 3600
             rest == sec % 3600
  <2> HIDE DEF q, rest
  <2>3. q \in Nat /\ rest \in 0..3599 /\ sec = 3600 * q + rest
    BY <2>2, SMT DEF q, rest
  <2>4. q <= 23
    BY <2>1, <2>3, SMT
  <2> QED BY <2>2, <2>3, <2>4, SMT DEF q
<1> DEFINE h == sec \div 3600
           r == sec % 3600
<1>2. r \div 60 \in 0..59 /\ r % 60 \in 0..59 /\ r = 60 * (r \div 60) + (r % 60)
  BY <1>1, SMT
<1>3. sec = 60 * (60 * h + r \div 60) + (r % 60)
  BY <1>1, <1>2, SMT
<1>4. sec % 60 = r % 60
  BY <1>1, <1>2, <1>3, SMT
<1> QED BY <1>1, <1>2, <1>4, SMT DEF SecIs, HourOf, MinuteOf, SecondOf

(* A day of a month is one of the year. *)
LEMMA DayOfYear ==
  ASSUME NEW y, NEW n, NEW m, NEW c, InMonth(y, n, m, c)
  PROVE  n \in Nat /\ n < DAYS_IN_YEAR(y)
<1>0. m \in 0..11 /\ c \in Nat /\ c < monthDays(y)[m + 1] /\ MonthsTo(y, m) + c = n
  BY DEF InMonth
<1>1. MonthsTo(y, m) \in Nat /\ monthDays(y)[m + 1] \in 28..31 /\ MonthsTo(y, 12) = DAYS_IN_YEAR(y)
  BY <1>0, MonthsNext
<1>2. MonthsTo(y, m) + monthDays(y)[m + 1] <= MonthsTo(y, 12)
  BY <1>0, 12 \in 0..12, m < 12, MonthsGrow
<1>3. DAYS_IN_YEAR(y) \in Nat
  BY YearLength
<1> QED BY <1>0, <1>1, <1>2, <1>3

(* secondsToDate() returns the date of a time, by its parts. *)
LEMMA DateIs ==
  ASSUME NEW t \in Clock, NEW y, NEW m, NEW c, NEW h, NEW i, NEW s, Stands(t, y, m, c, h, i, s)
  PROVE  secondsToDate(t) = DateOf(y, m, c, h, i, s)
<1>1. /\ y \in Nat /\ y >= EPOCH_YEAR /\ InMonth(y, t.day - YearsTo(y), m, c)
      /\ TimeIs(t, h, i, s)
  BY DEF Stands
<1>2. t.day \in Nat /\ YearsTo(y) \in Int
  BY <1>1, YearsNext, ClockIs
<1>3. PICK r : r = t.day - YearsTo(y)
  OBVIOUS
<1>4. InMonth(y, r, m, c) /\ r \in Nat /\ r < DAYS_IN_YEAR(y)
  BY <1>1, <1>3, DayOfYear
<1>5. PICK a : a = takeYears(t.day)
  OBVIOUS
<1>6. a \in [year : Nat, days : Nat] /\ a.year = y /\ a.days = r
  <2>1. /\ a \in [year : Nat, days : Nat] /\ a.year >= EPOCH_YEAR
        /\ YearsTo(a.year) + a.days = t.day /\ a.days < DAYS_IN_YEAR(a.year)
    BY <1>2, <1>5, TakeYearsIs DEF IsYear
  <2>2. a.year \in Nat /\ a.days \in Nat
    BY <2>1
  <2>3. YearsTo(a.year) + a.days = YearsTo(y) + r
    BY <1>2, <1>3, <2>1
  <2> QED BY <1>1, <1>4, <2>1, <2>2, <2>3, OneYear
<1>7. PICK b : b = takeMonths(y, r)
  OBVIOUS
<1>8. b.month = m /\ b.days = c
  <2>1. IsMonth(y, r, b)
    BY <1>4, <1>7, TakeMonthsIs
  <2>2. InMonth(y, r, b.month, b.days)
    BY <2>1 DEF IsMonth
  <2> QED BY <1>4, <2>2, OneMonth
<1>9. HourOf(t.sec) = h /\ MinuteOf(t.sec) = i /\ SecondOf(t.sec) = s
  BY <1>1, TimeParts
<1>10. takeMonths(takeYears(t.day).year, takeYears(t.day).days) = b
  BY <1>5, <1>6, <1>7
<1>11. secondsToDate(t) = [year |-> a.year, month |-> b.month, day |-> b.days + 1,
                           hours |-> HourOf(t.sec), minutes |-> MinuteOf(t.sec),
                           seconds |-> SecondOf(t.sec)]
  BY <1>5, <1>10, SMT DEF secondsToDate, HourOf, MinuteOf, SecondOf
<1> QED BY <1>6, <1>8, <1>9, <1>11, SMT DEF DateOf

(* Every time is the time of a date. *)
LEMMA TimeHasDate ==
  ASSUME NEW t \in Clock
  PROVE  \E y, m, c, h, i, s : Stands(t, y, m, c, h, i, s)
<1>1. t.day \in Nat /\ t.sec \in 0..DayEnd
  BY ClockIs
<1>2. PICK a : a = takeYears(t.day)
  OBVIOUS
<1>3. /\ a \in [year : Nat, days : Nat] /\ a.year >= EPOCH_YEAR
      /\ YearsTo(a.year) + a.days = t.day /\ a.days < DAYS_IN_YEAR(a.year)
  BY <1>1, <1>2, TakeYearsIs DEF IsYear
<1>4. a.year \in Nat /\ a.days \in Nat
  BY <1>3
<1>5. YearsTo(a.year) \in Int /\ a.days = t.day - YearsTo(a.year)
  BY <1>1, <1>3, <1>4, YearsNext
<1>6. PICK b : b = takeMonths(a.year, a.days)
  OBVIOUS
<1>7. InMonth(a.year, t.day - YearsTo(a.year), b.month, b.days)
  <2>1. IsMonth(a.year, a.days, b)
    BY <1>3, <1>4, <1>6, TakeMonthsIs
  <2> QED BY <1>5, <2>1 DEF IsMonth
<1>8. TimeIs(t, HourOf(t.sec), MinuteOf(t.sec), SecondOf(t.sec))
  BY <1>1, TimeHasParts DEF TimeIs
<1>9. Stands(t, a.year, b.month, b.days, HourOf(t.sec), MinuteOf(t.sec), SecondOf(t.sec))
  BY <1>3, <1>4, <1>7, <1>8 DEF Stands
<1> QED BY <1>9

(* The months of the calendar are those of the table. *)
LEMMA LastDayIs ==
  ASSUME NEW y \in Nat, NEW m \in 0..11
  PROVE  calendar!LastDay(y, m) = monthDays(y)[m + 1]
<1>1. ASSUME NEW w \in Nat \ {0} PROVE w * (y \div w) = y <=> y % w = 0
  BY SMT
<1>2. /\ 4 * (y \div 4) = y <=> y % 4 = 0
      /\ 100 * (y \div 100) = y <=> y % 100 = 0
      /\ 400 * (y \div 400) = y <=> y % 400 = 0
  BY <1>1
<1>3. (y % 400 = 0 => y % 100 = 0) /\ (y % 100 = 0 => y % 4 = 0)
  BY Divisible
<1>4. calendar!Leap(y) <=> IS_LEAP(y)
  BY <1>2, <1>3 DEF calendar!Leap, IS_LEAP
<1>5. \/ m = 0 \/ m = 1 \/ m = 2 \/ m = 3 \/ m = 4 \/ m = 5
      \/ m = 6 \/ m = 7 \/ m = 8 \/ m = 9 \/ m = 10 \/ m = 11
  OBVIOUS
<1> QED BY <1>4, <1>5 DEF calendar!LastDay, monthDays

(* The clock shows dates of the calendar. *)
LEMMA ShowsDate ==
  ASSUME NEW t \in Clock
  PROVE  calendar!Date(secondsToDate(t))
<1>1. PICK y, m, c, h, i, s : Stands(t, y, m, c, h, i, s)
  BY TimeHasDate
<1>2. secondsToDate(t) = DateOf(y, m, c, h, i, s)
  BY <1>1, DateIs
<1>3. /\ y \in Nat /\ m \in 0..11 /\ c \in Nat /\ c < monthDays(y)[m + 1]
      /\ h \in 0..23 /\ i \in 0..59 /\ s \in 0..59
  BY <1>1, SMT DEF Stands, InMonth, TimeIs, SecIs
<1>4. monthDays(y)[m + 1] \in 28..31 /\ calendar!LastDay(y, m) = monthDays(y)[m + 1]
  BY <1>3, MonthsNext, LastDayIs
<1>5. c + 1 \in 1..31 /\ c + 1 <= calendar!LastDay(y, m)
  BY <1>3, <1>4
<1> QED BY <1>2, <1>3, <1>5 DEF DateOf, calendar!Date, calendar!Dates

(* toieHandler() goes to the second after. *)
After(t) == IF t.sec = DayEnd THEN [day |-> t.day + 1, sec |-> 0]
                              ELSE [t EXCEPT !.sec = @ + 1]

(* The parts of the second after, in the six cases of the calendar. *)
LEMMA SecondAfter ==
  ASSUME NEW t \in Clock, NEW y, NEW m, NEW c, NEW h, NEW i, NEW s, Stands(t, y, m, c, h, i, s)
  PROVE  /\ After(t) \in Clock
         /\ s < 59 => Stands(After(t), y, m, c, h, i, s + 1)
         /\ s = 59 /\ i < 59 => Stands(After(t), y, m, c, h, i + 1, 0)
         /\ s = 59 /\ i = 59 /\ h < 23 => Stands(After(t), y, m, c, h + 1, 0, 0)
         /\ s = 59 /\ i = 59 /\ h = 23 =>
              /\ c + 1 < monthDays(y)[m + 1] => Stands(After(t), y, m, c + 1, 0, 0, 0)
              /\ c + 1 = monthDays(y)[m + 1] /\ m < 11 => Stands(After(t), y, m + 1, 0, 0, 0, 0)
              /\ c + 1 = monthDays(y)[m + 1] /\ m = 11 => Stands(After(t), y + 1, 0, 0, 0, 0, 0)
<1>1. /\ t.day \in Nat /\ t.sec \in 0..DayEnd
      /\ t = [day |-> t.day, sec |-> t.sec]
  BY ClockIs
<1>2. /\ y \in Nat /\ y >= EPOCH_YEAR /\ InMonth(y, t.day - YearsTo(y), m, c)
      /\ TimeIs(t, h, i, s)
  BY DEF Stands
<1>3. /\ h \in 0..23 /\ i \in 0..59 /\ s \in 0..59 /\ t.sec = 3600 * h + 60 * i + s
  BY <1>2, SMT DEF TimeIs, SecIs
<1>4. t.sec = DayEnd <=> s = 59 /\ i = 59 /\ h = 23
  BY <1>3, SMT DEF DayEnd
<1>5. CASE t.sec # DayEnd
  <2>1. After(t).day = t.day /\ After(t).sec = t.sec + 1
    BY <1>1, <1>5, SMT DEF After
  <2>2. After(t) \in Clock
    <3>1. After(t) = [day |-> t.day, sec |-> t.sec + 1]
      BY <1>1, <1>5 DEF After
    <3>2. t.sec + 1 \in 0..DayEnd
      <4>1. DayEnd \in Nat
        BY SMT DEF DayEnd
      <4> QED BY <1>1, <1>5, <4>1, SMT
    <3>3. After(t).day \in Nat /\ After(t).sec \in 0..DayEnd /\ After(t) = [day |-> After(t).day, sec |-> After(t).sec]
      BY <1>1, <3>1, <3>2
    <3> QED BY <3>3, ClockIs
  <2>3. /\ s < 59 => TimeIs(After(t), h, i, s + 1)
        /\ s = 59 /\ i < 59 => TimeIs(After(t), h, i + 1, 0)
        /\ s = 59 /\ i = 59 /\ h < 23 => TimeIs(After(t), h + 1, 0, 0)
    BY <1>3, <2>1, SMT DEF TimeIs, SecIs
  <2> QED BY <1>2, <1>4, <1>5, <2>1, <2>2, <2>3 DEF Stands
<1>6. CASE t.sec = DayEnd
  <2>1. After(t).day = t.day + 1 /\ After(t).sec = 0
    BY <1>1, <1>6, SMT DEF After
  <2>2. After(t) \in Clock
    <3>1. After(t) = [day |-> t.day + 1, sec |-> 0] /\ 0 \in 0..DayEnd
      BY <1>1, <1>6, SMT DEF After, DayEnd
    <3>3. After(t).day \in Nat /\ After(t).sec \in 0..DayEnd /\ After(t) = [day |-> After(t).day, sec |-> After(t).sec]
      BY <1>1, <3>1
    <3> QED BY <3>3, ClockIs
  <2>3. TimeIs(After(t), 0, 0, 0)
    BY <2>1, SMT DEF TimeIs, SecIs
  <2>4. /\ m \in 0..11 /\ c \in Nat /\ c < monthDays(y)[m + 1]
        /\ MonthsTo(y, m) + c = t.day - YearsTo(y)
    BY <1>2 DEF InMonth
  <2>5. /\ monthDays(y)[m + 1] \in 28..31
        /\ MonthsTo(y, m + 1) = MonthsTo(y, m) + monthDays(y)[m + 1]
        /\ MonthsTo(y, m) \in Nat
    BY <2>4, MonthsNext
  <2>6. YearsTo(y) \in Int /\ YearsTo(y + 1) = YearsTo(y) + DAYS_IN_YEAR(y)
    BY <1>2, YearsNext
  <2>7. c + 1 < monthDays(y)[m + 1] => InMonth(y, After(t).day - YearsTo(y), m, c + 1)
    BY <1>1, <2>1, <2>4, <2>5, <2>6 DEF InMonth
  <2>8. c + 1 = monthDays(y)[m + 1] /\ m < 11 => InMonth(y, After(t).day - YearsTo(y), m + 1, 0)
    <3> HAVE c + 1 = monthDays(y)[m + 1] /\ m < 11
    <3>1. m + 1 \in 0..11 /\ monthDays(y)[(m + 1) + 1] \in 28..31
      BY <2>4, MonthsNext
    <3> QED BY <3>1, <1>1, <2>1, <2>4, <2>5, <2>6 DEF InMonth
  <2>9. c + 1 = monthDays(y)[m + 1] /\ m = 11 => InMonth(y + 1, After(t).day - YearsTo(y + 1), 0, 0)
    <3> HAVE c + 1 = monthDays(y)[m + 1] /\ m = 11
    <3>1. /\ MonthsTo(y, 12) = DAYS_IN_YEAR(y) /\ MonthsTo(y, m + 1) = MonthsTo(y, 12)
          /\ MonthsTo(y + 1, 0) = 0 /\ monthDays(y + 1)[0 + 1] \in 28..31
      BY <2>4, 0 \in 0..11, MonthsNext
    <3> QED BY <3>1, <1>1, <2>1, <2>4, <2>5, <2>6 DEF InMonth
  <2>10. y + 1 \in Nat /\ y + 1 >= EPOCH_YEAR
    BY <1>2 DEF EPOCH_YEAR
  <2> QED BY <1>2, <1>4, <1>6, <2>2, <2>3, <2>7, <2>8, <2>9, <2>10 DEF Stands
<1> QED BY <1>5, <1>6

(* A date with one of its fields set. *)
SetYear(d, n)    == [d EXCEPT !.year = n]
SetMonth(d, n)   == [d EXCEPT !.month = n]
SetDay(d, n)     == [d EXCEPT !.day = n]
SetHours(d, n)   == [d EXCEPT !.hours = n]
SetMinutes(d, n) == [d EXCEPT !.minutes = n]
SetSeconds(d, n) == [d EXCEPT !.seconds = n]

LEMMA SetIs ==
  ASSUME NEW y, NEW m, NEW c, NEW h, NEW i, NEW s, NEW n
  PROVE  /\ SetYear(DateOf(y, m, c, h, i, s), n) = DateOf(n, m, c, h, i, s)
         /\ SetMonth(DateOf(y, m, c, h, i, s), n) = DateOf(y, n, c, h, i, s)
         /\ SetDay(DateOf(y, m, c, h, i, s), n + 1) = DateOf(y, m, n, h, i, s)
         /\ SetHours(DateOf(y, m, c, h, i, s), n) = DateOf(y, m, c, n, i, s)
         /\ SetMinutes(DateOf(y, m, c, h, i, s), n) = DateOf(y, m, c, h, n, s)
         /\ SetSeconds(DateOf(y, m, c, h, i, s), n) = DateOf(y, m, c, h, i, n)
  BY DEF DateOf, SetYear, SetMonth, SetDay, SetHours, SetMinutes, SetSeconds

Midnight(d) == SetSeconds(SetMinutes(SetHours(d, 0), 0), 0)

LEMMA FollowingIs ==
  ASSUME NEW d
  PROVE  calendar!Following(d) =
           IF d.seconds < 59 THEN SetSeconds(d, d.seconds + 1) ELSE
           IF d.minutes < 59 THEN SetSeconds(SetMinutes(d, d.minutes + 1), 0) ELSE
           IF d.hours < 23   THEN SetSeconds(SetMinutes(SetHours(d, d.hours + 1), 0), 0) ELSE
           IF d.day < calendar!LastDay(d.year, d.month) THEN SetDay(Midnight(d), Midnight(d).day + 1) ELSE
           IF d.month < 11 THEN SetDay(SetMonth(Midnight(d), Midnight(d).month + 1), 1)
           ELSE SetDay(SetMonth(SetYear(Midnight(d), Midnight(d).year + 1), 0), 1)
  BY DEF calendar!Following, Midnight, SetYear, SetMonth, SetDay, SetHours, SetMinutes, SetSeconds

(* The date of the second after is the calendar's. *)
LEMMA TickFollows ==
  ASSUME NEW t \in Clock
  PROVE  secondsToDate(After(t)) = calendar!Following(secondsToDate(t))
<1>1. PICK y, m, c, h, i, s : Stands(t, y, m, c, h, i, s)
  BY TimeHasDate
<1>2. secondsToDate(t) = DateOf(y, m, c, h, i, s)
  BY <1>1, DateIs
<1>3. /\ y \in Nat /\ m \in 0..11 /\ c \in Nat /\ c < monthDays(y)[m + 1]
      /\ h \in 0..23 /\ i \in 0..59 /\ s \in 0..59
  BY <1>1, SMT DEF Stands, InMonth, TimeIs, SecIs
<1>4. monthDays(y)[m + 1] \in 28..31 /\ calendar!LastDay(y, m) = monthDays(y)[m + 1]
  BY <1>3, MonthsNext, LastDayIs
<1>5. After(t) \in Clock
  BY <1>1, SecondAfter
<1>6. PICK d : d = DateOf(y, m, c, h, i, s)
  OBVIOUS
<1>7. /\ d.year = y /\ d.month = m /\ d.day = c + 1 /\ d.hours = h /\ d.minutes = i /\ d.seconds = s
      /\ d.day < calendar!LastDay(d.year, d.month) <=> c + 1 < monthDays(y)[m + 1]
  BY <1>4, <1>6 DEF DateOf
<1>14. /\ Midnight(d) = DateOf(y, m, c, 0, 0, 0)
       /\ Midnight(d).year = y /\ Midnight(d).month = m /\ Midnight(d).day = c + 1
  <2>1. Midnight(d) = DateOf(y, m, c, 0, 0, 0)
    BY <1>6, SetIs DEF Midnight
  <2> QED BY <2>1 DEF DateOf
<1>8. CASE s < 59
  <2>1. secondsToDate(After(t)) = DateOf(y, m, c, h, i, s + 1)
    BY <1>1, <1>5, <1>8, SecondAfter, DateIs
  <2>2. calendar!Following(d) = DateOf(y, m, c, h, i, s + 1)
    BY <1>3, <1>6, <1>7, <1>8, FollowingIs, SetIs
  <2> QED BY <1>2, <1>6, <2>1, <2>2
<1>9. CASE s = 59 /\ i < 59
  <2>1. secondsToDate(After(t)) = DateOf(y, m, c, h, i + 1, 0)
    BY <1>1, <1>5, <1>9, SecondAfter, DateIs
  <2>2. calendar!Following(d) = DateOf(y, m, c, h, i + 1, 0)
    BY <1>3, <1>6, <1>7, <1>9, FollowingIs, SetIs
  <2> QED BY <1>2, <1>6, <2>1, <2>2
<1>10. CASE s = 59 /\ i = 59 /\ h < 23
  <2>1. secondsToDate(After(t)) = DateOf(y, m, c, h + 1, 0, 0)
    BY <1>1, <1>5, <1>10, SecondAfter, DateIs
  <2>2. calendar!Following(d) = DateOf(y, m, c, h + 1, 0, 0)
    BY <1>3, <1>6, <1>7, <1>10, FollowingIs, SetIs
  <2> QED BY <1>2, <1>6, <2>1, <2>2
<1>11. CASE s = 59 /\ i = 59 /\ h = 23 /\ c + 1 < monthDays(y)[m + 1]
  <2>1. secondsToDate(After(t)) = DateOf(y, m, c + 1, 0, 0, 0)
    BY <1>1, <1>5, <1>11, SecondAfter, DateIs
  <2>2. calendar!Following(d) = DateOf(y, m, c + 1, 0, 0, 0)
    BY <1>3, <1>6, <1>7, <1>11, FollowingIs, SetIs, <1>14
  <2> QED BY <1>2, <1>6, <2>1, <2>2
<1>12. CASE s = 59 /\ i = 59 /\ h = 23 /\ c + 1 = monthDays(y)[m + 1] /\ m < 11
  <2>1. secondsToDate(After(t)) = DateOf(y, m + 1, 0, 0, 0, 0)
    BY <1>1, <1>5, <1>12, SecondAfter, DateIs
  <2>2. calendar!Following(d) = DateOf(y, m + 1, 0, 0, 0, 0)
    BY <1>3, <1>6, <1>7, <1>12, FollowingIs, SetIs, <1>14
  <2> QED BY <1>2, <1>6, <2>1, <2>2
<1>13. CASE s = 59 /\ i = 59 /\ h = 23 /\ c + 1 = monthDays(y)[m + 1] /\ m = 11
  <2>1. secondsToDate(After(t)) = DateOf(y + 1, 0, 0, 0, 0, 0)
    BY <1>1, <1>5, <1>13, SecondAfter, DateIs
  <2>2. calendar!Following(d) = DateOf(y + 1, 0, 0, 0, 0, 0)
    BY <1>3, <1>6, <1>7, <1>13, FollowingIs, SetIs, <1>14
  <2> QED BY <1>2, <1>6, <2>1, <2>2
<1> QED BY <1>3, <1>4, <1>8, <1>9, <1>10, <1>11, <1>12, <1>13
-----------------------------------------------------------------------------
(* The first days of the months, as dateToSeconds() adds them up. *)
LEMMA DaysBeforeIs ==
  ASSUME NEW year, NEW month \in 0..11
  PROVE  daysBefore(year, month) = MonthsTo(year, month)
<1> DEFINE step(F) == [i \in 0..month |-> IF i = 0 THEN 0 ELSE F[i - 1] + monthDays(year)[i]]
           sum == CHOOSE F : F = step(F)
           h == [i \in 0..month |-> MonthsTo(year, i)]
           S == {k \in Nat : k <= month => sum[k] = MonthsTo(year, k)}
<1>1. ASSUME NEW i \in 0..month, i # 0
      PROVE  MonthsTo(year, i) = MonthsTo(year, i - 1) + monthDays(year)[i]
  <2>1. i - 1 \in 0..11 /\ (i - 1) + 1 = i
    BY <1>1
  <2>2. MonthsTo(year, (i - 1) + 1) = MonthsTo(year, i - 1) + monthDays(year)[(i - 1) + 1]
    BY <2>1, MonthsNext
  <2> QED BY <2>1, <2>2
<1>2. MonthsTo(year, 0) = 0
  BY 0 \in 0..11, MonthsNext
<1>3. h = step(h)
  <2>1. ASSUME NEW i \in 0..month PROVE MonthsTo(year, i) = IF i = 0 THEN 0 ELSE h[i - 1] + monthDays(year)[i]
    <3>1. CASE i = 0
      BY <1>2, <3>1
    <3>2. CASE i # 0
      <4>1. i - 1 \in 0..month
        BY <3>2
      <4>2. h[i - 1] = MonthsTo(year, i - 1)
        BY <4>1
      <4>3. MonthsTo(year, i) = MonthsTo(year, i - 1) + monthDays(year)[i]
        BY <1>1, <3>2
      <4> HIDE DEF h
      <4> QED BY <3>2, <4>2, <4>3
    <3> QED BY <3>1, <3>2
  <2> QED BY <2>1
<1>4. sum = step(sum)
  <2> HIDE DEF h, step
  <2> QED BY <1>3
<1>5. daysBefore(year, month) = sum[month]
  BY DEF daysBefore
<1> HIDE DEF sum
<1>6. 0 \in S
  <2>1. sum[0] = step(sum)[0]
    BY <1>4
  <2> QED BY <1>2, <2>1
<1>7. ASSUME NEW k \in Nat, k \in S PROVE k + 1 \in S
  <2> SUFFICES ASSUME k + 1 <= month PROVE sum[k + 1] = MonthsTo(year, k + 1)
    OBVIOUS
  <2>1. sum[k] = MonthsTo(year, k) /\ k + 1 \in 0..month /\ k + 1 # 0 /\ (k + 1) - 1 = k
    BY <1>7
  <2>2. sum[k + 1] = step(sum)[k + 1]
    BY <1>4
  <2>3. step(sum)[k + 1] = sum[k] + monthDays(year)[k + 1]
    BY <2>1
  <2>4. MonthsTo(year, k + 1) = MonthsTo(year, k) + monthDays(year)[k + 1]
    BY <1>1, <2>1
  <2> HIDE DEF step
  <2> QED BY <2>1, <2>2, <2>3, <2>4
<1>8. month \in S
  <2> HIDE DEF S
  <2> QED BY <1>6, <1>7, NatSetInduction
<1> QED BY <1>5, <1>8

(* The first days of the years, as it adds them up: the length of the date's
   own year where that of the epoch's should be, which only a leap year shows. *)
LEMMA YearDaysIs ==
  ASSUME NEW year \in Nat, year >= EPOCH_YEAR, ~ IS_LEAP(year)
  PROVE  yearDays(year) = YearsTo(year)
<1> DEFINE step(F) == [y \in EPOCH_YEAR..year |->
                         IF y > EPOCH_YEAR THEN DAYS_IN_YEAR(y) + F[y - 1] ELSE 0]
           down == CHOOSE F : F = step(F)
           at(y) == YearsTo(y + 1) - YearsTo(EPOCH_YEAR + 1)
           h == [y \in EPOCH_YEAR..year |-> at(y)]
           S == {k \in Nat : EPOCH_YEAR + k <= year => down[EPOCH_YEAR + k] = at(EPOCH_YEAR + k)}
<1>0. EPOCH_YEAR \in Nat /\ EPOCH_YEAR > 0
  BY DEF EPOCH_YEAR
<1>1. ASSUME NEW y \in EPOCH_YEAR..year
      PROVE  /\ at(y) \in Int /\ at(EPOCH_YEAR) = 0
             /\ y > EPOCH_YEAR => at(y) = DAYS_IN_YEAR(y) + at(y - 1)
  <2>1. /\ y \in Nat /\ y >= EPOCH_YEAR /\ y + 1 \in Nat /\ y + 1 >= EPOCH_YEAR
        /\ EPOCH_YEAR + 1 \in Nat /\ EPOCH_YEAR + 1 >= EPOCH_YEAR
    BY <1>0
  <2>2. YearsTo(y + 1) \in Int /\ YearsTo(EPOCH_YEAR + 1) \in Int
    BY <2>1, YearsNext
  <2>3. YearsTo(y + 1) = YearsTo(y) + DAYS_IN_YEAR(y) /\ YearsTo(y) \in Int /\ DAYS_IN_YEAR(y) \in Nat
    BY <2>1, YearsNext, YearLength
  <2>4. at(y - 1) = YearsTo(y) - YearsTo(EPOCH_YEAR + 1)
    <3>1. (y - 1) + 1 = y
      BY <2>1
    <3> QED BY <3>1
  <2> QED BY <2>2, <2>3, <2>4
<1> HIDE DEF at
<1>3. h = step(h)
  <2>1. ASSUME NEW y \in EPOCH_YEAR..year
        PROVE  at(y) = IF y > EPOCH_YEAR THEN DAYS_IN_YEAR(y) + h[y - 1] ELSE 0
    <3>1. CASE y = EPOCH_YEAR
      BY <1>0, <1>1, <3>1
    <3>2. CASE y > EPOCH_YEAR
      <4>1. y - 1 \in EPOCH_YEAR..year
        BY <1>0, <3>2
      <4>2. h[y - 1] = at(y - 1)
        BY <4>1
      <4>3. at(y) = DAYS_IN_YEAR(y) + at(y - 1)
        BY <1>1, <3>2
      <4> HIDE DEF h
      <4> QED BY <3>2, <4>2, <4>3
    <3> QED BY <1>0, <3>1, <3>2
  <2> QED BY <2>1
<1>4. down = step(down)
  <2> HIDE DEF h, step
  <2> QED BY <1>3
<1>5. yearDays(year) = down[year]
  BY DEF yearDays
<1> HIDE DEF down
<1>6. 0 \in S
  <2>1. EPOCH_YEAR \in EPOCH_YEAR..year /\ EPOCH_YEAR + 0 = EPOCH_YEAR /\ ~ (EPOCH_YEAR > EPOCH_YEAR)
    BY <1>0
  <2>2. down[EPOCH_YEAR] = step(down)[EPOCH_YEAR]
    BY <1>4
  <2>3. step(down)[EPOCH_YEAR] = 0 /\ at(EPOCH_YEAR) = 0
    BY <1>1, <2>1
  <2> HIDE DEF step
  <2> QED BY <2>1, <2>2, <2>3
<1>7. ASSUME NEW k \in Nat, k \in S PROVE k + 1 \in S
  <2> SUFFICES ASSUME EPOCH_YEAR + (k + 1) <= year
               PROVE  down[EPOCH_YEAR + (k + 1)] = at(EPOCH_YEAR + (k + 1))
    OBVIOUS
  <2>1. PICK y \in EPOCH_YEAR..year : y = EPOCH_YEAR + (k + 1) /\ y > EPOCH_YEAR /\ y - 1 = EPOCH_YEAR + k
    BY <1>0
  <2>2. down[y - 1] = at(y - 1)
    BY <1>0, <1>7, <2>1
  <2>3. down[y] = step(down)[y]
    BY <1>4
  <2>4. step(down)[y] = DAYS_IN_YEAR(y) + down[y - 1]
    BY <2>1
  <2>5. at(y) = DAYS_IN_YEAR(y) + at(y - 1)
    BY <1>1, <2>1
  <2> HIDE DEF step
  <2> QED BY <2>1, <2>2, <2>3, <2>4, <2>5
<1>8. year - EPOCH_YEAR \in S
  <2>1. year - EPOCH_YEAR \in Nat
    BY <1>0
  <2> HIDE DEF S
  <2> QED BY <1>6, <1>7, <2>1, NatSetInduction
<1>9. down[year] = at(year)
  <2>1. EPOCH_YEAR + (year - EPOCH_YEAR) = year
    BY <1>0
  <2> QED BY <1>8, <2>1
<1>10. at(year) = YearsTo(year)
  <2>1. YearsTo(year + 1) = YearsTo(year) + DAYS_IN_YEAR(year) /\ YearsTo(year) \in Int
    BY <1>0, YearsNext
  <2>2. /\ YearsTo(EPOCH_YEAR + 1) = YearsTo(EPOCH_YEAR) + DAYS_IN_YEAR(EPOCH_YEAR)
        /\ YearsTo(EPOCH_YEAR) = 0
    BY <1>0, YearsNext
  <2>3. DAYS_IN_YEAR(year) = 365 /\ DAYS_IN_YEAR(EPOCH_YEAR) = 365
    BY DEF DAYS_IN_YEAR, IS_LEAP, EPOCH_YEAR
  <2> QED BY <2>1, <2>2, <2>3 DEF at
<1> QED BY <1>5, <1>9, <1>10

(* A request for a date of a common year, from the epoch on. *)
Common(r) ==
  calendar!Date(meantBy(r)) /\ meantBy(r).year >= EPOCH_YEAR /\ ~ IS_LEAP(meantBy(r).year)

(* The second of the day that dateToSeconds() makes of a time. *)
SumOf(h, i, s) == s + i * 60 + h * 3600
OneDay(sec)    == sec \div 86400 = 0 /\ sec % 86400 = sec

LEMMA SumIs ==
  ASSUME NEW h \in 0..23, NEW i \in 0..59, NEW s \in 0..59
  PROVE  /\ SecIs(SumOf(h, i, s), h, i, s) /\ SumOf(h, i, s) \in 0..DayEnd
         /\ OneDay(SumOf(h, i, s))
<1>1. PICK sec \in Int : sec = SumOf(h, i, s) /\ 0 <= sec /\ sec <= DayEnd
  <2>1. s + i * 60 + h * 3600 \in Int
    BY SMT
  <2>2. 0 <= s + i * 60 + h * 3600 /\ s + i * 60 + h * 3600 <= 86399
    BY SMT
  <2> QED BY <2>1, <2>2, SMT DEF SumOf, DayEnd
<1>2. SecIs(SumOf(h, i, s), h, i, s)
  BY SMT DEF SumOf, SecIs
<1>3. SumOf(h, i, s) \in 0..DayEnd
  <2>1. DayEnd \in Nat
    BY SMT DEF DayEnd
  <2> QED BY <1>1, <2>1, SMT
<1>4. OneDay(SumOf(h, i, s))
  BY <1>1, SMT DEF OneDay, DayEnd
<1> QED BY <1>2, <1>3, <1>4

(* writeDate() sets the time whose date was meant. *)
LEMMA WriteIs ==
  ASSUME NEW r \in Seq(Nat), Len(r) \in 1..6, Common(r)
  PROVE  /\ dateToSeconds(parse(r)) \in Clock
         /\ secondsToDate(dateToSeconds(parse(r))) = meantBy(r)
<1> DEFINE d == parse(r)
           y == d.year
           m == d.month
           c == d.day
           h == d.hours
           i == d.minutes
           s == d.seconds
           t == dateToSeconds(d)
<1>1. meantBy(r) = DateOf(y, m, c, h, i, s)
  <2>1. meantBy(r).month \in 0..11 /\ meantBy(r).day \in 1..31
    BY DEF Common, calendar!Date, calendar!Dates
  <2>2. Len(r) \in Nat /\ Len(r) >= 1 /\ y = r[1]
    <3>1. Len(r) \in Nat /\ Len(r) >= 1
      <4>1. PICK n \in 1..6 : n = Len(r)
        OBVIOUS
      <4> QED BY <4>1
    <3>2. y = numberAt(r, 1)
      BY DEF parse
    <3> QED BY <3>1, <3>2 DEF numberAt
  <2>3. m = IF Len(r) < 2 THEN 0 ELSE r[2] - 1
    <3>1. CASE Len(r) < 2
      BY <3>1 DEF parse, numberAt
    <3>2. CASE ~ (Len(r) < 2)
      <4>1. r[2] \in Nat /\ r[2] - 1 \in 0..11
        BY <2>1, <3>2 DEF meantBy
      <4> QED BY <3>2, <4>1 DEF parse, numberAt
    <3> QED BY <3>1, <3>2
  <2>4. c + 1 = IF Len(r) < 3 THEN 1 ELSE r[3]
    <3>1. CASE Len(r) < 3
      BY <3>1 DEF parse, numberAt
    <3>2. CASE ~ (Len(r) < 3)
      <4>1. r[3] \in Nat /\ r[3] \in 1..31
        BY <2>1, <3>2 DEF meantBy
      <4>2. numberAt(r, 3) = r[3]
        BY <2>2, <3>2 DEF numberAt
      <4>3. c = IF numberAt(r, 3) > 0 THEN numberAt(r, 3) - 1 ELSE 0
        BY DEF parse
      <4> HIDE DEF d
      <4>4. PICK n \in 1..31 : n = r[3]
        BY <4>1
      <4>5. c = n - 1
        <5>1. c = IF n > 0 THEN n - 1 ELSE 0
          BY <4>2, <4>3, <4>4, Zenon
        <5>2. n > 0
          OBVIOUS
        <5> QED BY <5>1, <5>2
      <4>6. c + 1 = n
        BY <4>5
      <4> QED BY <3>2, <4>4, <4>6
    <3> QED BY <3>1, <3>2
  <2>5. h = numberAt(r, 4) /\ i = numberAt(r, 5) /\ s = numberAt(r, 6)
    BY DEF parse
  <2> HIDE DEF d
  <2> QED BY <2>2, <2>3, <2>4, <2>5 DEF meantBy, DateOf
<1>2. /\ y \in Nat /\ y >= EPOCH_YEAR /\ ~ IS_LEAP(y) /\ m \in 0..11
      /\ c + 1 \in 1..31 /\ c + 1 <= calendar!LastDay(y, m)
      /\ h \in 0..23 /\ i \in 0..59 /\ s \in 0..59
  <2> HIDE DEF d
  <2>1. /\ meantBy(r).year = y /\ meantBy(r).month = m /\ meantBy(r).day = c + 1
        /\ meantBy(r).hours = h /\ meantBy(r).minutes = i /\ meantBy(r).seconds = s
    BY <1>1 DEF DateOf
  <2> QED BY <2>1 DEF Common, calendar!Date, calendar!Dates
<1>3. c \in Nat /\ c < monthDays(y)[m + 1]
  <2>1. c \in Nat
    BY DEF parse, numberAt
  <2>2. monthDays(y)[m + 1] \in 28..31 /\ calendar!LastDay(y, m) = monthDays(y)[m + 1]
    <3> HIDE DEF d
    <3> QED BY <1>2, MonthsNext, LastDayIs
  <2> HIDE DEF d
  <2> QED BY <1>2, <2>1, <2>2
<1> HIDE DEF d
<1>4. PICK sec : sec = SumOf(h, i, s)
  OBVIOUS
<1>5. SecIs(sec, h, i, s) /\ sec \in 0..DayEnd /\ OneDay(sec)
  BY <1>2, <1>4, SumIs
<1>7. t = [day |-> YearsTo(y) + MonthsTo(y, m) + c, sec |-> sec]
  <2>1. yearDays(y) = YearsTo(y) /\ daysBefore(y, m) = MonthsTo(y, m)
    BY <1>2, YearDaysIs, DaysBeforeIs
  <2>2. YearsTo(y) \in Int /\ MonthsTo(y, m) \in Nat
    BY <1>2, YearsNext, MonthsNext
  <2>3. t = [day |-> yearDays(y) + daysBefore(y, m) + c + 0, sec |-> sec]
    BY <1>4, <1>5, SMT DEF dateToSeconds, SumOf, OneDay
  <2> QED BY <1>3, <2>1, <2>2, <2>3
<1>8. t \in Clock
  <2>1. YearsTo(y) \in Nat
    BY <1>2, YearsPositive
  <2>2. MonthsTo(y, m) \in Nat
    BY <1>2, MonthsNext
  <2>3. YearsTo(y) + MonthsTo(y, m) + c \in Nat
    BY <1>3, <2>1, <2>2
  <2> QED BY <1>5, <1>7, <2>3, ClockIs
<1>9. Stands(t, y, m, c, h, i, s)
  <2>1. t.sec = sec /\ t.day = YearsTo(y) + MonthsTo(y, m) + c
    BY <1>7
  <2>2. YearsTo(y) \in Int /\ MonthsTo(y, m) \in Nat
    BY <1>2, YearsNext, MonthsNext
  <2>3. InMonth(y, t.day - YearsTo(y), m, c)
    BY <1>2, <1>3, <2>1, <2>2 DEF InMonth
  <2>4. TimeIs(t, h, i, s)
    BY <1>5, <2>1 DEF TimeIs
  <2> QED BY <1>2, <2>3, <2>4 DEF Stands
<1>10. secondsToDate(t) = DateOf(y, m, c, h, i, s)
  BY <1>8, <1>9, DateIs
<1> QED BY <1>1, <1>8, <1>10 DEF d
-----------------------------------------------------------------------------
(* The date file implements the calendar clock, from any time on and for every
   date of a common year that is set: each second reads as the date after the
   one before (toieHandler, secondsToDate), and what is set is what the clock
   goes on from (writeDate, dateToSeconds). *)
THEOREM DateFileIsCalendar ==
  ASSUME DateAssumption, \A r \in Requests : Common(r)
  PROVE  DateSpec => ImplementsCalendar
<1> DEFINE Inv == timestamp \in Clock
<1>0. Times \subseteq Clock /\ \A r \in Requests : r \in Seq(Nat) /\ Len(r) \in 1..6
  BY DEF DateAssumption, Clock
<1>1. DateInit => Inv
  BY <1>0 DEF DateInit
<1>2. \A r \in Requests : /\ dateToSeconds(parse(r)) \in Clock
                          /\ secondsToDate(dateToSeconds(parse(r))) = meantBy(r)
  BY <1>0, WriteIs
<1>3. toieHandler => timestamp' = After(timestamp)
  BY SMT DEF toieHandler, After, DayEnd
<1>4. Inv /\ [DateNext]_dateVars => Inv'
  <2> SUFFICES ASSUME Inv, [DateNext]_dateVars PROVE Inv'
    OBVIOUS
  <2>1. ASSUME NEW r \in Requests, writeDate(r) PROVE Inv'
    BY <1>2, <2>1 DEF writeDate
  <2>2. CASE readDate
    BY <2>2 DEF readDate
  <2>3. CASE toieHandler
    <3>1. PICK y, m, c, h, i, s : Stands(timestamp, y, m, c, h, i, s)
      BY TimeHasDate
    <3>2. After(timestamp) \in Clock
      BY <3>1, SecondAfter
    <3> QED BY <1>3, <2>3, <3>2
  <2>4. CASE UNCHANGED dateVars
    BY <2>4 DEF dateVars
  <2> QED BY <2>1, <2>2, <2>3, <2>4 DEF DateNext
<1>5. DateInit => calendar!Init
  <2> SUFFICES ASSUME DateInit PROVE calendar!Init
    OBVIOUS
  <2>1. calendar!Date(secondsToDate(timestamp))
    BY <1>1, ShowsDate
  <2> QED BY <2>1 DEF DateInit, calendar!Init
<1>6. Inv /\ [DateNext]_dateVars =>
        [calendar!Next]_<<secondsToDate(timestamp), asked, shown>>
  <2> SUFFICES ASSUME Inv, [DateNext]_dateVars
               PROVE  [calendar!Next]_<<secondsToDate(timestamp), asked, shown>>
    OBVIOUS
  <2>1. ASSUME NEW r \in Requests, writeDate(r) PROVE calendar!Set
    <3>1. secondsToDate(timestamp') = meantBy(r) /\ calendar!Date(meantBy(r))
      BY <1>2, <2>1 DEF writeDate, Common
    <3> QED BY <2>1, <3>1 DEF writeDate, calendar!Set
  <2>2. ASSUME readDate PROVE calendar!Read
    <3>1. timestamp' = timestamp
      BY <2>2 DEF readDate
    <3>2. secondsToDate(timestamp') = secondsToDate(timestamp)
      BY <3>1
    <3> QED BY <2>2, <3>2 DEF readDate, calendar!Read
  <2>3. ASSUME toieHandler PROVE calendar!Tick
    <3>1. secondsToDate(timestamp') = calendar!Following(secondsToDate(timestamp))
      BY <1>3, <2>3, TickFollows
    <3> QED BY <2>3, <3>1 DEF toieHandler, calendar!Tick
  <2>4. ASSUME UNCHANGED dateVars PROVE UNCHANGED <<secondsToDate(timestamp), asked, shown>>
    <3>1. secondsToDate(timestamp') = secondsToDate(timestamp)
      BY <2>4 DEF dateVars
    <3> QED BY <2>4, <3>1 DEF dateVars
  <2> QED BY <2>1, <2>2, <2>3, <2>4 DEF DateNext, calendar!Next
<1> QED BY <1>1, <1>4, <1>5, <1>6, PTL DEF DateSpec, ImplementsCalendar, calendar!Spec
-----------------------------------------------------------------------------
(* The nodes of a tree are those of the table but the sentinel, and the children
   of a node are the entries that name it as their parent. *)
LEMMA NodesOfTree ==
  ASSUME NEW n, IsTree(ns, n)
  PROVE  /\ n \in Nat \ {0} /\ Max(DOMAIN ns) = n /\ Nodes = 0..(n - 1)
         /\ \A i \in 0..(n - 1) : Children(i) = Kids(ns, n, i)
         /\ \A i \in 0..(n - 1) : STATICNS_CRUMB_SELF_IDX(ns[i].crumb) = i
<1>1. n \in Nat \ {0} /\ DOMAIN ns = 0..n /\ n \in DOMAIN ns
  BY WidthsAre DEF IsTree, MaxTable
<1>2. \A y \in DOMAIN ns : y \in Int /\ y <= n
  BY <1>1
<1>3. Max(DOMAIN ns) = n
  BY <1>1, <1>2, MaxIs
<1>4. Nodes = 0..(n - 1)
  BY <1>1, <1>3 DEF Nodes
<1>5. ASSUME NEW i \in 0..(n - 1) PROVE Children(i) = Kids(ns, n, i)
  <2>1. Nodes \ {0} = 1..(n - 1)
    BY <1>1, <1>4
  <2> QED BY <2>1 DEF Children, Parent, Kids
<1> QED BY <1>1, <1>3, <1>4, <1>5 DEF IsTree

(* A step that is not blocked leads where the tree says, and a blocked one nowhere. *)
LEMMA StepLeads ==
  ASSUME NEW n, IsTree(ns, n), NEW i \in 0..(n - 1), NEW name
  PROVE  /\ ~ Blocked(ns, i, name) => Leads(i, name, stepTo(ns, ns[i].crumb, name))
         /\ Blocked(ns, i, name) => \A j \in Nodes : ~ Leads(i, name, j)
<1> DEFINE j0 == stepTo(ns, ns[i].crumb, name)
           hits == KidsNamed(ns, n, i, name)
<1>1. /\ n \in Nat \ {0} /\ Nodes = 0..(n - 1) /\ Children(i) = Kids(ns, n, i)
      /\ STATICNS_CRUMB_SELF_IDX(ns[i].crumb) = i
  BY NodesOfTree
<1>2. Child(i, name) = hits /\ hits \in SUBSET Nat
  BY <1>1 DEF Child, KidsNamed, Kids
<1>3. CASE ~ ISDIR(ns[i].crumb)
  BY <1>3 DEF Blocked, Leads
<1>4. CASE ISDIR(ns[i].crumb) /\ name = "."
  <2>1. j0 = i
    BY <1>1, <1>4 DEF stepTo, WalkSelf
  <2>2. ~ Blocked(ns, i, name)
    <3>1. i \in Nat
      BY <1>1
    <3> QED BY <1>4, <2>1, <3>1 DEF Blocked, ENOENT, PastEnd
  <2> QED BY <1>4, <2>1, <2>2 DEF Leads
<1>5. CASE ISDIR(ns[i].crumb) /\ name = ".."
  <2>1. j0 = Parent(i)
    BY <1>1, <1>5 DEF stepTo, WalkUp, Parent
  <2>2. j0 \in Nat
    <3>1. i # 0 => i \in 1..(n - 1)
      BY <1>1
    <3>2. i # 0 => STATICNS_CRUMB_PARENT_IDX(ns[i].crumb) \in 0..(i - 1)
      BY <3>1 DEF IsTree
    <3> QED BY <1>1, <2>1, <3>1, <3>2 DEF Parent
  <2>3. ~ Blocked(ns, i, name)
    BY <1>5, <2>2 DEF Blocked, ENOENT, PastEnd
  <2> HIDE DEF j0
  <2>4. Leads(i, name, j0)
    BY <1>5, <2>1 DEF Leads
  <2> QED BY <2>3, <2>4 DEF j0
<1>6. CASE ISDIR(ns[i].crumb) /\ name \notin {".", ".."}
  <2>1. j0 = search(ns, ns[i].crumb, name) /\ ISDIR(ns[i].crumb)
    BY <1>6 DEF stepTo
  <2> HIDE DEF j0, hits
  <2>2. /\ hits # {} => j0 = Min(hits)
        /\ hits = {} => j0 \in {PastEnd, ENOENT}
    BY <2>1, SearchIs DEF hits
  <2>3. \A j : Leads(i, name, j) <=> hits # {} /\ j = Min(hits)
    BY <1>2, <1>6 DEF Leads
  <2>4. hits # {} => Min(hits) \in Nat
    BY <1>2, MinIs
  <2>5. hits # {} => j0 \notin {PastEnd, ENOENT}
    BY <2>2, <2>4 DEF ENOENT, PastEnd
  <2>6. Blocked(ns, i, name) <=> j0 \in {ENOENT, PastEnd}
    BY <1>6 DEF Blocked, j0
  <2> QED BY <2>2, <2>3, <2>5, <2>6 DEF j0
<1> QED BY <1>3, <1>4, <1>5, <1>6

(* A function on the first numbers is a sequence. *)
LEMMA FunctionIsSeq ==
  ASSUME NEW X, NEW k \in Nat, NEW s \in [1..k -> X]
  PROVE  s \in Seq(X) /\ Len(s) = k
  OBVIOUS

(* The tables the walks start in hold trees, with a directory at the root. *)
LEMMA TablesAreTrees ==
  ASSUME WalkAssumption, NEW m \in 1..MaxNodes, NEW T \in TablesOf(m)
  PROVE  /\ IsTree(T, m + 1) /\ ISDIR(T[0].crumb)
         /\ \A i \in 0..m : Len(T[i].name) \in Nat
<1> DEFINE crumbOf(par, dirs, k) ==
             MKSTATICNS_CRUMB(par[k - 1], k - 1, IF k - 1 \in dirs THEN {"ISDIR"} ELSE {"ISFILE"})
           root == Entry(".", MKSTATICNS_CRUMB(STATICNS_SENTINEL, 0, {"ISDIR"}), 0, NoContents)
           entriesOf(par, name, dirs) ==
             [k \in 1..(m + 1) |-> IF k = 1 THEN root
                                   ELSE Entry(name[k - 1], crumbOf(par, dirs, k), 0, NoContents)]
           dirsOf(par) == {d \in SUBSET (1..m) : /\ Range(par) \ {0} \subseteq d
                                                 /\ EmptyDirs \/ d \subseteq Range(par)}
           tables(par) == {StaticTable(entriesOf(par, name, dirs)) :
                             name \in [1..m -> Names], dirs \in dirsOf(par)}
<1>1. PICK par \in Parents(m), name \in [1..m -> Names], dirs \in SUBSET (1..m) :
        T = StaticTable(entriesOf(par, name, dirs))
  <2>1. TablesOf(m) = UNION {tables(par) : par \in Parents(m)}
    BY DEF TablesOf
  <2> HIDE DEF entriesOf
  <2>2. PICK par \in Parents(m) : T \in tables(par)
    <3> HIDE DEF tables
    <3> QED BY <2>1
  <2>3. PICK name \in [1..m -> Names], dirs \in dirsOf(par) : T = StaticTable(entriesOf(par, name, dirs))
    BY <2>2
  <2> QED BY <2>3
<1>2. m \in Nat \ {0} /\ m + 1 \in 1..MaxTable
  BY WidthsAre DEF WalkAssumption, MaxTable
<1> DEFINE es == entriesOf(par, name, dirs)
           up == [k \in 1..(m + 1) |-> IF k = 1 THEN STATICNS_SENTINEL ELSE par[k - 1]]
           flags == [k \in 1..(m + 1) |-> IF k = 1 \/ k - 1 \in dirs THEN {"ISDIR"} ELSE {"ISFILE"}]
           E == {es[k] : k \in 1..(m + 1)}
<1>3. es \in Seq(E) /\ Len(es) = m + 1
  <2>1. es \in [1..(m + 1) -> E] /\ DOMAIN es = 1..(m + 1)
    OBVIOUS
  <2> HIDE DEF es, E
  <2>2. m + 1 \in Nat
    BY <1>2
  <2> QED BY <2>1, <2>2, FunctionIsSeq
<1>4. /\ \A i \in 1..m : par[i] \in 0..(i - 1)
      /\ \A i, j \in 1..m : i <= j => par[i] <= par[j]
  <2>1. par \in [1..m -> 0..(m - 1)] /\ \A i \in 1..m : par[i] < i /\ \A j \in i..m : par[i] <= par[j]
    BY DEF Parents
  <2> QED BY <1>2, <2>1
<1>5. ASSUME NEW i \in 1..(m + 1)
      PROVE  /\ es[i].crumb = MKSTATICNS_CRUMB(up[i], i - 1, flags[i])
             /\ es[i].name \in Names \cup {"."}
  <2>1. CASE i = 1
    <3>1. es[1] = root /\ root.crumb = MKSTATICNS_CRUMB(STATICNS_SENTINEL, 0, {"ISDIR"}) /\ root.name = "."
      BY <1>2 DEF Entry
    <3>2. up[1] = STATICNS_SENTINEL /\ flags[1] = {"ISDIR"} /\ 1 - 1 = 0
      BY <1>2
    <3> HIDE DEF es, up, flags, root
    <3> QED BY <2>1, <3>1, <3>2
  <2>2. CASE i # 1
    <3>1. es[i] = Entry(name[i - 1], crumbOf(par, dirs, i), 0, NoContents)
      BY <2>2
    <3>2. up[i] = par[i - 1] /\ flags[i] = IF i - 1 \in dirs THEN {"ISDIR"} ELSE {"ISFILE"}
      BY <2>2
    <3>3. es[i].crumb = crumbOf(par, dirs, i) /\ es[i].name = name[i - 1]
      BY <3>1, Zenon DEF Entry
    <3>4. name[i - 1] \in Names
      <4>1. i - 1 \in 1..m
        BY <1>2, <2>2
      <4> QED BY <4>1
    <3> HIDE DEF es, up, flags
    <3> QED BY <3>2, <3>3, <3>4
  <2> QED BY <2>1, <2>2
<1>6. up[1] = STATICNS_SENTINEL /\ \A i \in 2..(m + 1) : up[i] = par[i - 1] /\ i - 1 \in 1..m
  BY <1>2
<1>7. /\ \A i \in 2..(m + 1) : up[i] \in 0..(i - 2)
      /\ \A i, j \in 2..(m + 1) : i <= j => up[i] <= up[j]
  <2> HIDE DEF up
  <2>1. \A i \in 2..(m + 1) : (i - 1) - 1 = i - 2
    BY <1>2
  <2> QED BY <1>4, <1>6, <2>1
<1>8. T = StaticTable(es)
  BY <1>1
<1> HIDE DEF es, up, flags, E
<1>9. IsTree(T, m + 1) /\ \A i \in 1..(m + 1) : T[i - 1] = es[i]
  <2>1. Len(es) \in 1..MaxTable /\ up[1] = STATICNS_SENTINEL
    BY <1>2, <1>3, <1>6
  <2>2. /\ \A i \in 2..Len(es) : up[i] \in 0..(i - 2)
        /\ \A i, j \in 2..Len(es) : i <= j => up[i] <= up[j]
        /\ \A i \in 1..Len(es) : es[i].crumb = MKSTATICNS_CRUMB(up[i], i - 1, flags[i])
    BY <1>3, <1>5, <1>7
  <2>3. /\ IsTree(StaticTable(es), Len(es))
        /\ \A i \in 1..Len(es) : StaticTable(es)[i - 1] = es[i]
    BY <1>3, <2>1, <2>2, StaticTableIsTree
  <2> QED BY <1>3, <1>8, <2>3
<1>10. T[0] = es[1] /\ \A i \in 0..m : i + 1 \in 1..(m + 1) /\ T[i] = es[i + 1]
  <2>1. 1 \in 1..(m + 1) /\ 1 - 1 = 0 /\ \A i \in 0..m : i + 1 \in 1..(m + 1) /\ (i + 1) - 1 = i
    BY <1>2
  <2> QED BY <1>9, <2>1
<1>11. ISDIR(T[0].crumb)
  <2>1. es[1] = root
    BY <1>2 DEF es
  <2>2. root.crumb = MKSTATICNS_CRUMB(STATICNS_SENTINEL, 0, {"ISDIR"})
    BY DEF Entry
  <2> HIDE DEF root
  <2> QED BY <1>10, <2>1, <2>2 DEF ISDIR, MKSTATICNS_CRUMB
<1>12. \A i \in 0..m : T[i].name \in Names \cup {"."}
  BY <1>5, <1>10
<1>13. \A i \in 0..m : Len(T[i].name) \in Nat
  <2>1. \A x \in Names \cup {"."} : Len(x) \in Nat
    BY DEF WalkAssumption
  <2> QED BY <1>12, <2>1
<1> QED BY <1>9, <1>11, <1>13

(* The names in the table. *)
NodeNames == {ns[j].name : j \in Nodes}

(* Child j is the k-th of node i's. *)
IsKth(i, j, k) == j \in Children(i) /\ Cardinality({a \in Children(i) : a < j}) = k - 1

(* The listing of a directory: one name for each child, in their order. *)
LEMMA ListingIs ==
  ASSUME NEW n, IsTree(ns, n), NEW i \in 0..(n - 1), ISDIR(ns[i].crumb),
         NEW names, names = childNames(ns, ns[i].crumb)
  PROVE  /\ names \in Seq(NodeNames) /\ Len(names) = Cardinality(Children(i))
         /\ \A k \in 1..Len(names) : \E j \in Nodes : IsKth(i, j, k) /\ names[k] = ns[j].name
<1> DEFINE kids == Kids(ns, n, i)
           first == Min(kids)
<1>1. /\ n \in Nat \ {0} /\ Nodes = 0..(n - 1) /\ Children(i) = kids
  BY NodesOfTree
<1>2. CASE kids = {}
  <2>1. names = <<>>
    BY <1>2, ChildNamesAre
  <2>2. Len(names) = 0 /\ Cardinality(kids) = 0 /\ names \in Seq(NodeNames)
    BY <1>2, <2>1, FS_EmptySet
  <2> HIDE DEF kids
  <2> QED BY <1>1, <2>2
<1>3. CASE kids # {}
  <2>1. PICK lastKid \in 1..(n - 1) : first \in 1..lastKid /\ kids = first..lastKid
    BY <1>3, SiblingsAre
  <2>2. names = [k \in 1..Cardinality(kids) |-> ns[first + k - 1].name]
    BY <1>3, ChildNamesAre
  <2>3. lastKid \in Int /\ first \in Int /\ first >= 1 /\ first <= lastKid /\ lastKid <= n - 1
    BY <1>1, <2>1
  <2> HIDE DEF kids, first
  <2>4. Cardinality(kids) = lastKid - first + 1
    <3>1. Cardinality(first..lastKid) = IF first > lastKid THEN 0 ELSE lastKid - first + 1
      BY <2>3, FS_Interval
    <3> QED BY <2>1, <2>3, <3>1
  <2> DEFINE c == lastKid - first + 1
  <2>5. c \in Nat /\ \A k \in 1..c : first + k - 1 \in kids /\ first + k - 1 \in Nodes
    BY <1>1, <2>1, <2>3
  <2>6. names = [k \in 1..c |-> ns[first + k - 1].name]
    BY <2>2, <2>4
  <2> HIDE DEF c
  <2>7. names \in Seq(NodeNames) /\ Len(names) = c
    <3>1. names \in [1..c -> NodeNames]
      BY <2>5, <2>6 DEF NodeNames
    <3> QED BY <2>5, <3>1, FunctionIsSeq
  <2>8. ASSUME NEW k \in 1..c
        PROVE  Cardinality({a \in kids : a < first + k - 1}) = k - 1
    <3>1. {a \in kids : a < first + k - 1} = first..(first + k - 2)
      BY <2>1, <2>3 DEF c
    <3>2. Cardinality(first..(first + k - 2)) =
            IF first > first + k - 2 THEN 0 ELSE (first + k - 2) - first + 1
      <4>1. first + k - 2 \in Int
        BY <2>3, <2>5
      <4> QED BY <2>3, <4>1, FS_Interval
    <3>3. k \in Int /\ (first > first + k - 2 => k = 1)
      BY <2>3, <2>5
    <3>4. (first + k - 2) - first + 1 = k - 1
      BY <2>3, <3>3
    <3>5. Cardinality(first..(first + k - 2)) = k - 1
      <4>1. CASE first > first + k - 2
        BY <3>2, <3>3, <4>1
      <4>2. CASE ~ (first > first + k - 2)
        BY <3>2, <3>4, <4>2
      <4> QED BY <4>1, <4>2
    <3> QED BY <3>1, <3>5
  <2>9. \A k \in 1..c : names[k] = ns[first + k - 1].name
    BY <2>6
  <2>10. Cardinality(kids) = c
    BY <2>4 DEF c
  <2>11. ASSUME NEW k \in 1..c
         PROVE  \E j \in Nodes : IsKth(i, j, k) /\ names[k] = ns[j].name
    <3>1. IsKth(i, first + k - 1, k)
      BY <1>1, <2>5, <2>8 DEF IsKth
    <3> QED BY <2>5, <2>9, <3>1
  <2> QED BY <1>1, <2>7, <2>10, <2>11
<1> QED BY <1>2, <1>3
-----------------------------------------------------------------------------
(* WalkPrev undoes WalkNext in every tree. *)
LEMMA PrevIs ==
  ASSUME NEW n, IsTree(ns, n)
  PROVE  PrevUndoesNext
<1>1. n \in Nat \ {0} /\ Nodes = 0..(n - 1) /\ DOMAIN ns = 0..n
  BY NodesOfTree DEF IsTree
<1> SUFFICES ASSUME NEW i \in Nodes \ {0}
             PROVE  LET prev == WalkPrev(ns, ns[i].crumb)
                    IN  IF \E j \in Nodes : WalkNext(ns, ns[j].crumb) = i
                        THEN prev >= 0 /\ WalkNext(ns, ns[prev].crumb) = i
                        ELSE prev = ENOENT
  BY DEF PrevUndoesNext
<1> DEFINE par(j) == STATICNS_CRUMB_PARENT_IDX(ns[j].crumb)
           prev == WalkPrev(ns, ns[i].crumb)
<1>2. i \in Nat /\ i - 1 \in 0..(n - 1) /\ i - 1 \in Nat /\ i - 1 \in DOMAIN ns /\ (i - 1) + 1 = i
  BY <1>1
<1>3. prev = IF par(i) # par(i - 1) THEN ENOENT ELSE i - 1
  <2>1. STATICNS_CRUMB_SELF_IDX(ns[i].crumb) = i
    BY <1>1, NodesOfTree
  <2> QED BY <1>2, <2>1 DEF WalkPrev, WalkTo
<1>4. \A j \in Nodes : WalkNext(ns, ns[j].crumb) = IF par(j) = par(j + 1) THEN j + 1 ELSE ENOENT
  BY <1>1, NextIs
<1>5. ENOENT # i /\ i - 1 >= 0
  BY <1>2 DEF ENOENT
<1> HIDE DEF par, prev
<1>6. \A j \in Nodes : WalkNext(ns, ns[j].crumb) = i => j = i - 1 /\ par(i - 1) = par(i)
  <2> SUFFICES ASSUME NEW j \in Nodes, WalkNext(ns, ns[j].crumb) = i PROVE j = i - 1 /\ par(i - 1) = par(i)
    OBVIOUS
  <2>1. par(j) = par(j + 1) /\ j + 1 = i
    BY <1>4, <1>5
  <2> QED BY <1>1, <2>1
<1>7. par(i - 1) = par(i) => WalkNext(ns, ns[i - 1].crumb) = i
  BY <1>1, <1>2, <1>4
<1> QED BY <1>1, <1>2, <1>3, <1>5, <1>6, <1>7 DEF prev

(* The table is a tree and the portal on one of its directories. *)
End == Max(DOMAIN ns)
Held == STATICNS_CRUMB_SELF_IDX(portal)

TableHeld ==
  /\ IsTree(ns, End) /\ \A i \in Nodes : Len(ns[i].name) \in Nat
  /\ Held \in Nodes /\ portal = ns[Held].crumb /\ ISDIR(portal)

(* The trail is what genericWalk leaves of the path. *)
TrailHeld ==
  /\ from = portal
  /\ path = <<>> => trail = emptyWalkTrail(0)
  /\ path # <<>> => /\ path \in Seq(Names \cup {".", ".."}) /\ trail.max = Len(path)
                    /\ LeavesTrail(ns, End, Held, path, trail.crumbs)

(* What was read is the listing up to the offset. *)
ReadingHeld ==
  LET names == childNames(ns, portal)
  IN  /\ offset \in 0..Len(names) /\ listed = SubSeq(names, 1, offset)
      /\ (last[2] = 0 /\ \A i \in Nodes : Len(ns[i].name) < last[1]) => offset = Len(names)

WalkInv == TableHeld /\ TrailHeld /\ ReadingHeld

(* The listing of the directory the portal is on. *)
LEMMA HeldListing ==
  ASSUME TableHeld, NEW names, names = childNames(ns, portal)
  PROVE  /\ names \in Seq(NodeNames) /\ Len(names) = Cardinality(Children(Held)) /\ Len(names) \in Nat
         /\ \A k \in 1..Len(names) : \E j \in Nodes : IsKth(Held, j, k) /\ names[k] = ns[j].name
         /\ \A k \in 1..Len(names) : names[k] \in NodeNames
<1>1. IsTree(ns, End) /\ Held \in 0..(End - 1) /\ ISDIR(ns[Held].crumb) /\ names = childNames(ns, ns[Held].crumb)
  BY NodesOfTree DEF TableHeld
<1>2. /\ names \in Seq(NodeNames) /\ Len(names) = Cardinality(Children(Held))
      /\ \A k \in 1..Len(names) : \E j \in Nodes : IsKth(Held, j, k) /\ names[k] = ns[j].name
  BY <1>1, ListingIs
<1> QED BY <1>2 DEF NodeNames

(* Before anything is read. *)
LEMMA NothingRead ==
  TableHeld /\ offset = 0 /\ listed = <<>> /\ last = <<0, 0>> => ReadingHeld
<1> SUFFICES ASSUME TableHeld, offset = 0, listed = <<>>, last = <<0, 0>>
             PROVE  ReadingHeld
  OBVIOUS
<1> DEFINE names == childNames(ns, portal)
<1>1. names \in Seq(NodeNames) /\ Len(names) \in Nat
  BY HeldListing
<1>2. SubSeq(names, 1, 0) = <<>>
  <2> HIDE DEF names
  <2> QED BY <1>1, SubSeqEmpty
<1>3. Held \in Nodes /\ Len(ns[Held].name) \in Nat
  BY DEF TableHeld
<1>4. ~ (Len(ns[Held].name) < last[1])
  BY <1>3
<1> HIDE DEF names
<1>5. offset \in 0..Len(names) /\ listed = SubSeq(names, 1, offset)
  BY <1>1, <1>2
<1> QED BY <1>3, <1>4, <1>5 DEF ReadingHeld, names

LEMMA WalkInit ==
  ASSUME WalkAssumption, WalkingInit
  PROVE  WalkInv
<1>1. PICK m \in 1..MaxNodes : ns \in TablesOf(m)
  BY DEF WalkingInit
<1>2. /\ IsTree(ns, m + 1) /\ ISDIR(ns[0].crumb)
      /\ \A i \in 0..m : Len(ns[i].name) \in Nat
  BY <1>1, TablesAreTrees
<1>3. m \in Nat /\ (m + 1) - 1 = m /\ 0 \in 0..m
  BY DEF WalkAssumption
<1>4. /\ End = m + 1 /\ Nodes = 0..m /\ STATICNS_CRUMB_SELF_IDX(ns[0].crumb) = 0
  BY <1>2, <1>3, NodesOfTree DEF End
<1>5. portal = ns[0].crumb /\ path = <<>> /\ from = portal /\ trail = emptyWalkTrail(0)
  BY DEF WalkingInit
<1>6. TableHeld
  BY <1>2, <1>3, <1>4, <1>5 DEF TableHeld, Held
<1>7. TrailHeld
  BY <1>5 DEF TrailHeld
<1>8. ReadingHeld
  BY <1>6, NothingRead DEF WalkingInit
<1> QED BY <1>6, <1>7, <1>8 DEF WalkInv

(* A read goes on with the listing. *)
LEMMA ReadKeeps ==
  ASSUME TableHeld, ReadingHeld, NEW bytes \in Nat, Read(bytes), TableHeld', portal' = portal, ns' = ns
  PROVE  ReadingHeld'
<1> DEFINE names == childNames(ns, portal)
           more == readDirectory(ns, portal, bytes, offset)
<1>1. /\ names \in Seq(NodeNames) /\ Len(names) \in Nat /\ \A k \in 1..Len(names) : names[k] \in NodeNames
      /\ offset \in 0..Len(names) /\ listed = SubSeq(names, 1, offset)
  BY HeldListing DEF ReadingHeld
<1>2. more = thatFit(names, bytes, offset)
  BY DEF readDirectory
<1>3. listed' = listed \o more /\ offset' = offset + Len(more) /\ last' = <<bytes, Len(more)>>
  BY DEF Read
<1> HIDE DEF names, more
<1>4. PICK m \in 0..Len(names) : more = SubSeq(names, offset + 1, m)
  BY <1>1, <1>2, ThatFitIs
<1>5. /\ more \in Seq(NodeNames) /\ offset + Len(more) \in 0..Len(names)
      /\ SubSeq(names, 1, offset) \o more = SubSeq(names, 1, offset + Len(more))
  <2> DEFINE k == offset
  <2>1. /\ names \in Seq(NodeNames) /\ k \in 0..Len(names) /\ m \in 0..Len(names)
        /\ (more = SubSeq(names, k + 1, m) \/ more = <<>>)
    BY <1>1, <1>4
  <2> HIDE DEF k
  <2>2. /\ more \in Seq(NodeNames) /\ k + Len(more) \in 0..Len(names)
        /\ SubSeq(names, 1, k) \o more = SubSeq(names, 1, k + Len(more))
    BY <2>1, ListingGoesOn, SMTT(20)
  <2> QED BY <2>2 DEF k
<1>6. offset' \in 0..Len(names) /\ listed' = SubSeq(names, 1, offset')
  BY <1>1, <1>3, <1>5
<1>7. ASSUME last'[2] = 0, \A i \in Nodes : Len(ns[i].name) < last'[1]
      PROVE  offset' = Len(names)
  <2>1. Len(more) = 0 /\ \A i \in Nodes : Len(ns[i].name) < bytes /\ Len(ns[i].name) \in Nat
    BY <1>3, <1>7 DEF TableHeld
  <2>2. \A x \in NodeNames : Len(x) \in Nat /\ Len(x) < bytes
    BY <2>1 DEF NodeNames
  <2>3. \A k \in 1..Len(names) : Len(names[k]) \in Nat /\ Len(names[k]) < bytes
    BY <1>1, <2>2
  <2>4. offset = Len(names)
    BY <1>1, <1>2, <2>1, <2>3, ReadsOn
  <2> QED BY <1>1, <1>3, <2>1, <2>4
<1>8. names = childNames(ns', portal') /\ Nodes' = Nodes
  BY DEF names, Nodes
<1> QED BY <1>6, <1>7, <1>8 DEF ReadingHeld

LEMMA WalkStep ==
  ASSUME WalkAssumption, WalkInv, [Walking]_walkVars
  PROVE  WalkInv'
<1>1. TableHeld /\ TrailHeld /\ ReadingHeld
  BY DEF WalkInv
<1>2. IsTree(ns, End) /\ Nodes = 0..(End - 1) /\ \A i \in Nodes : STATICNS_CRUMB_SELF_IDX(ns[i].crumb) = i
  BY <1>1, NodesOfTree DEF TableHeld
<1>3. ns' = ns
  BY DEF Walking, Walk, Enter, Leave, Read, walkVars
<1>4. End' = End /\ Nodes' = Nodes
  BY <1>3 DEF End, Nodes
<1>5. portal' = portal => TableHeld' /\ Held' = Held
  BY <1>1, <1>3, <1>4 DEF TableHeld, Held
<1>6. portal' = portal /\ UNCHANGED <<offset, listed, last>> => ReadingHeld'
  BY <1>1, <1>3, <1>4 DEF ReadingHeld
<1>7. ASSUME NEW p \in Paths, Walk(p)
      PROVE  WalkInv'
  <2>1. path' = p /\ from' = portal' /\ portal' = portal /\ trail' = genericWalk(ns, portal, p).trail
    BY <1>1, <1>7 DEF Walk, TrailHeld
  <2>2. p \in Seq(Names \cup {".", ".."}) /\ p # <<>>
    <3>1. PICK k \in 1..MaxPath : p \in [1..k -> Names \cup {".", ".."}]
      BY DEF Paths
    <3>2. k \in Nat /\ k # 0
      BY DEF WalkAssumption
    <3>3. p \in Seq(Names \cup {".", ".."}) /\ Len(p) = k
      BY <3>1, <3>2, FunctionIsSeq
    <3> QED BY <3>2, <3>3
  <2>3. /\ LeavesTrail(ns, End, Held, p, trail'.crumbs) /\ trail'.max = Len(p)
    BY <1>1, <1>2, <2>1, <2>2, GenericWalkIs DEF TableHeld
  <2>4. TrailHeld'
    BY <1>3, <1>4, <1>5, <2>1, <2>2, <2>3 DEF TrailHeld
  <2>5. ReadingHeld'
    BY <1>6, <1>7 DEF Walk
  <2> QED BY <1>5, <2>1, <2>4, <2>5 DEF WalkInv
<1>8. CASE Enter
  <2>1. /\ path # <<>> /\ Len(trail.crumbs) = Len(path) /\ ISDIR(topCrumb(trail, portal))
        /\ portal' = topCrumb(trail, portal) /\ path' = <<>> /\ from' = portal' /\ trail' = emptyWalkTrail(0)
        /\ offset' = 0 /\ listed' = <<>> /\ last' = <<0, 0>>
    BY <1>8 DEF Enter
  <2>2. path \in Seq(Names \cup {".", ".."}) /\ LeavesTrail(ns, End, Held, path, trail.crumbs)
    BY <1>1, <2>1 DEF TrailHeld
  <2>3. PICK m \in 0..Len(path) : \E at \in [0..m -> 0..(End - 1)] :
          trail.crumbs = [j \in 1..m |-> ns[at[j]].crumb]
    BY <2>2 DEF LeavesTrail
  <2>4. PICK a \in Nodes : portal' = ns[a].crumb
    <3> DEFINE C == {ns[j].crumb : j \in Nodes}
    <3>0. PICK at \in [0..m -> 0..(End - 1)] : trail.crumbs = [j \in 1..m |-> ns[at[j]].crumb]
      BY <2>3
    <3>1. m \in Nat /\ \A j \in 1..m : at[j] \in Nodes
      BY <1>2, <2>2
    <3>2. trail.crumbs \in [1..m -> C]
      BY <3>0, <3>1
    <3>3. Len(trail.crumbs) = m
      BY <3>1, <3>2, FunctionIsSeq
    <3>4. Len(path) # 0
      BY <2>1, <2>2
    <3>5. trail.crumbs # <<>> /\ m \in 1..m
      <4> HIDE DEF C
      <4> QED BY <2>1, <3>1, <3>3, <3>4
    <3>6. portal' = trail.crumbs[m]
      BY <2>1, <3>3, <3>5 DEF topCrumb, Last
    <3> QED BY <3>0, <3>1, <3>5, <3>6
  <2>5. TableHeld'
    BY <1>1, <1>2, <1>3, <1>4, <2>1, <2>4 DEF TableHeld, Held
  <2>6. TrailHeld'
    BY <2>1 DEF TrailHeld
  <2>7. ReadingHeld'
    <3>1. (TableHeld /\ offset = 0 /\ listed = <<>> /\ last = <<0, 0>> => ReadingHeld)'
      BY NothingRead, PTL
    <3> QED BY <2>1, <2>5, <3>1
  <2> QED BY <2>5, <2>6, <2>7 DEF WalkInv
<1>9. CASE Leave
  BY <1>5, <1>6, <1>9 DEF Leave, TrailHeld, WalkInv
<1>10. ASSUME NEW bytes \in ReadSizes, Read(bytes)
       PROVE  WalkInv'
  <2>1. bytes \in Nat
    BY DEF WalkAssumption
  <2>2. portal' = portal /\ UNCHANGED <<path, from, trail>>
    BY <1>10 DEF Read
  <2>3. TrailHeld'
    BY <1>1, <1>3, <1>4, <1>5, <2>2 DEF TrailHeld
  <2>4. ReadingHeld'
    BY <1>1, <1>3, <1>5, <1>10, <2>1, <2>2, ReadKeeps
  <2> QED BY <1>5, <2>2, <2>3, <2>4 DEF WalkInv
<1>11. CASE UNCHANGED walkVars
  <2>1. UNCHANGED <<portal, path, from, trail, offset, listed, last>>
    BY <1>11 DEF walkVars
  <2>2. TrailHeld'
    BY <1>1, <1>3, <1>4, <1>5, <2>1 DEF TrailHeld
  <2> QED BY <1>5, <1>6, <2>1, <2>2 DEF WalkInv
<1> QED BY <1>7, <1>8, <1>9, <1>10, <1>11 DEF Walking

(* A trail that ends with its path or where that leads nowhere follows the tree. *)
LEMMA TrailFollows ==
  ASSUME TableHeld, TrailHeld, path # <<>>
  PROVE  /\ WalkFollowsTree
         /\ \A k \in 1..Len(trail.crumbs) : \E i \in Nodes : trail.crumbs[k] = ns[i].crumb
         /\ Len(trail.crumbs) <= Len(path) /\ trail.max = Len(path)
<1>1. /\ IsTree(ns, End) /\ Nodes = 0..(End - 1) /\ \A i \in Nodes : STATICNS_CRUMB_SELF_IDX(ns[i].crumb) = i
  BY NodesOfTree DEF TableHeld
<1>2. PICK m \in 0..Len(path) : \E at \in [0..m -> 0..(End - 1)] :
        /\ IsTrail(ns, Held, path, at, m) /\ trail.crumbs = [j \in 1..m |-> ns[at[j]].crumb]
        /\ m = Len(path) \/ Blocked(ns, at[m], path[m + 1])
  BY DEF TrailHeld, LeavesTrail
<1>3. PICK at \in [0..m -> 0..(End - 1)] :
        /\ IsTrail(ns, Held, path, at, m) /\ trail.crumbs = [j \in 1..m |-> ns[at[j]].crumb]
        /\ m = Len(path) \/ Blocked(ns, at[m], path[m + 1])
  BY <1>2
<1>4. m \in Nat /\ Len(path) \in Nat /\ m <= Len(path) /\ trail.max = Len(path)
  BY DEF TrailHeld
<1>5. \A j \in 0..m : at[j] \in Nodes
  BY <1>1, <1>3
<1>6. Len(trail.crumbs) = m /\ \A j \in 1..m : trail.crumbs[j] = ns[at[j]].crumb /\ j \in 0..m
  <2> DEFINE C == {ns[j].crumb : j \in Nodes}
  <2>1. \A j \in 1..m : j \in 0..m
    BY <1>4
  <2>2. trail.crumbs \in [1..m -> C]
    BY <1>3, <1>5, <2>1
  <2> HIDE DEF C
  <2> QED BY <1>3, <1>4, <2>1, <2>2, FunctionIsSeq
<1> DEFINE by(k) == STATICNS_CRUMB_SELF_IDX(IF k = 0 THEN from ELSE trail.crumbs[k])
<1>7. \A k \in 0..m : by(k) = at[k]
  <2> TAKE k \in 0..m
  <2>1. CASE k = 0
    <3>1. from = ns[Held].crumb /\ at[0] = Held /\ Held \in Nodes
      BY <1>3 DEF TableHeld, TrailHeld, IsTrail
    <3> QED BY <1>1, <2>1, <3>1
  <2>2. CASE k # 0
    <3>1. k \in 1..m
      BY <2>2
    <3>2. trail.crumbs[k] = ns[at[k]].crumb /\ at[k] \in Nodes
      BY <1>5, <1>6, <3>1
    <3> QED BY <1>1, <2>2, <3>2
  <2> QED BY <2>1, <2>2
<1> HIDE DEF by
<1>8. ASSUME NEW k \in 1..m PROVE Leads(by(k - 1), path[k], by(k))
  <2>1. k \in 0..m /\ k - 1 \in 0..m
    BY <1>4
  <2>2. /\ ISDIR(ns[at[k - 1]].crumb) /\ at[k] = stepTo(ns, ns[at[k - 1]].crumb, path[k])
        /\ at[k] \in Nodes /\ at[k - 1] \in 0..(End - 1)
    BY <1>1, <1>3, <1>5, <2>1 DEF IsTrail
  <2>3. at[k] \notin {ENOENT, PastEnd}
    <3>1. at[k] \in Nat
      BY <1>1, <2>2
    <3> QED BY <3>1 DEF ENOENT, PastEnd
  <2>4. ~ Blocked(ns, at[k - 1], path[k])
    BY <2>2, <2>3 DEF Blocked
  <2>5. Leads(at[k - 1], path[k], at[k])
    BY <1>1, <2>2, <2>4, StepLeads
  <2> QED BY <1>7, <2>1, <2>5
<1>9. m < Len(path) => ~ \E j \in Nodes : Leads(by(m), path[m + 1], j)
  <2> SUFFICES ASSUME m < Len(path) PROVE ~ \E j \in Nodes : Leads(at[m], path[m + 1], j)
    BY <1>4, <1>7
  <2>1. Blocked(ns, at[m], path[m + 1]) /\ at[m] \in 0..(End - 1)
    BY <1>3, <1>4
  <2> QED BY <1>1, <2>1, StepLeads
<1>10. WalkFollowsTree
  BY <1>6, <1>8, <1>9 DEF WalkFollowsTree, by
<1> QED BY <1>4, <1>5, <1>6, <1>10

(* The trail of a walk (genericWalk) is the way its path describes in the tree,
   and WalkPrev undoes WalkNext, in every static namespace the device table's
   indices have room for. *)
THEOREM WalksAreFollowed ==
  WalkAssumption => (WalkingSpec => []WalksFollowTree)
<1> SUFFICES ASSUME WalkAssumption PROVE WalkingSpec => []WalksFollowTree
  OBVIOUS
<1>1. WalkingInit => WalkInv
  BY WalkInit
<1>2. WalkInv /\ [Walking]_walkVars => WalkInv'
  BY WalkStep
<1>3. WalkInv => WalksFollowTree
  <2> SUFFICES ASSUME WalkInv PROVE WalksFollowTree
    OBVIOUS
  <2>1. TableHeld /\ TrailHeld /\ ReadingHeld
    BY DEF WalkInv
  <2>2. PrevUndoesNext
    BY <2>1, PrevIs DEF TableHeld
  <2>3. /\ WalkFollowsTree
        /\ \A k \in 1..Len(trail.crumbs) : \E i \in Nodes : trail.crumbs[k] = ns[i].crumb
        /\ Len(trail.crumbs) <= Len(path) /\ trail.max = Len(path)
    <3>1. CASE path # <<>>
      BY <2>1, <3>1, TrailFollows
    <3>2. CASE path = <<>>
      <4>1. trail.crumbs = <<>> /\ trail.max = 0
        BY <2>1, <3>2 DEF TrailHeld, emptyWalkTrail
      <4>2. Len(trail.crumbs) = 0 /\ Len(path) = 0 /\ \A k \in 1..0 : FALSE
        BY <3>2, <4>1
      <4> QED BY <4>1, <4>2 DEF WalkFollowsTree
    <3> QED BY <3>1, <3>2
  <2>4. offset \in 0..Cardinality(Nodes)
    <3>1. /\ Len(childNames(ns, portal)) = Cardinality(Children(Held)) /\ Len(childNames(ns, portal)) \in Nat
          /\ offset \in 0..Len(childNames(ns, portal))
      BY <2>1, HeldListing DEF ReadingHeld
    <3>2. End \in Nat \ {0} /\ Nodes = 0..(End - 1) /\ Children(Held) \subseteq Nodes
      BY <2>1, NodesOfTree DEF TableHeld, Children
    <3>3. IsFiniteSet(Nodes)
      <4>1. 0 \in Int /\ End - 1 \in Int
        BY <3>2
      <4> QED BY <3>2, <4>1, FS_Interval
    <3>4. Cardinality(Children(Held)) <= Cardinality(Nodes) /\ Cardinality(Nodes) \in Nat
      BY <3>2, <3>3, FS_Subset, FS_CardinalityType
    <3> QED BY <3>1, <3>4
  <2> QED BY <2>1, <2>2, <2>3, <2>4 DEF WalksFollowTree, WalkTypeOK, TableHeld
<1> QED BY <1>1, <1>2, <1>3, PTL DEF WalkingSpec

(* The reads of a directory (readStaticNS) return its children in order and
   each once, and 0 means they are all listed, whatever the buffers' sizes. *)
THEOREM ListingsAreWhole ==
  WalkAssumption => (WalkingSpec => []DirectoriesListed)
<1> SUFFICES ASSUME WalkAssumption PROVE WalkingSpec => []DirectoriesListed
  OBVIOUS
<1>1. WalkingInit => WalkInv
  BY WalkInit
<1>2. WalkInv /\ [Walking]_walkVars => WalkInv'
  BY WalkStep
<1>3. WalkInv => DirectoriesListed
  <2> SUFFICES ASSUME WalkInv PROVE DirectoriesListed
    OBVIOUS
  <2> DEFINE names == childNames(ns, portal)
  <2>1. TableHeld /\ ReadingHeld
    BY DEF WalkInv
  <2>2. /\ names \in Seq(NodeNames) /\ Len(names) = Cardinality(Children(Held)) /\ Len(names) \in Nat
        /\ \A k \in 1..Len(names) : \E j \in Nodes : IsKth(Held, j, k) /\ names[k] = ns[j].name
        /\ \A k \in 1..Len(names) : names[k] \in NodeNames
    BY <2>1, HeldListing
  <2>3. /\ offset \in 0..Len(names) /\ listed = SubSeq(names, 1, offset)
        /\ (last[2] = 0 /\ \A i \in Nodes : Len(ns[i].name) < last[1]) => offset = Len(names)
    BY <2>1 DEF ReadingHeld
  <2> HIDE DEF names
  <2>4. Len(listed) = offset /\ \A k \in 1..offset : listed[k] = names[k]
    <3>1. offset \in Nat /\ \A k \in 1..offset : k \in 1..Len(names)
      BY <2>2, <2>3
    <3>2. \A k \in 1..offset : names[k] \in NodeNames
      BY <2>2, <3>1
    <3> QED BY <2>2, <2>3, <3>1, <3>2, SubSeqProperties
  <2>5. ASSUME NEW k \in 1..offset
        PROVE  \E j \in Children(Held) :
                 Cardinality({i \in Children(Held) : i < j}) = k - 1 /\ listed[k] = ns[j].name
    <3>1. k \in 1..Len(names)
      BY <2>2, <2>3
    <3>2. PICK j \in Nodes : IsKth(Held, j, k) /\ names[k] = ns[j].name
      BY <2>2, <3>1
    <3> QED BY <2>4, <3>2 DEF IsKth
  <2>6. offset <= Cardinality(Children(Held))
    BY <2>2, <2>3
  <2>7. ListedInOrder
    BY <2>4, <2>5, <2>6 DEF ListedInOrder, Held
  <2>8. ZeroIsEnd
    BY <2>2, <2>3 DEF ZeroIsEnd, Held
  <2> QED BY <2>7, <2>8 DEF DirectoriesListed
<1> QED BY <1>1, <1>2, <1>3, PTL DEF WalkingSpec
-----------------------------------------------------------------------------
(***************************************************************************)
(* The screen.                                                             *)
(*                                                                         *)
(* A pixel is taken by its line and its place in the line.  What a screen  *)
(* shows is told by cells: the row of a line of pixels, counted from       *)
(* below, and the column of a place.                                       *)
(***************************************************************************)
Lines  == 0..(ysize - 1)
Places == 0..(xsize - 1)
pixel(y, x) == y * xsize + x
rowOf(y) == (ysize - 1 - y) \div consFontH
colOf(x) == x \div consFontW

(* Lines fill a screen whose width is that of a whole number of characters. *)
WholeColumns == xsize % consFontW = 0

Cell  == ({"blank"} \X Background) \cup ({"picture"} \X (0..(Rows - 1))) \cup ({"char"} \X ConsChars)
Cells == [0..(Rows - 1) -> [0..(Cols - 1) -> Cell]]
Texts == [cells : Cells, col : Nat]

(* The point of its cell that a pixel shows. *)
point(cell, y, x) ==
  CASE cell[1] = "blank"   -> cell
    [] cell[1] = "picture" -> <<"picture", pixel(y, x) + (rowOf(y) - cell[2]) * consFontH * xsize>>
    [] OTHER -> <<cell[2], consFontH - 1 - ((ysize - 1 - y) % consFontH), x % consFontW>>

(* The frame buffer f shows the cells of t. *)
Shows(f, t) ==
  \A y \in Lines, x \in Places : f[pixel(y, x)] = point(t.cells[rowOf(y)][colOf(x)], y, x)

(* More cells are no fewer pixels. *)
LEMMA ProductsGrow ==
  ASSUME NEW w \in Nat, NEW a \in Int, NEW b \in Int, a <= b
  PROVE  a * w <= b * w
  BY SMT

(* A number is its quotient and its remainder. *)
LEMMA QuotientIs ==
  ASSUME NEW w \in Nat \ {0}, NEW a \in Nat
  PROVE  /\ a \div w \in Nat /\ a % w \in 0..(w - 1)
         /\ a = (a \div w) * w + (a % w)
<1>1. a \div w \in Int /\ a % w \in 0..(w - 1)
  OBVIOUS
<1>2. a = w * (a \div w) + (a % w)
  BY SMT
<1>3. a \div w >= 0
  BY SMT
<1>4. w * (a \div w) = (a \div w) * w
  BY <1>1
<1> QED BY <1>1, <1>2, <1>3, <1>4

(* What the sizes may be. *)
LEMMA SizesAre ==
  ASSUME LcdAssumption
  PROVE  /\ xsize \in Nat \ {0} /\ ysize \in Nat \ {0}
         /\ consFontH \in Nat \ {0} /\ consFontW \in Nat \ {0} /\ consTabSpc \in Nat \ {0}
         /\ consFontH <= ysize /\ consY \in 0..(ysize - 1) /\ consY = ysize - consFontH
  BY DEF LcdAssumption, consY

(* Every pixel is one place of one line. *)
LEMMA PixelAt ==
  ASSUME LcdAssumption
  PROVE  /\ \A i \in Pixels : \E y \in Lines, x \in Places : i = pixel(y, x)
         /\ \A y \in Lines, x \in Places : /\ pixel(y, x) \in Pixels
                                           /\ pixel(y, x) \div xsize = y /\ pixel(y, x) % xsize = x
<1> USE SizesAre
<1>1. ASSUME NEW i \in Pixels PROVE \E y \in Lines, x \in Places : i = pixel(y, x)
  <2>1. i \in Nat /\ i < xsize * ysize
    BY DEF Pixels
  <2>2. i = (i \div xsize) * xsize + (i % xsize) /\ i % xsize \in Places /\ i \div xsize \in Nat
    BY <2>1, QuotientIs DEF Places
  <2>3. i \div xsize \in Lines
    <3>1. SUFFICES ASSUME i \div xsize >= ysize PROVE FALSE
      BY <2>2 DEF Lines
    <3>2. (i \div xsize) * xsize >= ysize * xsize
      BY <2>2, <3>1
    <3> QED BY <2>1, <2>2, <3>2 DEF Places
  <2> QED BY <2>2, <2>3 DEF pixel
<1>2. ASSUME NEW y \in Lines, NEW x \in Places
      PROVE  pixel(y, x) \in Pixels /\ pixel(y, x) \div xsize = y /\ pixel(y, x) % xsize = x
  <2>1. y \in Nat /\ y + 1 <= ysize /\ x \in 0..(xsize - 1)
    BY DEF Lines, Places
  <2>2. (y + 1) * xsize <= ysize * xsize /\ y * xsize \in Nat
    BY <2>1
  <2>3. (y + 1) * xsize = y * xsize + xsize
    BY <2>1
  <2>4. pixel(y, x) \in Pixels
    BY <2>1, <2>2, <2>3 DEF pixel, Pixels
  <2> QED BY <2>1, <2>4, RemainderIs DEF pixel
<1> QED BY <1>1, <1>2

(* The rows of cells: the lowest begins where k70LcdClear() puts consY, and a
   line is one row above the line a character's height below it. *)
LEMMA RowsAre ==
  ASSUME LcdAssumption
  PROVE  /\ Rows \in Nat \ {0}
         /\ \A y \in Lines : /\ rowOf(y) \in 0..(Rows - 1)
                             /\ rowOf(y) = 0 <=> y >= consY
                             /\ y >= consY => (ysize - 1 - y) % consFontH = ysize - 1 - y
                             /\ y < consY => /\ y + consFontH \in Lines
                                             /\ rowOf(y + consFontH) = rowOf(y) - 1
                                             /\ (ysize - 1 - (y + consFontH)) % consFontH
                                                  = (ysize - 1 - y) % consFontH
<1> USE SizesAre
<1>1. ASSUME NEW a \in Nat, a >= consFontH
      PROVE  (a - consFontH) \div consFontH = (a \div consFontH) - 1 /\ (a - consFontH) % consFontH = a % consFontH
  BY <1>1, SMT
<1>2. ASSUME NEW a \in Nat
      PROVE  /\ a \div consFontH \in Nat
             /\ a < consFontH => a \div consFontH = 0 /\ a % consFontH = a
  BY <1>2, SMT
<1>3. ASSUME NEW a \in Nat, NEW b \in Nat, a <= b PROVE a \div consFontH <= b \div consFontH
  BY <1>3, SMT
<1>4. Rows = ((ysize - 1) \div consFontH) + 1
  <2>1. /\ ysize + consFontH - 1 \in Nat /\ ysize + consFontH - 1 >= consFontH
        /\ (ysize + consFontH - 1) - consFontH = ysize - 1
    OBVIOUS
  <2>2. /\ (ysize - 1) \div consFontH = ((ysize + consFontH - 1) \div consFontH) - 1
        /\ (ysize + consFontH - 1) \div consFontH \in Nat
    BY <2>1, <1>1, QuotientIs
  <2> QED BY <2>2 DEF Rows
<1>5. (ysize - 1) \div consFontH \in Nat
  BY <1>2
<1>6. ASSUME NEW y \in Lines
      PROVE  /\ rowOf(y) \in 0..(Rows - 1)
             /\ rowOf(y) = 0 <=> y >= consY
             /\ y >= consY => (ysize - 1 - y) % consFontH = ysize - 1 - y
             /\ y < consY => /\ y + consFontH \in Lines
                             /\ rowOf(y + consFontH) = rowOf(y) - 1
                             /\ (ysize - 1 - (y + consFontH)) % consFontH = (ysize - 1 - y) % consFontH
  <2> DEFINE a == ysize - 1 - y
  <2>1. a \in Nat /\ a <= ysize - 1 /\ ysize - 1 \in Nat /\ (a < consFontH <=> y >= consY)
    BY DEF Lines
  <2>2. a \div consFontH \in Nat /\ a \div consFontH <= (ysize - 1) \div consFontH
    BY <2>1, <1>2, <1>3
  <2>3. rowOf(y) = a \div consFontH
    BY DEF rowOf
  <2>4. a < consFontH => a \div consFontH = 0 /\ a % consFontH = a
    BY <2>1, <1>2
  <2>5. ASSUME a >= consFontH
        PROVE  /\ y + consFontH \in Lines /\ ysize - 1 - (y + consFontH) = a - consFontH
               /\ a \div consFontH # 0
               /\ (a - consFontH) \div consFontH = (a \div consFontH) - 1 /\ (a - consFontH) % consFontH = a % consFontH
    <3>1. (a - consFontH) \div consFontH = (a \div consFontH) - 1 /\ (a - consFontH) % consFontH = a % consFontH
      BY <2>1, <2>5, <1>1
    <3>2. a - consFontH \in Nat
      BY <2>1, <2>5
    <3>3. (a - consFontH) \div consFontH \in Nat
      BY <3>2, QuotientIs
    <3>4. y + consFontH \in Lines /\ ysize - 1 - (y + consFontH) = a - consFontH
      BY <2>5 DEF Lines
    <3> QED BY <3>1, <3>3, <3>4, <2>2
  <2>6. a < consFontH \/ a >= consFontH
    BY <2>1
  <2> HIDE DEF a
  <2>7. y < consY <=> ~(y >= consY)
    BY DEF Lines
  <2>8. /\ y >= consY => (ysize - 1 - y) % consFontH = ysize - 1 - y
        /\ y < consY => (ysize - 1 - (y + consFontH)) % consFontH = (ysize - 1 - y) % consFontH
    BY <2>1, <2>4, <2>5, <2>6, <2>7 DEF a
  <2>9. y < consY => rowOf(y + consFontH) = rowOf(y) - 1
    BY <2>1, <2>3, <2>5, <2>6, <2>7 DEF rowOf
  <2> QED BY <2>1, <2>2, <2>3, <2>4, <2>5, <2>6, <2>7, <2>8, <2>9, <1>4
<1> QED BY <1>4, <1>5, <1>6

(* The columns of cells. *)
LEMMA ColumnsAre ==
  ASSUME LcdAssumption, WholeColumns
  PROVE  /\ Cols \in Nat \ {0} /\ xsize = Cols * consFontW
         /\ \A x \in Places : colOf(x) \in 0..(Cols - 1) /\ x % consFontW \in 0..(consFontW - 1)
                              /\ x = colOf(x) * consFontW + (x % consFontW)
         /\ \A k \in 0..(Cols - 1), d \in 0..(consFontW - 1) :
              LET x == k * consFontW + d IN x \in Places /\ colOf(x) = k /\ x % consFontW = d
         /\ \A k \in Nat : k * consFontW > xsize - consFontW <=> k >= Cols
<1> USE SizesAre
<1>1. xsize = Cols * consFontW /\ Cols \in Nat
  BY DEF Cols, WholeColumns
<1>2. Cols # 0
  BY <1>1
<1>3. ASSUME NEW x \in Places
      PROVE  colOf(x) \in 0..(Cols - 1) /\ x % consFontW \in 0..(consFontW - 1) /\ x = colOf(x) * consFontW + (x % consFontW)
  <2>1. x \in Nat /\ x < Cols * consFontW
    BY <1>1 DEF Places
  <2>2. colOf(x) \in Nat /\ x % consFontW \in 0..(consFontW - 1) /\ x = colOf(x) * consFontW + (x % consFontW)
    BY <2>1, QuotientIs DEF colOf
  <2>3. colOf(x) < Cols
    <3>1. SUFFICES ASSUME colOf(x) >= Cols PROVE FALSE
      BY <2>2, <1>1
    <3>2. colOf(x) * consFontW >= Cols * consFontW
      BY <3>1, <2>2, <1>1
    <3>3. colOf(x) * consFontW \in Nat /\ Cols * consFontW \in Nat
      BY <2>2, <1>1
    <3> QED BY <2>1, <2>2, <3>2, <3>3
  <2> QED BY <2>2, <2>3, <1>1
<1>4. ASSUME NEW k \in 0..(Cols - 1), NEW d \in 0..(consFontW - 1)
      PROVE  k * consFontW + d \in Places /\ colOf(k * consFontW + d) = k /\ (k * consFontW + d) % consFontW = d
  <2>1. k \in Nat /\ k + 1 <= Cols
    BY <1>1
  <2>2. (k + 1) * consFontW <= Cols * consFontW /\ k * consFontW \in Nat /\ (k + 1) * consFontW = k * consFontW + consFontW
    BY <2>1, <1>1
  <2>3. k * consFontW + d \in Places
    BY <2>2, <1>1 DEF Places
  <2> QED BY <2>1, <2>3, RemainderIs DEF colOf
<1>5. ASSUME NEW k \in Nat PROVE k * consFontW > xsize - consFontW <=> k >= Cols
  <2>1. CASE k >= Cols
    <3>1. k * consFontW >= Cols * consFontW
      BY <2>1, <1>1
    <3> QED BY <2>1, <3>1, <1>1
  <2>2. CASE k + 1 <= Cols
    <3>1. (k + 1) * consFontW <= Cols * consFontW /\ (k + 1) * consFontW = k * consFontW + consFontW
      BY <2>2, <1>1
    <3>2. k * consFontW \in Nat
      OBVIOUS
    <3> QED BY <2>2, <3>1, <3>2, <1>1
  <2> QED BY <2>1, <2>2, <1>1
<1> QED BY <1>1, <1>2, <1>3, <1>4, <1>5

(* What drawn() says of a pixel is what its place says. *)
LEMMA DrawnIs ==
  ASSUME LcdAssumption, NEW t, NEW y \in Lines, NEW x \in Places
  PROVE  drawn(t, pixel(y, x)) = point(t.cells[rowOf(y)][colOf(x)], y, x)
<1>1. pixel(y, x) \div xsize = y /\ pixel(y, x) % xsize = x
  BY PixelAt
<1> QED BY <1>1 DEF drawn, point, rowOf, colOf

(* A pixel is above or below the lowest row as its line is. *)
LEMMA BottomIs ==
  ASSUME LcdAssumption, NEW y \in Lines, NEW x \in Places
  PROVE  pixel(y, x) >= consY * xsize <=> y >= consY
<1> USE SizesAre
<1>1. y \in Nat /\ consY \in Nat /\ x \in Nat /\ x < xsize
  BY DEF Lines, Places
<1>2. y * xsize \in Nat /\ consY * xsize \in Nat
  BY <1>1
<1>3. y >= consY => y * xsize >= consY * xsize
  BY <1>1
<1>4. y + 1 <= consY => (y + 1) * xsize <= consY * xsize /\ (y + 1) * xsize = y * xsize + xsize
  BY <1>1
<1> QED BY <1>1, <1>2, <1>3, <1>4 DEF pixel

(* A text that is scrolled is one. *)
LEMMA ScrolledIs ==
  ASSUME LcdAssumption, WholeColumns, bg \in Greys, NEW t \in Texts
  PROVE  LET s == console!scrolled(t, bg) IN
         /\ s.cells = [r \in 0..(Rows - 1) |->
                         IF r = 0 THEN [k \in 0..(Cols - 1) |-> console!Blank(bg)] ELSE t.cells[r - 1]]
         /\ s.col = t.col /\ s \in Texts
<1> DEFINE s == console!scrolled(t, bg)
<1> USE SizesAre
<1>0. Rows \in Nat \ {0} /\ Cols \in Nat \ {0} /\ t.cells \in Cells /\ t.col \in Nat
  BY RowsAre, ColumnsAre DEF Texts
<1>1. /\ s.cells = [r \in 0..(Rows - 1) |->
                      IF r = 0 THEN [k \in 0..(Cols - 1) |-> console!Blank(bg)] ELSE t.cells[r - 1]]
      /\ s.col = t.col /\ (s.cells \in Cells => s \in Texts)
  BY DEF console!scrolled, Texts
<1>2. s \in Texts
  <2>1. console!Blank(bg) \in Cell
    BY DEF console!Blank, Cell, Background
  <2>2. [k \in 0..(Cols - 1) |-> console!Blank(bg)] \in [0..(Cols - 1) -> Cell]
    BY <2>1
  <2>3. \A r \in 0..(Rows - 1) : r # 0 => t.cells[r - 1] \in [0..(Cols - 1) -> Cell]
    BY <1>0 DEF Cells
  <2>4. s.cells \in Cells
    BY <1>1, <2>2, <2>3 DEF Cells
  <2> QED BY <1>1, <2>4
<1> QED BY <1>1, <1>2

(* Scrolling moves what a line shows a row up, and clears the lowest. *)
LEMMA ScrollShows ==
  ASSUME LcdAssumption, WholeColumns, bg \in Greys, NEW t \in Texts, Shows(fb, t)
  PROVE  Shows(k70LcdScroll, console!scrolled(t, bg)) /\ console!scrolled(t, bg) \in Texts
<1> DEFINE s == console!scrolled(t, bg)
<1> USE SizesAre
<1>0. Rows \in Nat \ {0} /\ Cols \in Nat \ {0} /\ t.cells \in Cells /\ t.col \in Nat
  BY RowsAre, ColumnsAre DEF Texts
<1>1. /\ s.cells = [r \in 0..(Rows - 1) |->
                      IF r = 0 THEN [k \in 0..(Cols - 1) |-> console!Blank(bg)] ELSE t.cells[r - 1]]
      /\ s \in Texts
  BY ScrolledIs
<1>3. ASSUME NEW y \in Lines, NEW x \in Places
      PROVE  k70LcdScroll[pixel(y, x)] = point(s.cells[rowOf(y)][colOf(x)], y, x)
  <2>1. pixel(y, x) \in Pixels /\ pixel(y, x) \in Int /\ consY * xsize \in Int
    BY PixelAt DEF Pixels
  <2>2. rowOf(y) \in 0..(Rows - 1) /\ colOf(x) \in 0..(Cols - 1)
    BY RowsAre, ColumnsAre
  <2>3. clearFrom = consY * xsize
    BY DEF clearFrom
  <2>4. CASE y >= consY
    <3>1. k70LcdScroll[pixel(y, x)] = console!Blank(bg)
      BY <2>1, <2>3, <2>4, BottomIs DEF k70LcdScroll
    <3>2. s.cells[rowOf(y)][colOf(x)] = console!Blank(bg)
      BY <1>1, <2>2, <2>4, RowsAre
    <3> QED BY <3>1, <3>2 DEF point, console!Blank
  <2>5. CASE ~(y >= consY)
    <3> DEFINE z == y + consFontH
    <3>1. y < consY /\ y \in Nat
      BY <2>5 DEF Lines
    <3>2. /\ z \in Lines /\ rowOf(z) = rowOf(y) - 1 /\ rowOf(y) # 0
          /\ (ysize - 1 - z) % consFontH = (ysize - 1 - y) % consFontH
      BY <3>1, <2>5, RowsAre
    <3>3. pixel(y, x) + consFontH * xsize = pixel(z, x)
      BY <3>1 DEF pixel, Places
    <3>4. k70LcdScroll[pixel(y, x)] = fb[pixel(z, x)]
      BY <2>1, <2>3, <2>5, <3>3, BottomIs DEF k70LcdScroll
    <3> DEFINE cell == t.cells[rowOf(z)][colOf(x)]
    <3>5. fb[pixel(z, x)] = point(cell, z, x)
      BY <3>2 DEF Shows
    <3>6. s.cells[rowOf(y)][colOf(x)] = cell
      BY <1>1, <2>2, <3>2
    <3>7. cell \in Cell
      <4>1. rowOf(z) \in 0..(Rows - 1)
        BY <3>2, RowsAre
      <4> QED BY <4>1, <1>0, <2>2 DEF Cells
    <3>8. cell[1] = "picture" => cell[2] \in Int
      BY <3>7 DEF Cell
    <3>9. ASSUME cell[1] = "picture"
          PROVE  pixel(y, x) + (rowOf(y) - cell[2]) * consFontH * xsize = pixel(z, x) + (rowOf(z) - cell[2]) * consFontH * xsize
      <4> DEFINE d == rowOf(y) - cell[2]
      <4>1. d \in Int /\ rowOf(z) - cell[2] = d - 1
        BY <3>2, <3>8, <3>9, <2>2
      <4> HIDE DEF d, cell, z
      <4>2. d * consFontH * xsize = consFontH * xsize + (d - 1) * consFontH * xsize
        BY <4>1
      <4>3. (d - 1) * consFontH * xsize \in Int /\ consFontH * xsize \in Int
        BY <4>1
      <4>4. pixel(y, x) + d * consFontH * xsize = pixel(z, x) + (d - 1) * consFontH * xsize
        BY <4>2, <4>3, <3>3, <2>1
      <4> QED BY <4>1, <4>4 DEF d
    <3> HIDE DEF z, cell, s
    <3>10. point(cell, y, x) = point(cell, z, x)
      BY <3>2, <3>9 DEF point
    <3> QED BY <3>4, <3>5, <3>6, <3>10
  <2> QED BY <2>4, <2>5
<1> HIDE DEF s
<1>4. Shows(k70LcdScroll, s)
  BY <1>3 DEF Shows
<1> QED BY <1>1, <1>4 DEF s

(* A cleared screen is an empty text. *)
LEMMA ClearShows ==
  ASSUME LcdAssumption, WholeColumns, bg \in Background
  PROVE  Shows(cleared, console!empty(bg)) /\ console!empty(bg) \in Texts /\ console!empty(bg).col = 0
<1>0. Rows \in Nat \ {0} /\ Cols \in Nat \ {0}
  BY RowsAre, ColumnsAre
<1>1. console!Blank(bg) \in Cell
  BY DEF console!Blank, Cell
<1>2. console!empty(bg) \in Texts /\ console!empty(bg).col = 0
  BY <1>0, <1>1 DEF console!empty, Texts, Cells
<1>3. ASSUME NEW y \in Lines, NEW x \in Places
      PROVE  cleared[pixel(y, x)] = point(console!empty(bg).cells[rowOf(y)][colOf(x)], y, x)
  <2>1. pixel(y, x) \in Pixels /\ rowOf(y) \in 0..(Rows - 1) /\ colOf(x) \in 0..(Cols - 1)
    BY PixelAt, RowsAre, ColumnsAre
  <2>2. cleared[pixel(y, x)] = console!Blank(bg) /\ console!empty(bg).cells[rowOf(y)][colOf(x)] = console!Blank(bg)
    BY <2>1 DEF cleared, console!empty
  <2> QED BY <2>2 DEF point, console!Blank
<1> QED BY <1>2, <1>3 DEF Shows

(* A blit shows the whole picture, wherever the cursor is. *)
LEMMA BlitShows ==
  ASSUME LcdAssumption, WholeColumns, NEW t \in Texts
  PROVE  LET f == [i \in Pixels |-> <<"picture", i>>]
             s == [t EXCEPT !.cells = console!picture]
         IN  Shows(f, s) /\ s \in Texts /\ s.col = t.col
<1> DEFINE f == [i \in Pixels |-> <<"picture", i>>]
           s == [t EXCEPT !.cells = console!picture]
<1> USE SizesAre
<1>0. Rows \in Nat \ {0} /\ Cols \in Nat \ {0}
  BY RowsAre, ColumnsAre
<1>1. \A r \in 0..(Rows - 1) : <<"picture", r>> \in Cell
  BY DEF Cell
<1>2. console!picture \in Cells
  BY <1>0, <1>1 DEF console!picture, Cells
<1>3. s.cells = console!picture /\ s.col = t.col /\ s \in Texts
  BY <1>2 DEF Texts
<1>4. ASSUME NEW y \in Lines, NEW x \in Places
      PROVE  f[pixel(y, x)] = point(s.cells[rowOf(y)][colOf(x)], y, x)
  <2>1. pixel(y, x) \in Pixels /\ rowOf(y) \in 0..(Rows - 1) /\ colOf(x) \in 0..(Cols - 1)
    BY PixelAt, RowsAre, ColumnsAre
  <2>2. s.cells[rowOf(y)][colOf(x)] = <<"picture", rowOf(y)>>
    BY <1>3, <2>1 DEF console!picture
  <2>3. pixel(y, x) + (rowOf(y) - rowOf(y)) * consFontH * xsize = pixel(y, x)
    <3>1. rowOf(y) - rowOf(y) = 0 /\ pixel(y, x) \in Int
      BY <2>1 DEF Pixels
    <3> QED BY <3>1
  <2>4. point(<<"picture", rowOf(y)>>, y, x) = <<"picture", pixel(y, x)>>
    BY <2>3 DEF point
  <2> QED BY <2>1, <2>2, <2>4
<1>5. Shows(f, s)
  BY <1>4 DEF Shows
<1> QED BY <1>3, <1>5

(* The glyph of a character covers the cell at the cursor, and is drawn inside
   the screen. *)
LEMMA GlyphShows ==
  ASSUME LcdAssumption, WholeColumns, NEW t \in Texts, Shows(fb, t), t.col < Cols,
         consX = t.col * consFontW, NEW c \in ConsChars
  PROVE  LET g == glyph(c)
             f == [i \in Pixels |-> IF i \in DOMAIN g THEN g[i] ELSE fb[i]]
             s == [t EXCEPT !.cells[0][t.col] = <<"char", c>>]
         IN  Shows(f, s) /\ s \in Texts /\ DOMAIN g \subseteq Pixels
<1> DEFINE g == glyph(c)
           f == [i \in Pixels |-> IF i \in DOMAIN g THEN g[i] ELSE fb[i]]
           s == [t EXCEPT !.cells[0][t.col] = <<"char", c>>]
<1> USE SizesAre
<1>0. Rows \in Nat \ {0} /\ Cols \in Nat \ {0} /\ t.cells \in Cells /\ t.col \in 0..(Cols - 1) /\ consX \in Nat
  BY RowsAre, ColumnsAre DEF Texts
<1>1. s \in Texts
  <2>1. <<"char", c>> \in Cell
    BY DEF Cell
  <2>2. [t.cells[0] EXCEPT ![t.col] = <<"char", c>>] \in [0..(Cols - 1) -> Cell]
    <3>1. 0 \in 0..(Rows - 1) /\ t.cells[0] \in [0..(Cols - 1) -> Cell]
      BY <1>0 DEF Cells
    <3> QED BY <2>1, <3>1
  <2>3. [t.cells EXCEPT ![0] = [t.cells[0] EXCEPT ![t.col] = <<"char", c>>]] \in Cells
    BY <1>0, <2>2 DEF Cells
  <2> QED BY <2>3 DEF Texts
<1>2. s.cells = [t.cells EXCEPT ![0] = [t.cells[0] EXCEPT ![t.col] = <<"char", c>>]]
  BY DEF Texts
<1>3. \A r \in 0..(Rows - 1), k \in 0..(Cols - 1) :
        s.cells[r][k] = IF r = 0 /\ k = t.col THEN <<"char", c>> ELSE t.cells[r][k]
  <2>1. DOMAIN t.cells = 0..(Rows - 1) /\ \A r \in 0..(Rows - 1) : DOMAIN t.cells[r] = 0..(Cols - 1)
    BY <1>0 DEF Cells
  <2>2. 0 \in 0..(Rows - 1)
    BY <1>0
  <2> HIDE DEF s
  <2>3. /\ s.cells[0] = [t.cells[0] EXCEPT ![t.col] = <<"char", c>>]
        /\ \A r \in 0..(Rows - 1) : r # 0 => s.cells[r] = t.cells[r]
    BY <2>1, <2>2, <1>2
  <2>4. \A k \in 0..(Cols - 1) : s.cells[0][k] = IF k = t.col THEN <<"char", c>> ELSE t.cells[0][k]
    BY <2>1, <2>2, <2>3
  <2> QED BY <2>3, <2>4
<1>4. DOMAIN g = {(y + consY) * xsize + x + consX : y \in 0..(consFontH - 1), x \in 0..(consFontW - 1)}
  BY DEF glyph
<1>5. ASSUME NEW y \in 0..(consFontH - 1), NEW x \in 0..(consFontW - 1)
      PROVE  /\ (y + consY) * xsize + x + consX = pixel(y + consY, consX + x)
             /\ y + consY \in Lines /\ consX + x \in Places /\ colOf(consX + x) = t.col
  <2>1. consX + x \in Places /\ colOf(consX + x) = t.col
    BY <1>0, ColumnsAre
  <2>2. y + consY \in Lines
    BY DEF Lines
  <2>3. (y + consY) * xsize \in Int
    OBVIOUS
  <2>4. (y + consY) * xsize + x + consX = (y + consY) * xsize + (consX + x)
    BY <2>3, <1>0
  <2> QED BY <2>1, <2>2, <2>4 DEF pixel
<1>6. DOMAIN g \subseteq Pixels
  BY <1>4, <1>5, PixelAt
<1>7. ASSUME NEW y \in Lines, NEW x \in Places
      PROVE  pixel(y, x) \in DOMAIN g <=> (y >= consY /\ colOf(x) = t.col)
  <2>1. ASSUME pixel(y, x) \in DOMAIN g PROVE y >= consY /\ colOf(x) = t.col
    <3>1. PICK y1 \in 0..(consFontH - 1), x1 \in 0..(consFontW - 1) : pixel(y, x) = pixel(y1 + consY, consX + x1)
      BY <2>1, <1>4, <1>5
    <3>2. y = y1 + consY /\ x = consX + x1
      BY <3>1, <1>5, PixelAt
    <3> QED BY <3>2, <1>5
  <2>2. ASSUME y >= consY, colOf(x) = t.col PROVE pixel(y, x) \in DOMAIN g
    <3> DEFINE y1 == y - consY
               x1 == x % consFontW
    <3>1. y1 \in 0..(consFontH - 1) /\ y = y1 + consY
      BY <2>2 DEF Lines
    <3>2. x1 \in 0..(consFontW - 1) /\ x = consX + x1
      BY <2>2, ColumnsAre
    <3> HIDE DEF y1, x1
    <3> QED BY <3>1, <3>2, <1>4, <1>5
  <2> QED BY <2>1, <2>2
<1>8. ASSUME NEW y \in Lines, NEW x \in Places
      PROVE  f[pixel(y, x)] = point(s.cells[rowOf(y)][colOf(x)], y, x)
  <2>1. pixel(y, x) \in Pixels /\ rowOf(y) \in 0..(Rows - 1) /\ colOf(x) \in 0..(Cols - 1) /\ (rowOf(y) = 0 <=> y >= consY)
    BY PixelAt, RowsAre, ColumnsAre
  <2>2. CASE y >= consY /\ colOf(x) = t.col
    <3>1. f[pixel(y, x)] = g[pixel(y, x)] /\ pixel(y, x) \in DOMAIN g
      BY <1>7, <2>1, <2>2
    <3> DEFINE off == pixel(y, x) - consX - consY * xsize
    <3>2. g[pixel(y, x)] = <<c, off \div xsize, off % xsize>>
      BY <3>1 DEF glyph
    <3>3. x - consX = x % consFontW /\ x % consFontW \in 0..(xsize - 1) /\ y - consY \in Nat
      <4>1. x = consX + (x % consFontW) /\ x % consFontW \in 0..(consFontW - 1) /\ x \in 0..(xsize - 1)
        BY <2>2, ColumnsAre DEF Places
      <4> QED BY <4>1, <1>0, <2>2 DEF Lines
    <3>4. off = (y - consY) * xsize + (x % consFontW)
      <4>1. y * xsize \in Int /\ consY * xsize \in Int /\ (y - consY) * xsize = y * xsize - consY * xsize
        BY DEF Lines
      <4> QED BY <4>1, <3>3, <1>0 DEF pixel, Places
    <3>5. off \div xsize = y - consY /\ off % xsize = x % consFontW
      <4> HIDE DEF off
      <4> QED BY <3>3, <3>4, RemainderIs
    <3>6. consFontH - 1 - ((ysize - 1 - y) % consFontH) = y - consY
      <4>1. (ysize - 1 - y) % consFontH = ysize - 1 - y
        BY <2>2, RowsAre
      <4> QED BY <4>1 DEF Lines
    <3>7. s.cells[rowOf(y)][colOf(x)] = <<"char", c>>
      BY <1>3, <2>1, <2>2
    <3>8. point(<<"char", c>>, y, x) = <<c, y - consY, x % consFontW>>
      BY <3>6 DEF point
    <3> HIDE DEF off, f, g, s
    <3> QED BY <3>1, <3>2, <3>5, <3>7, <3>8
  <2>3. CASE ~(y >= consY /\ colOf(x) = t.col)
    <3>1. f[pixel(y, x)] = fb[pixel(y, x)]
      BY <1>7, <2>1, <2>3
    <3>2. s.cells[rowOf(y)][colOf(x)] = t.cells[rowOf(y)][colOf(x)]
      BY <1>3, <2>1, <2>3
    <3> HIDE DEF f, s
    <3> QED BY <3>1, <3>2 DEF Shows
  <2> QED BY <2>2, <2>3
<1>9. Shows(f, s)
  <2> HIDE DEF f, s
  <2> QED BY <1>8 DEF Shows
<1> QED BY <1>1, <1>6, <1>9
-----------------------------------------------------------------------------
(***************************************************************************)
(* What the frame buffer shows while a character is written: a text that   *)
(* has the character and is not yet wrapped.                               *)
(***************************************************************************)
Advanced(t) == [t EXCEPT !.col = t.col + 1]

InStep(w, t) ==
  CASE putStep[w] = "idle"    -> t = text /\ consX = t.col * consFontW
    [] putStep[w] = "advance" -> /\ t.col < Cols /\ text = console!wrapped(Advanced(t), bg)
                            /\ consX = t.col * consFontW
    [] putStep[w] = "check"   -> /\ t.col <= Cols + consTabSpc /\ text = console!wrapped(t, bg)
                            /\ consX = t.col * consFontW
    [] putStep[w] = "home"    -> t = text /\ text.col = 0 /\ consX \in 0..(xsize + consTabSpc * consFontW)

LcdInv ==
  /\ DOMAIN fb = Pixels /\ bg \in Greys /\ beyond = FALSE
  /\ putStep \in [Writers -> {"idle", "advance", "check", "home"}]
  /\ text \in Texts /\ text.col < Cols
  /\ \E t \in Texts : Shows(fb, t) /\ \A w \in Writers : InStep(w, t)

(* One writer at a time, on a screen of whole columns, and backgrounds of
   equal parts. *)
OneWriter == \E w : Writers = {w}
ScreenIsPlain == OneWriter /\ WholeColumns /\ Colours = {}

(* k70LcdEnable() leaves a screen that shows nothing. *)
LEMMA LcdInvInit ==
  ASSUME LcdAssumption, ScreenIsPlain, LcdInit
  PROVE  LcdInv
<1>1. bg \in Greys /\ fb = cleared /\ text = console!empty(bg)
  BY DEF LcdInit, LcdAssumption
<1>2. Shows(cleared, console!empty(bg)) /\ console!empty(bg) \in Texts /\ console!empty(bg).col = 0
  BY <1>1, ClearShows DEF ScreenIsPlain, Background
<1>3. /\ DOMAIN fb = Pixels /\ ~beyond /\ consX = 0
      /\ putStep \in [Writers -> {"idle", "advance", "check", "home"}] /\ \A w \in Writers : putStep[w] = "idle"
  BY <1>1 DEF LcdInit, cleared
<1>4. 0 < Cols /\ 0 * consFontW = 0
  BY ColumnsAre, SizesAre DEF ScreenIsPlain
<1>5. \A w \in Writers : InStep(w, text)
  BY <1>1, <1>2, <1>3, <1>4 DEF InStep
<1> QED BY <1>1, <1>2, <1>3, <1>4, <1>5 DEF LcdInv

(* The invariant says that the screen shows the text. *)
LEMMA LcdInvShows ==
  ASSUME LcdAssumption, ScreenIsPlain, LcdInv
  PROVE  ScreenShowsText
<1> USE SizesAre
<1>1. PICK w : Writers = {w}
  BY DEF ScreenIsPlain, OneWriter
<1>2. PICK t \in Texts : Shows(fb, t) /\ InStep(w, t)
  BY <1>1 DEF LcdInv
<1>3. putStep[w] \in {"idle", "advance", "check", "home"}
  BY <1>1 DEF LcdInv
<1>4. xsize = Cols * consFontW /\ Cols \in Nat
  BY ColumnsAre DEF ScreenIsPlain
<1>5. ASSUME NEW k \in Nat, k <= Cols + consTabSpc
      PROVE  k * consFontW \in 0..(xsize + consTabSpc * consFontW)
  <2>1. k * consFontW <= (Cols + consTabSpc) * consFontW /\ k * consFontW \in Nat
    BY <1>4, <1>5
  <2>2. (Cols + consTabSpc) * consFontW = xsize + consTabSpc * consFontW /\ consTabSpc * consFontW \in Nat
    BY <1>4
  <2> QED BY <2>1, <2>2
<1>6. consX \in 0..(xsize + consTabSpc * consFontW)
  <2>1. CASE putStep[w] = "home"
    BY <2>1, <1>2 DEF InStep
  <2>2. CASE putStep[w] # "home"
    <3>1. t.col \in Nat /\ text.col < Cols
      BY DEF Texts, LcdInv
    <3>2. consX = t.col * consFontW /\ t.col <= Cols + consTabSpc
      <4>1. text.col \in Nat /\ consTabSpc \in Nat
        BY DEF Texts, LcdInv
      <4>2. CASE putStep[w] = "idle"
        BY <4>1, <4>2, <1>2, <1>4, <3>1 DEF InStep
      <4>3. CASE putStep[w] = "advance"
        BY <4>1, <4>3, <1>2, <1>4, <3>1 DEF InStep
      <4>4. CASE putStep[w] = "check"
        BY <4>4, <1>2 DEF InStep
      <4> QED BY <4>2, <4>3, <4>4, <1>3, <2>2
    <3> QED BY <1>5, <3>1, <3>2
  <2> QED BY <2>1, <2>2
<1>7. LcdTypeOK
  BY <1>6 DEF LcdTypeOK, LcdInv, Background
<1>8. ShowsText
  <2> SUFFICES ASSUME AllIdle PROVE (\A i \in Pixels : fb[i] = drawn(text, i)) /\ consX = text.col * consFontW
    BY DEF ShowsText
  <2>1. t = text /\ consX = text.col * consFontW
    BY <1>1, <1>2 DEF AllIdle, InStep
  <2>2. ASSUME NEW i \in Pixels PROVE fb[i] = drawn(text, i)
    <3>1. PICK y \in Lines, x \in Places : i = pixel(y, x)
      BY PixelAt
    <3> QED BY <3>1, <2>1, <1>2, DrawnIs DEF Shows
  <2> QED BY <2>1, <2>2
<1> QED BY <1>7, <1>8 DEF ScreenShowsText, DrawsInside, LcdInv

(* A text that is scrolled, or wrapped, is one. *)
LEMMA WrappedIs ==
  ASSUME LcdAssumption, WholeColumns, bg \in Greys, NEW u \in Texts
  PROVE  /\ console!wrapped(u, bg) \in Texts /\ console!wrapped(u, bg).col < Cols
         /\ u.col < Cols => console!wrapped(u, bg) = u
         /\ ~(u.col < Cols) => /\ console!wrapped(u, bg).col = 0
                               /\ console!wrapped(u, bg).cells = console!scrolled(u, bg).cells
         /\ console!scrolled(u, bg).col = u.col
<1>1. console!scrolled(u, bg) \in Texts /\ console!scrolled(u, bg).col = u.col
  BY ScrolledIs
<1>2. 0 < Cols
  BY ColumnsAre
<1>3. ASSUME NEW s \in Texts
      PROVE  [s EXCEPT !.col = 0] \in Texts /\ [s EXCEPT !.col = 0].col = 0 /\ [s EXCEPT !.col = 0].cells = s.cells
  BY DEF Texts
<1> QED BY <1>1, <1>2, <1>3 DEF console!wrapped

(* Where a tab leads, in columns and in pixels. *)
LEMMA TabIs ==
  ASSUME LcdAssumption, NEW k \in Nat
  PROVE  LET j == (k \div consTabSpc + 1) * consTabSpc
         IN  /\ j \in Nat /\ j <= k + consTabSpc
             /\ ((k * consFontW + tab) \div tab) * tab = j * consFontW
<1> USE SizesAre
<1> DEFINE q == k \div consTabSpc
           r == k % consTabSpc
<1>1. q \in Nat /\ r \in 0..(consTabSpc - 1) /\ k = q * consTabSpc + r
  BY QuotientIs
<1> HIDE DEF q, r
<1>2. q * consTabSpc \in Nat /\ (q + 1) * consTabSpc = q * consTabSpc + consTabSpc
  BY <1>1
<1>3. (q + 1) * consTabSpc \in Nat /\ (q + 1) * consTabSpc <= k + consTabSpc
  BY <1>1, <1>2
<1>4. tab \in Nat \ {0} /\ tab = consTabSpc * consFontW
  BY DEF tab
<1>5. r * consFontW \in 0..(tab - 1)
  <2>1. r \in Nat /\ r + 1 <= consTabSpc
    BY <1>1
  <2>2. (r + 1) * consFontW <= consTabSpc * consFontW
    BY <2>1, ProductsGrow
  <2>4. (r + 1) * consFontW = r * consFontW + consFontW
    BY <2>1
  <2>3. r * consFontW \in Nat
    BY <2>1
  <2> QED BY <2>2, <2>3, <2>4, <1>4
<1>6. k * consFontW + tab = (q + 1) * tab + r * consFontW
  <2>1. k * consFontW = (q * consTabSpc) * consFontW + r * consFontW
    BY <1>1, <1>2
  <2>2. (q * consTabSpc) * consFontW = q * tab
    BY <1>1, <1>4
  <2>3. (q + 1) * tab = q * tab + tab /\ q * tab \in Int
    BY <1>1, <1>4
  <2> QED BY <2>1, <2>2, <2>3, <1>4, <1>5
<1>7. (k * consFontW + tab) \div tab = q + 1
  <2>1. q + 1 \in Nat
    BY <1>1
  <2>2. ((q + 1) * tab + r * consFontW) \div tab = q + 1
    BY <2>1, <1>4, <1>5, RemainderIs
  <2> QED BY <2>2, <1>6
<1>8. (q + 1) * tab = ((q + 1) * consTabSpc) * consFontW
  BY <1>1, <1>4
<1> QED BY <1>3, <1>7, <1>8 DEF q

(* The step of the one writer w that leaves the frame buffer showing u. *)
LEMMA StepsInto ==
  ASSUME NEW w, Writers = {w}, NEW u, u \in Texts, Shows(fb', u), InStep(w, u)',
         DOMAIN fb' = Pixels, bg' \in Greys, beyond' = FALSE,
         putStep' \in [Writers -> {"idle", "advance", "check", "home"}],
         text' \in Texts, text'.col < Cols
  PROVE  LcdInv'
  BY DEF LcdInv

(* What is true of the one writer. *)
LEMMA WriterIs ==
  ASSUME LcdAssumption, ScreenIsPlain, LcdInv, NEW w \in Writers
  PROVE  /\ Writers = {w} /\ bg \in Greys /\ beyond = FALSE /\ DOMAIN fb = Pixels
         /\ putStep \in [Writers -> {"idle", "advance", "check", "home"}]
         /\ text \in Texts /\ text.col \in 0..(Cols - 1) /\ Cols \in Nat \ {0} /\ WholeColumns
         /\ \E t \in Texts : Shows(fb, t) /\ InStep(w, t)
         /\ putStep[w] = "idle" => Shows(fb, text) /\ consX = text.col * consFontW
<1>1. Writers = {w} /\ WholeColumns
  BY DEF ScreenIsPlain, OneWriter
<1>2. PICK t \in Texts : Shows(fb, t) /\ InStep(w, t)
  BY <1>1 DEF LcdInv
<1>3. putStep[w] = "idle" => Shows(fb, text) /\ consX = text.col * consFontW
  BY <1>2 DEF InStep
<1>4. Cols \in Nat \ {0} /\ text.col \in 0..(Cols - 1)
  BY <1>1, ColumnsAre DEF LcdInv, Texts
<1> QED BY <1>1, <1>2, <1>3, <1>4 DEF LcdInv

(* A control character: the cursor moves as its column does, and what scrolls or
   is cleared shows the text that did.  Only a tab may leave the line. *)
LEMMA ControlShows ==
  ASSUME LcdAssumption, ScreenIsPlain, LcdInv, NEW w \in Writers, NEW c \in ConsChars, putControl(w, c)
  PROVE  LcdInv'
<1> USE SizesAre
<1>1. /\ Writers = {w} /\ bg \in Greys /\ beyond = FALSE /\ DOMAIN fb = Pixels
      /\ putStep \in [Writers -> {"idle", "advance", "check", "home"}]
      /\ text \in Texts /\ text.col \in 0..(Cols - 1) /\ Cols \in Nat \ {0} /\ WholeColumns
      /\ putStep[w] = "idle" => Shows(fb, text) /\ consX = text.col * consFontW
  BY WriterIs
<1>2. /\ c \in Controls /\ putStep[w] = "idle" /\ control(c) /\ putStep' = [putStep EXCEPT ![w] = "check"]
      /\ bg' = bg /\ beyond' = beyond /\ text' = console!typed(text, c, bg)
  BY DEF putControl, begin, GoTo
<1>3. putStep' \in [Writers -> {"idle", "advance", "check", "home"}] /\ putStep'[w] = "check"
  BY <1>1, <1>2
<1>4. Shows(fb, text) /\ consX = text.col * consFontW /\ consX \in Nat
  BY <1>1, <1>2
<1> DEFINE At(k) == [text EXCEPT !.col = k]
<1>5. ASSUME NEW k \in Nat PROVE At(k) \in Texts /\ Shows(fb, At(k)) /\ At(k).col = k
  BY <1>1, <1>4 DEF Texts, Shows
<1> HIDE DEF At
<1>6. ASSUME NEW u \in Texts, Shows(fb', u), DOMAIN fb' = Pixels, u.col <= Cols + consTabSpc,
             text' = console!wrapped(u, bg), consX' = u.col * consFontW
      PROVE  LcdInv'
  <2>1. text' \in Texts /\ text'.col < Cols
    BY <1>1, <1>6, WrappedIs
  <2>2. InStep(w, u)'
    BY <1>2, <1>3, <1>6 DEF InStep
  <2> QED BY <1>1, <1>2, <1>3, <1>6, <2>1, <2>2, StepsInto
<1>7. CASE c = "CR"
  <2>1. fb' = fb /\ consX' = 0 /\ text' = At(0)
    BY <1>2, <1>7 DEF control, console!typed, At
  <2>2. At(0) = console!wrapped(At(0), bg) /\ At(0) \in Texts /\ Shows(fb, At(0)) /\ At(0).col = 0
    BY <1>1, <1>5, WrappedIs
  <2>3. 0 = 0 * consFontW /\ 0 <= Cols + consTabSpc
    BY <1>1
  <2> QED BY <1>1, <1>6, <2>1, <2>2, <2>3
<1>8. CASE c = "LF"
  <2>1. fb' = k70LcdScroll /\ consX' = consX /\ text' = console!scrolled(text, bg)
    BY <1>2, <1>8 DEF control, console!typed
  <2>2. Shows(k70LcdScroll, text') /\ text' \in Texts /\ text'.col = text.col
    BY <1>1, <1>4, <2>1, ScrollShows, ScrolledIs
  <2>3. text' = console!wrapped(text', bg)
    BY <1>1, <2>2, WrappedIs
  <2>4. DOMAIN fb' = Pixels
    BY <2>1 DEF k70LcdScroll
  <2> QED BY <1>1, <1>4, <1>6, <2>1, <2>2, <2>3, <2>4
<1>9. CASE c = "TAB"
  <2> DEFINE j == (text.col \div consTabSpc + 1) * consTabSpc
  <2>1. fb' = fb /\ consX' = ((consX + tab) \div tab) * tab /\ text' = console!wrapped(At(j), bg)
    BY <1>2, <1>9 DEF control, console!typed, At
  <2>2. j \in Nat /\ j <= text.col + consTabSpc /\ consX' = j * consFontW
    BY <1>1, <1>4, <2>1, TabIs
  <2> HIDE DEF j
  <2>3. j <= Cols + consTabSpc
    BY <1>1, <2>2
  <2> QED BY <1>1, <1>5, <1>6, <2>1, <2>2, <2>3
<1>10. CASE c = "BS"
  <2> DEFINE j == IF text.col = 0 THEN 0 ELSE text.col - 1
  <2>1. fb' = fb /\ consX' = (IF consX >= consFontW THEN consX - consFontW ELSE consX) /\ text' = At(j)
    BY <1>2, <1>10 DEF control, console!typed, At
  <2>2. j \in Nat /\ j < Cols /\ consX' = j * consFontW
    <3>1. CASE text.col = 0
      BY <1>1, <1>4, <2>1, <3>1
    <3>2. CASE text.col # 0
      <4>1. text.col \in Nat /\ 1 <= text.col
        BY <1>1, <3>2
      <4>2. 1 * consFontW <= text.col * consFontW /\ (text.col - 1) * consFontW = text.col * consFontW - consFontW
        BY <4>1, ProductsGrow
      <4>3. consX' = (text.col - 1) * consFontW
        BY <1>4, <2>1, <4>2
      <4> QED BY <1>1, <3>2, <4>3
    <3> QED BY <3>1, <3>2
  <2> HIDE DEF j
  <2>3. At(j) = console!wrapped(At(j), bg)
    BY <1>1, <1>5, <2>2, WrappedIs
  <2> QED BY <1>1, <1>5, <1>6, <2>1, <2>2, <2>3
<1>11. CASE c = "FF"
  <2>1. fb' = cleared /\ consX' = 0 /\ text' = console!empty(bg)
    BY <1>2, <1>11 DEF control, console!typed
  <2>2. Shows(cleared, text') /\ text' \in Texts /\ text'.col = 0
    BY <1>1, <2>1, ClearShows DEF Background
  <2>3. text' = console!wrapped(text', bg)
    BY <1>1, <2>2, WrappedIs
  <2>4. DOMAIN fb' = Pixels
    BY <2>1 DEF cleared
  <2>5. 0 = 0 * consFontW /\ 0 <= Cols + consTabSpc
    BY <1>1
  <2> QED BY <1>6, <2>1, <2>2, <2>3, <2>4, <2>5
<1> QED BY <1>2, <1>7, <1>8, <1>9, <1>10, <1>11 DEF Controls

(* A printable character is shown before the cursor is advanced. *)
LEMMA GlyphStep ==
  ASSUME LcdAssumption, ScreenIsPlain, LcdInv, NEW w \in Writers, NEW c \in ConsChars, putGlyph(w, c)
  PROVE  LcdInv'
<1>1. /\ Writers = {w} /\ bg \in Greys /\ beyond = FALSE /\ DOMAIN fb = Pixels
      /\ putStep \in [Writers -> {"idle", "advance", "check", "home"}]
      /\ text \in Texts /\ text.col \in 0..(Cols - 1) /\ Cols \in Nat \ {0} /\ WholeColumns
      /\ putStep[w] = "idle" => Shows(fb, text) /\ consX = text.col * consFontW
  BY WriterIs
<1> DEFINE g == glyph(c)
           f == [i \in Pixels |-> IF i \in DOMAIN g THEN g[i] ELSE fb[i]]
           u == [text EXCEPT !.cells[0][text.col] = <<"char", c>>]
<1>2. /\ c \notin Controls /\ putStep[w] = "idle" /\ putStep' = [putStep EXCEPT ![w] = "advance"]
      /\ fb' = f /\ beyond' = (beyond \/ ~(DOMAIN g \subseteq Pixels))
      /\ bg' = bg /\ consX' = consX /\ text' = console!typed(text, c, bg)
  BY DEF putGlyph, begin, GoTo
<1>3. putStep' \in [Writers -> {"idle", "advance", "check", "home"}] /\ putStep'[w] = "advance"
  BY <1>1, <1>2
<1>4. Shows(f, u) /\ u \in Texts /\ DOMAIN g \subseteq Pixels
  <2>1. text.col < Cols
    BY <1>1
  <2>2. Shows(fb, text) /\ text \in Texts /\ consX = text.col * consFontW /\ WholeColumns
    BY <1>1, <1>2
  <2> QED BY <2>1, <2>2, GlyphShows
<1>5. u.col = text.col /\ Advanced(u) \in Texts
  <2>1. u.col = text.col
    BY <1>1 DEF Texts
  <2> HIDE DEF u
  <2> QED BY <1>1, <1>4, <2>1 DEF Advanced, Texts
<1>6. text' = console!wrapped(Advanced(u), bg)
  <2>1. console!typed(text, c, bg)
          = console!wrapped([text EXCEPT !.cells[0][text.col] = <<"char", c>>, !.col = text.col + 1], bg)
    BY <1>2 DEF Controls, console!typed
  <2>2. [text EXCEPT !.cells[0][text.col] = <<"char", c>>, !.col = text.col + 1] = Advanced(u)
    BY <1>5 DEF Advanced
  <2> QED BY <1>2, <2>1, <2>2
<1>7. text' \in Texts /\ text'.col < Cols
  BY <1>1, <1>5, <1>6, WrappedIs
<1>8. DOMAIN fb' = Pixels /\ beyond' = FALSE
  BY <1>1, <1>2, <1>4
<1> HIDE DEF f, g, u
<1>9. PICK v : v = u
  OBVIOUS
<1>10. InStep(w, v)'
  BY <1>1, <1>2, <1>3, <1>5, <1>6, <1>9 DEF InStep
<1>11. Shows(fb', v) /\ v \in Texts
  BY <1>2, <1>4, <1>9
<1> QED BY <1>1, <1>2, <1>3, <1>7, <1>8, <1>10, <1>11, StepsInto

(* The cursor is advanced, perhaps past the last column. *)
LEMMA AdvanceStep ==
  ASSUME LcdAssumption, ScreenIsPlain, LcdInv, NEW w \in Writers, putAdvance(w)
  PROVE  LcdInv'
<1> USE SizesAre
<1>1. /\ Writers = {w} /\ bg \in Greys /\ beyond = FALSE /\ DOMAIN fb = Pixels
      /\ putStep \in [Writers -> {"idle", "advance", "check", "home"}]
      /\ text \in Texts /\ text.col \in 0..(Cols - 1) /\ Cols \in Nat \ {0}
  BY WriterIs
<1>2. PICK t \in Texts : Shows(fb, t) /\ InStep(w, t)
  BY WriterIs
<1>3. /\ putStep[w] = "advance" /\ consX' = consX + consFontW /\ putStep' = [putStep EXCEPT ![w] = "check"]
      /\ fb' = fb /\ bg' = bg /\ beyond' = beyond /\ text' = text
  BY DEF putAdvance, GoTo
<1>4. putStep' \in [Writers -> {"idle", "advance", "check", "home"}] /\ putStep'[w] = "check"
  BY <1>1, <1>3
<1>5. t.col < Cols /\ text = console!wrapped(Advanced(t), bg) /\ consX = t.col * consFontW /\ t.col \in Nat
  BY <1>2, <1>3 DEF InStep, Texts
<1>6. Advanced(t) \in Texts /\ Advanced(t).col = t.col + 1 /\ Shows(fb, Advanced(t))
  BY <1>2, <1>5 DEF Advanced, Texts, Shows
<1>7. consX' = Advanced(t).col * consFontW /\ Advanced(t).col <= Cols + consTabSpc
  BY <1>1, <1>3, <1>5, <1>6
<1>8. PICK v : v = Advanced(t)
  OBVIOUS
<1>9. InStep(w, v)'
  BY <1>3, <1>4, <1>5, <1>7, <1>8 DEF InStep
<1>10. Shows(fb', v) /\ v \in Texts
  BY <1>3, <1>6, <1>8
<1>11. text' \in Texts /\ text'.col < Cols /\ DOMAIN fb' = Pixels /\ bg' \in Greys /\ beyond' = FALSE
  BY <1>1, <1>3
<1> QED BY <1>1, <1>4, <1>9, <1>10, <1>11, StepsInto

(* A cursor past the last column is one for which the text is wrapped. *)
LEMMA CheckStep ==
  ASSUME LcdAssumption, ScreenIsPlain, LcdInv, NEW w \in Writers, putCheck(w)
  PROVE  LcdInv'
<1> USE SizesAre
<1>1. /\ Writers = {w} /\ bg \in Greys /\ beyond = FALSE /\ DOMAIN fb = Pixels /\ WholeColumns
      /\ putStep \in [Writers -> {"idle", "advance", "check", "home"}]
      /\ text \in Texts /\ text.col \in 0..(Cols - 1) /\ Cols \in Nat \ {0}
  BY WriterIs
<1>2. PICK t \in Texts : Shows(fb, t) /\ InStep(w, t)
  BY WriterIs
<1>3. /\ putStep[w] = "check" /\ consX' = consX /\ putStep' = [putStep EXCEPT ![w] = IF atEdge THEN "home" ELSE "idle"]
      /\ fb' = (IF atEdge THEN k70LcdScroll ELSE fb) /\ bg' = bg /\ beyond' = beyond /\ text' = text
  BY DEF putCheck, GoTo
<1>4. /\ t.col <= Cols + consTabSpc /\ text = console!wrapped(t, bg) /\ consX = t.col * consFontW
      /\ t.col \in Nat
  BY <1>2, <1>3 DEF InStep, Texts
<1>5. atEdge <=> t.col >= Cols
  BY <1>1, <1>4, ColumnsAre DEF atEdge
<1>6. text' \in Texts /\ text'.col < Cols /\ bg' \in Greys /\ beyond' = FALSE
  BY <1>1, <1>3
<1>7. CASE atEdge
  <2>1. /\ putStep' \in [Writers -> {"idle", "advance", "check", "home"}] /\ putStep'[w] = "home"
        /\ fb' = k70LcdScroll /\ DOMAIN fb' = Pixels
    BY <1>1, <1>3, <1>7 DEF k70LcdScroll
  <2>2. text.col = 0 /\ text.cells = console!scrolled(t, bg).cells
    BY <1>1, <1>4, <1>5, <1>7, WrappedIs
  <2>3. Shows(fb', text)
    BY <1>1, <1>2, <2>1, <2>2, ScrollShows DEF Shows
  <2>4. consX \in 0..(xsize + consTabSpc * consFontW)
    <3>1. t.col * consFontW <= (Cols + consTabSpc) * consFontW
      BY <1>1, <1>4, ProductsGrow
    <3>2. xsize = Cols * consFontW
      BY <1>1, ColumnsAre
    <3>3. (Cols + consTabSpc) * consFontW = xsize + consTabSpc * consFontW
      BY <3>2, <1>1
    <3>4. t.col * consFontW \in Nat
      BY <1>4
    <3> QED BY <3>1, <3>3, <3>4, <1>4
  <2>5. PICK v : v = text
    OBVIOUS
  <2>6. InStep(w, v)'
    BY <1>3, <2>1, <2>2, <2>4, <2>5 DEF InStep
  <2>7. Shows(fb', v) /\ v \in Texts
    BY <1>1, <2>3, <2>5
  <2> QED BY <1>1, <1>6, <2>1, <2>6, <2>7, StepsInto
<1>8. CASE ~atEdge
  <2>1. putStep' \in [Writers -> {"idle", "advance", "check", "home"}] /\ putStep'[w] = "idle" /\ fb' = fb
    BY <1>1, <1>3, <1>8
  <2>2. text = t
    BY <1>1, <1>4, <1>5, <1>8, WrappedIs
  <2>3. InStep(w, t)'
    BY <1>3, <1>4, <2>1, <2>2 DEF InStep
  <2>4. Shows(fb', t) /\ DOMAIN fb' = Pixels
    BY <1>1, <1>2, <2>1
  <2> QED BY <1>1, <1>6, <2>1, <2>3, <2>4, StepsInto
<1> QED BY <1>7, <1>8

(* After the scroll the cursor goes where the wrapped text has it. *)
LEMMA HomeStep ==
  ASSUME LcdAssumption, ScreenIsPlain, LcdInv, NEW w \in Writers, putHome(w)
  PROVE  LcdInv'
<1> USE SizesAre
<1>1. /\ Writers = {w} /\ bg \in Greys /\ beyond = FALSE /\ DOMAIN fb = Pixels
      /\ putStep \in [Writers -> {"idle", "advance", "check", "home"}]
      /\ text \in Texts /\ text.col \in 0..(Cols - 1) /\ Cols \in Nat \ {0}
  BY WriterIs
<1>2. PICK t \in Texts : Shows(fb, t) /\ InStep(w, t)
  BY WriterIs
<1>3. /\ putStep[w] = "home" /\ consX' = 0 /\ putStep' = [putStep EXCEPT ![w] = "idle"]
      /\ fb' = fb /\ bg' = bg /\ beyond' = beyond /\ text' = text
  BY DEF putHome, GoTo
<1>4. putStep' \in [Writers -> {"idle", "advance", "check", "home"}] /\ putStep'[w] = "idle"
  BY <1>1, <1>3
<1>5. t = text /\ t.col = 0 /\ 0 = 0 * consFontW
  BY <1>2, <1>3 DEF InStep
<1>6. InStep(w, t)'
  BY <1>3, <1>4, <1>5 DEF InStep
<1>7. text' \in Texts /\ text'.col < Cols /\ DOMAIN fb' = Pixels /\ bg' \in Greys /\ beyond' = FALSE
  BY <1>1, <1>3
<1>8. Shows(fb', t)
  BY <1>2, <1>3
<1> QED BY <1>1, <1>4, <1>6, <1>7, <1>8, StepsInto

(* The other files of /dev/lcd, while no character is being written. *)
LEMMA FilesStep ==
  ASSUME LcdAssumption, ScreenIsPlain, LcdInv, (\E b \in Background : writeBg(b)) \/ writeClear \/ writeBlit
  PROVE  LcdInv'
<1> USE SizesAre
<1>1. PICK w : w \in Writers
  BY DEF ScreenIsPlain, OneWriter
<1>2. AllIdle /\ putStep' = putStep
  BY DEF writeBg, writeClear, writeBlit
<1>3. putStep[w] = "idle"
  BY <1>1, <1>2 DEF AllIdle
<1>4. /\ Writers = {w} /\ bg \in Greys /\ beyond = FALSE /\ DOMAIN fb = Pixels /\ WholeColumns
      /\ putStep \in [Writers -> {"idle", "advance", "check", "home"}]
      /\ text \in Texts /\ text.col \in 0..(Cols - 1) /\ Cols \in Nat \ {0}
      /\ Shows(fb, text) /\ consX = text.col * consFontW
  BY <1>1, <1>3, WriterIs
<1>5. ASSUME text' \in Texts, text'.col < Cols, Shows(fb', text'), DOMAIN fb' = Pixels,
             consX' = text'.col * consFontW, bg' \in Greys, beyond' = beyond
      PROVE  LcdInv'
  <2>1. PICK v : v = text'
    OBVIOUS
  <2>2. InStep(w, v)'
    BY <1>2, <1>3, <1>5, <2>1 DEF InStep
  <2> QED BY <1>2, <1>4, <1>5, <2>1, <2>2, StepsInto
<1>6. CASE \E b \in Background : writeBg(b)
  <2>1. bg' \in Greys /\ fb' = fb /\ consX' = consX /\ beyond' = beyond /\ text' = text
    BY <1>6 DEF writeBg, Background, ScreenIsPlain
  <2> QED BY <1>4, <1>5, <2>1
<1>7. CASE writeClear
  <2>1. fb' = cleared /\ consX' = 0 /\ text' = console!empty(bg) /\ bg' = bg /\ beyond' = beyond
    BY <1>7 DEF writeClear
  <2>2. Shows(cleared, text') /\ text' \in Texts /\ text'.col = 0
    BY <1>4, <2>1, ClearShows DEF Background
  <2>3. DOMAIN fb' = Pixels /\ 0 = 0 * consFontW
    BY <2>1 DEF cleared
  <2> QED BY <1>4, <1>5, <2>1, <2>2, <2>3
<1>8. CASE writeBlit
  <2>1. /\ fb' = [i \in Pixels |-> <<"picture", i>>] /\ text' = [text EXCEPT !.cells = console!picture]
        /\ consX' = consX /\ bg' = bg /\ beyond' = beyond
    BY <1>8 DEF writeBlit
  <2>2. Shows(fb', text') /\ text' \in Texts /\ text'.col = text.col
    BY <1>4, <2>1, BlitShows
  <2>3. DOMAIN fb' = Pixels
    BY <2>1
  <2> QED BY <1>4, <1>5, <2>1, <2>2, <2>3
<1> QED BY <1>6, <1>7, <1>8

(* Every step keeps the invariant. *)
LEMMA LcdInvNext ==
  ASSUME LcdAssumption, ScreenIsPlain
  PROVE  LcdInv /\ [LcdNext]_lcdVars => LcdInv'
<1> SUFFICES ASSUME LcdInv, [LcdNext]_lcdVars PROVE LcdInv'
  OBVIOUS
<1>1. ASSUME NEW w \in Writers, NEW c \in ConsChars, putControl(w, c) PROVE LcdInv'
  BY <1>1, ControlShows
<1>2. ASSUME NEW w \in Writers, NEW c \in ConsChars, putGlyph(w, c) PROVE LcdInv'
  BY <1>2, GlyphStep
<1>3. ASSUME NEW w \in Writers, putAdvance(w) \/ putCheck(w) \/ putHome(w) PROVE LcdInv'
  BY <1>3, AdvanceStep, CheckStep, HomeStep
<1>4. CASE (\E b \in Background : writeBg(b)) \/ writeClear \/ writeBlit
  BY <1>4, FilesStep
<1>5. CASE UNCHANGED lcdVars
  <2>1. PICK w : Writers = {w}
    BY DEF ScreenIsPlain, OneWriter
  <2>2. PICK t \in Texts : Shows(fb, t) /\ InStep(w, t)
    BY <2>1 DEF LcdInv
  <2>3. /\ fb' = fb /\ consX' = consX /\ bg' = bg /\ putStep' = putStep /\ beyond' = beyond /\ text' = text
    BY <1>5 DEF lcdVars
  <2>4. InStep(w, t)'
    BY <2>2, <2>3 DEF InStep
  <2> QED BY <2>1, <2>2, <2>3, <2>4, StepsInto DEF LcdInv
<1> QED BY <1>1, <1>2, <1>3, <1>4, <1>5 DEF LcdNext

(* On a screen of any size that is a whole number of characters wide, one
   writer's text is shown by every pixel between two characters, across
   scrolls, tabs, wraps and pictures, and nothing is drawn outside. *)
THEOREM ScreenShowsItsText ==
  ASSUME LcdAssumption, ScreenIsPlain
  PROVE  LcdSpec => []ScreenShowsText
<1>1. LcdInit => LcdInv
  BY LcdInvInit
<1>2. LcdInv => ScreenShowsText
  BY LcdInvShows
<1> QED BY <1>1, <1>2, LcdInvNext, PTL DEF LcdSpec
-----------------------------------------------------------------------------
(***************************************************************************)
(* Printing.                                                               *)
(*                                                                         *)
(* At every item the buffer holds what the items before it mean, up to     *)
(* where the buffer ends, and n counts the rest of the buffer.             *)
(***************************************************************************)
Byte == (0..9) \cup {"nul", " ", "c", "%", "-"}
Text == Seq(Byte)

(* s as far as r bytes go. *)
Least(a, b) == IF a <= b THEN a ELSE b
Cut(s, r) == SubSeq(s, 1, Least(Len(s), r))

LEMMA CutIs ==
  ASSUME NEW s \in Text, NEW r \in Nat
  PROVE  /\ Cut(s, r) \in Text /\ Len(Cut(s, r)) = Least(Len(s), r) /\ Len(s) \in Nat
         /\ \A i \in 1..Least(Len(s), r) : Cut(s, r)[i] = s[i]
         /\ Len(s) <= r => Cut(s, r) = s
<1> DEFINE k == Least(Len(s), r)
<1>1. k \in 0..Len(s) /\ Len(s) \in Nat
  BY DEF Least, Text
<1>2. \A i \in 1..k : s[i] \in Byte
  BY <1>1 DEF Text
<1>3. /\ SubSeq(s, 1, k) \in Seq(Byte) /\ Len(SubSeq(s, 1, k)) = IF 1 <= k THEN k - 1 + 1 ELSE 0
      /\ \A i \in 1..(k - 1 + 1) : SubSeq(s, 1, k)[i] = s[1 + i - 1]
  BY <1>1, <1>2, SubSeqProperties
<1>4. Len(SubSeq(s, 1, k)) = k /\ \A i \in 1..k : SubSeq(s, 1, k)[i] = s[i]
  BY <1>1, <1>3
<1>5. Len(s) <= r => SubSeq(s, 1, k) = s
  BY SubSeqFull DEF Least, Text
<1> QED BY <1>1, <1>3, <1>4, <1>5 DEF Cut, Text

(* Two texts after each other. *)
LEMMA TextsJoin ==
  ASSUME NEW s \in Text, NEW t \in Text
  PROVE  /\ s \o t \in Text /\ Len(s \o t) = Len(s) + Len(t) /\ Len(s) \in Nat /\ Len(t) \in Nat
         /\ \A i \in 1..(Len(s) + Len(t)) : (s \o t)[i] = IF i <= Len(s) THEN s[i] ELSE t[i - Len(s)]
  BY ConcatProperties DEF Text

(* A text that is cut after what is left for it continues one that is cut. *)
LEMMA CutJoins ==
  ASSUME NEW s \in Text, NEW t \in Text, NEW r \in Nat
  PROVE  LET left == r - Len(Cut(s, r))
         IN  left \in Nat /\ Cut(s, r) \o Cut(t, left) = Cut(s \o t, r)
<1> DEFINE left == r - Len(Cut(s, r))
           a == Cut(s, r) \o Cut(t, left)
           b == Cut(s \o t, r)
<1>1. /\ Cut(s, r) \in Text /\ Len(Cut(s, r)) = Least(Len(s), r) /\ Len(s) \in Nat
      /\ \A i \in 1..Least(Len(s), r) : Cut(s, r)[i] = s[i]
  BY CutIs
<1>2. left \in Nat /\ left = IF Len(s) <= r THEN r - Len(s) ELSE 0
  BY <1>1 DEF Least
<1> HIDE DEF left
<1>3. /\ Cut(t, left) \in Text /\ Len(Cut(t, left)) = Least(Len(t), left) /\ Len(t) \in Nat
      /\ \A i \in 1..Least(Len(t), left) : Cut(t, left)[i] = t[i]
  BY <1>2, CutIs
<1>4. /\ s \o t \in Text /\ Len(s \o t) = Len(s) + Len(t)
      /\ \A i \in 1..(Len(s) + Len(t)) : (s \o t)[i] = IF i <= Len(s) THEN s[i] ELSE t[i - Len(s)]
  BY TextsJoin
<1>5. /\ b \in Text /\ Len(b) = Least(Len(s) + Len(t), r)
      /\ \A i \in 1..Least(Len(s) + Len(t), r) : b[i] = (s \o t)[i]
  <2> DEFINE st == s \o t
  <2>1. st \in Text /\ Len(st) = Len(s) + Len(t)
    BY <1>4
  <2>2. b = Cut(st, r)
    OBVIOUS
  <2> HIDE DEF st, b
  <2>3. /\ b \in Text /\ Len(b) = Least(Len(st), r)
        /\ \A i \in 1..Least(Len(st), r) : b[i] = st[i]
    BY <2>1, <2>2, CutIs
  <2> QED BY <2>1, <2>3 DEF st
<1>6. /\ a \in Text /\ Len(a) = Least(Len(s), r) + Least(Len(t), left)
      /\ \A i \in 1..(Least(Len(s), r) + Least(Len(t), left)) :
           a[i] = IF i <= Least(Len(s), r) THEN Cut(s, r)[i] ELSE Cut(t, left)[i - Least(Len(s), r)]
  <2> DEFINE x == Cut(s, r)
             y == Cut(t, left)
  <2>1. x \in Text /\ y \in Text /\ Len(x) = Least(Len(s), r) /\ Len(y) = Least(Len(t), left)
    BY <1>1, <1>3
  <2>2. a = x \o y
    OBVIOUS
  <2> HIDE DEF x, y, a
  <2>3. /\ a \in Text /\ Len(a) = Len(x) + Len(y)
        /\ \A i \in 1..(Len(x) + Len(y)) : a[i] = IF i <= Len(x) THEN x[i] ELSE y[i - Len(x)]
    BY <2>1, <2>2, TextsJoin
  <2> QED BY <2>1, <2>3 DEF x, y
<1> HIDE DEF a, b
<1>7. Least(Len(s), r) + Least(Len(t), left) = Least(Len(s) + Len(t), r)
  <2> DEFINE m == Len(s)
             k == Len(t)
  <2>1. m \in Nat /\ k \in Nat /\ left \in Nat /\ left = IF m <= r THEN r - m ELSE 0
    BY <1>1, <1>2, <1>3
  <2> HIDE DEF m, k
  <2>2. Least(m, r) + Least(k, left) = Least(m + k, r)
    <3>1. CASE m <= r
      BY <2>1, <3>1 DEF Least
    <3>2. CASE ~(m <= r)
      BY <2>1, <3>2 DEF Least
    <3> QED BY <3>1, <3>2
  <2> QED BY <2>2 DEF m, k
<1>8. ASSUME NEW i \in 1..Len(a) PROVE a[i] = b[i]
  <2>1. i \in 1..Least(Len(s) + Len(t), r) /\ i \in 1..(Len(s) + Len(t)) /\ b[i] = (s \o t)[i]
    BY <1>1, <1>3, <1>5, <1>6, <1>7 DEF Least
  <2>2. CASE i <= Least(Len(s), r)
    <3>1. a[i] = s[i]
      BY <1>1, <1>6, <1>7, <2>1, <2>2 DEF Least
    <3>2. (s \o t)[i] = s[i]
      BY <1>1, <1>4, <2>1, <2>2 DEF Least
    <3> QED BY <2>1, <3>1, <3>2
  <2>3. CASE ~(i <= Least(Len(s), r))
    <3>1. Least(Len(s), r) = Len(s) /\ i - Len(s) \in 1..Least(Len(t), left)
      BY <1>1, <1>3, <1>2, <1>7, <2>1, <2>3 DEF Least
    <3>2. a[i] = t[i - Len(s)]
      BY <1>3, <1>6, <1>7, <2>1, <2>3, <3>1
    <3>3. (s \o t)[i] = t[i - Len(s)]
      BY <1>4, <2>1, <2>3, <3>1
    <3> QED BY <2>1, <3>2, <3>3
  <2> QED BY <2>2, <2>3
<1>9. a = b
  BY <1>5, <1>6, <1>7, <1>8, SeqEqual DEF Text
<1> QED BY <1>2, <1>9 DEF a, b, left

(* A text that has another in front is cut as it, if that is long enough. *)
LEMMA CutPrefix ==
  ASSUME NEW s \in Text, NEW t \in Text, NEW r \in Nat, r <= Len(s)
  PROVE  Cut(s \o t, r) = Cut(s, r)
<1>1. Len(s) \in Nat /\ Len(t) \in Nat /\ Len(s \o t) = Len(s) + Len(t) /\ s \o t \in Text
  BY TextsJoin
<1>2. Least(Len(s), r) = r /\ Least(Len(s \o t), r) = r
  BY <1>1 DEF Least
<1>3. /\ Cut(s, r) \in Text /\ Len(Cut(s, r)) = r /\ \A i \in 1..r : Cut(s, r)[i] = s[i]
      /\ Cut(s \o t, r) \in Text /\ Len(Cut(s \o t, r)) = r /\ \A i \in 1..r : Cut(s \o t, r)[i] = (s \o t)[i]
  BY <1>1, <1>2, CutIs
<1>4. \A i \in 1..r : (s \o t)[i] = s[i]
  BY <1>1, TextsJoin
<1> QED BY <1>3, <1>4, SeqEqual DEF Text

(* A byte repeated. *)
LEMMA RepeatIs ==
  ASSUME NEW x \in Byte, NEW k \in Nat
  PROVE  Repeat(x, k) \in Text /\ Len(Repeat(x, k)) = k /\ \A i \in 1..k : Repeat(x, k)[i] = x
  BY DEF Repeat, Text
-----------------------------------------------------------------------------
(* The digits of a number are a text: the recursion of digits() ends. *)
LEMMA DigitsAre ==
  ASSUME NEW i \in Nat
  PROVE  digits(i) \in Text
<1> DEFINE step(h, k) == IF k < 10 THEN <<k>> ELSE h[k \div 10] \o <<k % 10>>
           S == {m \in Nat : m <= i => \E h \in [0..i -> Text] : \A k \in 0..m : h[k] = step(h, k)}
           Eq(d) == d = [k \in 0..i |-> step(d, k)]
<1>1. ASSUME NEW k \in Nat PROVE /\ k < 10 => <<k>> \in Text
                                 /\ ~(k < 10) => k \div 10 \in 0..(k - 1)
                                 /\ <<k % 10>> \in Text
  <2>1. k % 10 \in 0..9
    OBVIOUS
  <2>2. ~(k < 10) => k \div 10 \in 0..(k - 1)
    BY SMT
  <2>3. k < 10 => k \in 0..9
    OBVIOUS
  <2>4. ASSUME NEW x \in 0..9 PROVE <<x>> \in Text
    <3>1. x \in Byte
      BY DEF Byte
    <3> QED BY <3>1 DEF Text
  <2> QED BY <2>1, <2>2, <2>3, <2>4
<1>2. 0 \in S
  <2>1. [k \in 0..i |-> <<0>>] \in [0..i -> Text]
    BY <1>1
  <2>2. \A k \in 0..0 : [j \in 0..i |-> <<0>>][k] = step([j \in 0..i |-> <<0>>], k)
    OBVIOUS
  <2> HIDE DEF step
  <2> QED BY <2>1, <2>2
<1>3. ASSUME NEW m \in Nat, m \in S PROVE m + 1 \in S
  <2> SUFFICES ASSUME m + 1 <= i
               PROVE  \E h \in [0..i -> Text] : \A k \in 0..(m + 1) : h[k] = step(h, k)
    BY DEF S
  <2>1. PICK h \in [0..i -> Text] : \A k \in 0..m : h[k] = step(h, k)
    BY <1>3
  <2> DEFINE y == step(h, m + 1)
             g == [h EXCEPT ![m + 1] = y]
  <2>2. y \in Text
    <3>1. m + 1 < 10 => <<m + 1>> \in Text
      BY <1>1
    <3>2. ~(m + 1 < 10) => h[(m + 1) \div 10] \in Text /\ <<(m + 1) % 10>> \in Text
      <4>1. ~(m + 1 < 10) => (m + 1) \div 10 \in 0..m
        BY <1>1
      <4> QED BY <1>1, <4>1
    <3> QED BY <3>1, <3>2, TextsJoin
  <2> HIDE DEF y
  <2>3. g \in [0..i -> Text] /\ g[m + 1] = y /\ \A k \in 0..m : g[k] = h[k]
    BY <2>2
  <2> HIDE DEF g
  <2>4. ASSUME NEW k \in 0..(m + 1) PROVE step(g, k) = step(h, k)
    <3>1. ~(k < 10) => k \div 10 \in 0..m
      BY <1>1
    <3> QED BY <2>3, <3>1
  <2>5. \A k \in 0..(m + 1) : k = m + 1 \/ k \in 0..m
    OBVIOUS
  <2>6. \A k \in 0..(m + 1) : g[k] = step(g, k)
    <3>1. step(g, m + 1) = y
      BY <2>4 DEF y
    <3> HIDE DEF step
    <3> QED BY <2>1, <2>3, <2>4, <2>5, <3>1
  <2> HIDE DEF step
  <2> QED BY <2>3, <2>6
<1>4. i \in S
  <2> HIDE DEF S
  <2> QED BY <1>2, <1>3, NatSetInduction
<1>5. PICK h \in [0..i -> Text] : \A k \in 0..i : h[k] = step(h, k)
  <2> HIDE DEF step
  <2> QED BY <1>4
<1>6. Eq(h)
  <2> HIDE DEF step
  <2> QED BY <1>5
<1> DEFINE d == CHOOSE e : Eq(e)
<1>7. Eq(d)
  <2> HIDE DEF Eq
  <2> QED BY <1>6
<1>8. digits(i) = d[i]
  BY DEF digits
<1> HIDE DEF d
<1>9. \A k \in 0..i : d[k] = step(d, k)
  <2> HIDE DEF step
  <2> QED BY <1>7
<1> DEFINE Q == {m \in Nat : \A k \in 0..m : k <= i => d[k] \in Text}
<1>10. 0 \in Q
  <2>1. 0 \in 0..i /\ d[0] = step(d, 0)
    <3> HIDE DEF step
    <3> QED BY <1>9
  <2>2. d[0] \in Text
    BY <1>1, <2>1
  <2>3. \A k \in 0..0 : k = 0
    OBVIOUS
  <2> QED BY <2>2, <2>3
<1>11. ASSUME NEW m \in Nat, m \in Q PROVE m + 1 \in Q
  <2> SUFFICES ASSUME m + 1 <= i PROVE d[m + 1] \in Text
    BY <1>11
  <2>1. m + 1 \in 0..i /\ d[m + 1] = step(d, m + 1)
    <3> HIDE DEF step
    <3> QED BY <1>9
  <2>2. CASE m + 1 < 10
    BY <1>1, <2>1, <2>2
  <2>3. CASE ~(m + 1 < 10)
    <3> DEFINE q == (m + 1) \div 10
    <3>1. q \in 0..m /\ <<(m + 1) % 10>> \in Text
      BY <1>1, <2>3
    <3> HIDE DEF q
    <3>2. d[q] \in Text
      BY <1>11, <3>1
    <3>3. d[m + 1] = d[q] \o <<(m + 1) % 10>>
      BY <2>1, <2>3 DEF q
    <3> QED BY <3>1, <3>2, <3>3, TextsJoin
  <2> QED BY <2>2, <2>3
<1>12. i \in Q
  <2> HIDE DEF Q
  <2> QED BY <1>10, <1>11, NatSetInduction
<1> QED BY <1>8, <1>12

(* A byte repeated, cut. *)
LEMMA CutRepeat ==
  ASSUME NEW x \in Byte, NEW k \in Nat, NEW r \in Nat
  PROVE  Cut(Repeat(x, k), r) = Repeat(x, Least(k, r))
<1> DEFINE s == Repeat(x, k)
           m == Least(k, r)
           t == Repeat(x, m)
<1>1. s \in Text /\ Len(s) = k /\ \A i \in 1..k : s[i] = x
  BY RepeatIs
<1>2. m \in Nat /\ m <= k
  BY DEF Least
<1>3. t \in Text /\ Len(t) = m /\ \A i \in 1..m : t[i] = x
  <2> HIDE DEF m
  <2> QED BY <1>2, RepeatIs
<1> HIDE DEF s, t
<1>4. Cut(s, r) \in Text /\ Len(Cut(s, r)) = m /\ \A i \in 1..m : Cut(s, r)[i] = s[i]
  BY <1>1, CutIs
<1> HIDE DEF m
<1>5. Cut(s, r) = t
  BY <1>1, <1>2, <1>3, <1>4, SeqEqual DEF Text
<1> QED BY <1>5 DEF s, t, m

(* The padded text of a hole. *)
LEMMA PaddedIs ==
  ASSUME NEW zero \in BOOLEAN, NEW t \in Text, NEW width \in Nat
  PROVE  LET pad == IF width > Len(t) THEN width - Len(t) ELSE 0
             x   == IF zero THEN 0 ELSE " "
         IN  /\ pad \in Nat /\ x \in Byte /\ Padded(zero, t, width) = Repeat(x, pad) \o t
             /\ Padded(zero, t, width) \in Text /\ Len(Padded(zero, t, width)) = pad + Len(t)
             /\ \A i \in 1..(pad + Len(t)) :
                  Padded(zero, t, width)[i] = IF i <= pad THEN x ELSE t[i - pad]
<1> DEFINE pad == IF width > Len(t) THEN width - Len(t) ELSE 0
           x   == IF zero THEN 0 ELSE " "
           s   == Repeat(x, pad)
<1>1. Len(t) \in Nat /\ pad \in Nat
  BY DEF Text
<1>2. x \in Byte
  BY DEF Byte
<1>3. Padded(zero, t, width) = s \o t
  BY DEF Padded
<1> HIDE DEF pad, x
<1>4. s \in Text /\ Len(s) = pad /\ \A i \in 1..pad : s[i] = x
  BY <1>1, <1>2, RepeatIs
<1> HIDE DEF s
<1>5. /\ s \o t \in Text /\ Len(s \o t) = pad + Len(t)
      /\ \A i \in 1..(pad + Len(t)) : (s \o t)[i] = IF i <= pad THEN s[i] ELSE t[i - pad]
  BY <1>4, TextsJoin
<1>6. \A i \in 1..(pad + Len(t)) : (s \o t)[i] = IF i <= pad THEN x ELSE t[i - pad]
  BY <1>1, <1>4, <1>5
<1> QED BY <1>1, <1>2, <1>3, <1>5, <1>6 DEF pad, x, s

(* What an item means is a text. *)
Shown(h) == IF h.precision >= 0 /\ h.precision < h.len THEN h.precision ELSE h.len

LEMMA MeaningIs ==
  ASSUME NEW h, IsItem(h), Plain(h)
  PROVE  /\ Meaning(h) \in Text
         /\ h.item = "char" => Meaning(h) = <<"c">>
         /\ h.item = "percent" => Meaning(h) = <<"%">>
         /\ h.item = "number" => /\ Meaning(h) = Padded(h.zero, digits(h.arg), h.width)
                                 /\ digits(h.arg) \in Text
         /\ h.item = "string" => /\ Meaning(h) = Padded(FALSE, Repeat("c", Shown(h)), h.width)
                                 /\ Shown(h) \in Nat
<1>1. CASE h.item = "char"
  <2>1. "c" \in Byte
    BY DEF Byte
  <2>2. <<"c">> \in Text
    BY <2>1 DEF Text
  <2> QED BY <1>1, <2>2 DEF Meaning
<1>2. CASE h.item = "percent"
  <2>1. "%" \in Byte
    BY DEF Byte
  <2>2. <<"%">> \in Text
    BY <2>1 DEF Text
  <2> QED BY <1>2, <2>2 DEF Meaning
<1>3. CASE h.item = "number"
  <2>1. h.arg \in 0..(WordSize - 1) /\ h.zero \in BOOLEAN /\ h.width \in Nat
    BY <1>3 DEF Plain, IsItem
  <2>2. h.arg \in Nat
    BY <2>1
  <2>3. digits(h.arg) \in Text
    BY <2>2, DigitsAre
  <2>4. Meaning(h) = Padded(h.zero, digits(h.arg), h.width)
    BY <1>3, <2>2 DEF Meaning
  <2> QED BY <1>3, <2>1, <2>3, <2>4, PaddedIs
<1>4. CASE h.item = "string"
  <2>1. h.width \in Nat /\ h.precision \in Int /\ h.len \in Nat
    BY <1>4 DEF IsItem
  <2>2. Shown(h) \in Nat
    BY <2>1 DEF Shown
  <2>3. "c" \in Byte
    BY DEF Byte
  <2>4. Repeat("c", Shown(h)) \in Text
    BY <2>2, <2>3, RepeatIs
  <2>5. Meaning(h) = Padded(FALSE, Repeat("c", Shown(h)), h.width)
    BY <1>4 DEF Meaning, Shown
  <2> QED BY <1>4, <2>1, <2>2, <2>4, <2>5, PaddedIs
<1> QED BY <1>1, <1>2, <1>3, <1>4 DEF IsItem

(* The meaning of the first items: the recursion of meaningTo() ends. *)
LEMMA MeaningToIs ==
  ASSUME NEW f, Len(f) \in Nat, \A k \in 1..Len(f) : Meaning(f[k]) \in Text
  PROVE  LET m == meaningTo(f)
         IN  /\ \A k \in 0..Len(f) : m[k] \in Text
             /\ m[0] = <<>> /\ \A k \in 1..Len(f) : m[k] = m[k - 1] \o Meaning(f[k])
<1> DEFINE len == Len(f)
           step(h, k) == IF k = 0 THEN <<>> ELSE h[k - 1] \o Meaning(f[k])
           Eq(h) == h = [k \in 0..len |-> step(h, k)]
           one == [p \in Text \X (1..len) |-> p[1] \o Meaning(f[p[2]])]
<1>1. len \in Nat
  OBVIOUS
<1>2. <<>> \in Text
  BY DEF Text
<1>3. one \in [Text \X (1..len) -> Text]
  BY TextsJoin
<1>4. \A t \in Text, k \in 1..len : one[<<t, k>>] = t \o Meaning(f[k])
  OBVIOUS
<1> HIDE DEF one
<1>5. PICK g : Unrolled(g, Text, <<>>, one, len)
  BY <1>1, <1>2, <1>3, Unrolls
<1>6. g \in [0..len -> Text] /\ g[0] = <<>> /\ \A k \in 1..len : g[k] = one[<<g[k - 1], k>>]
  BY <1>5 DEF Unrolled
<1>7. ASSUME NEW k \in 0..len PROVE g[k] = step(g, k)
  <2>1. CASE k = 0
    BY <1>6, <2>1
  <2>2. CASE k # 0
    <3>1. k - 1 \in 0..len /\ k \in 1..len
      BY <1>1, <2>2
    <3>2. g[k - 1] \in Text /\ g[k] = one[<<g[k - 1], k>>]
      BY <1>6, <3>1
    <3> QED BY <1>4, <2>2, <3>1, <3>2
  <2> QED BY <2>1, <2>2
<1>8. Eq(g)
  <2> HIDE DEF step
  <2>1. g = [k \in 0..len |-> g[k]]
    BY <1>6
  <2> QED BY <1>7, <2>1
<1> DEFINE m == CHOOSE h : Eq(h)
<1>9. Eq(m)
  <2> HIDE DEF Eq
  <2> QED BY <1>8
<1>10. meaningTo(f) = m
  BY DEF meaningTo
<1> HIDE DEF m
<1>11. \A k \in 0..len : m[k] = step(m, k)
  <2> HIDE DEF step
  <2> QED BY <1>9
<1>12. m[0] = <<>>
  BY <1>1, <1>11
<1>13. ASSUME NEW k \in 1..len PROVE m[k] = m[k - 1] \o Meaning(f[k])
  <2>1. k \in 0..len /\ k # 0
    BY <1>1
  <2>2. m[k] = step(m, k)
    <3> HIDE DEF step
    <3> QED BY <1>11, <2>1
  <2> QED BY <2>1, <2>2
<1> DEFINE S == {k \in Nat : k <= len => m[k] \in Text}
<1>14. 0 \in S
  BY <1>2, <1>12
<1>15. ASSUME NEW k \in Nat, k \in S PROVE k + 1 \in S
  <2> SUFFICES ASSUME k + 1 <= len PROVE m[k + 1] \in Text
    OBVIOUS
  <2>1. k + 1 \in 1..len /\ k + 1 - 1 = k /\ m[k] \in Text
    BY <1>1, <1>15
  <2>2. m[k + 1] = m[k] \o Meaning(f[k + 1]) /\ Meaning(f[k + 1]) \in Text
    <3> DEFINE n == k + 1
    <3>1. n \in 1..len /\ n - 1 = k
      BY <2>1
    <3> HIDE DEF n
    <3>2. m[n] = m[n - 1] \o Meaning(f[n]) /\ Meaning(f[n]) \in Text
      BY <1>13, <3>1
    <3> QED BY <3>1, <3>2 DEF n
  <2> QED BY <2>1, <2>2, TextsJoin
<1>16. \A k \in Nat : k \in S
  <2> HIDE DEF S
  <2> QED BY <1>14, <1>15, NatSetInduction
<1>17. \A k \in 0..len : m[k] \in Text
  BY <1>1, <1>16
<1> QED BY <1>10, <1>12, <1>13, <1>17

(* It only grows, and a cut that it is long enough for stays what it is. *)
LEMMA MeaningGrows ==
  ASSUME NEW f, Len(f) \in Nat, \A k \in 1..Len(f) : Meaning(f[k]) \in Text,
         NEW k \in 0..Len(f), NEW r \in Nat
  PROVE  LET m == meaningTo(f)
         IN  /\ Len(m[k]) <= Len(m[Len(f)])
             /\ r <= Len(m[k]) => Cut(m[Len(f)], r) = Cut(m[k], r)
<1> DEFINE m == meaningTo(f)
           len == Len(f)
<1>1. /\ \A j \in 0..len : m[j] \in Text
      /\ \A j \in 1..len : m[j] = m[j - 1] \o Meaning(f[j])
  BY MeaningToIs
<1>2. len \in Nat
  OBVIOUS
<1> HIDE DEF m, len
<1> DEFINE S == {j \in Nat : k + j <= len =>
                   /\ Len(m[k]) <= Len(m[k + j])
                   /\ r <= Len(m[k]) => Cut(m[k + j], r) = Cut(m[k], r)}
<1>3. k \in 0..len /\ m[k] \in Text /\ Len(m[k]) \in Nat
  BY <1>1, TextsJoin DEF len
<1>4. 0 \in S
  BY <1>3, k + 0 = k
<1>5. ASSUME NEW j \in Nat, j \in S PROVE j + 1 \in S
  <2> DEFINE a == m[k + j]
             b == Meaning(f[k + j + 1])
             c == m[k + (j + 1)]
  <2> SUFFICES ASSUME k + (j + 1) <= len
               PROVE  /\ Len(m[k]) <= Len(c)
                      /\ r <= Len(m[k]) => Cut(c, r) = Cut(m[k], r)
    BY DEF S
  <2>1. k + j + 1 \in 1..len /\ k + j \in 0..len /\ k + (j + 1) = k + j + 1 /\ k + j + 1 - 1 = k + j
    BY <1>2, <1>3
  <2>2. c = a \o b /\ a \in Text /\ b \in Text
    <3> DEFINE n == k + j + 1
    <3>1. n \in 1..len /\ n - 1 = k + j /\ k + (j + 1) = n /\ k + j \in 0..len
      BY <2>1
    <3> HIDE DEF n
    <3>2. m[n] = m[n - 1] \o Meaning(f[n]) /\ Meaning(f[n]) \in Text /\ m[k + j] \in Text
      BY <1>1, <3>1 DEF len
    <3> QED BY <3>1, <3>2 DEF n
  <2>3. Len(m[k]) <= Len(a) /\ (r <= Len(m[k]) => Cut(a, r) = Cut(m[k], r))
    BY <1>5, <2>1, <1>2
  <2> HIDE DEF a, b, c
  <2>4. Len(c) = Len(a) + Len(b) /\ Len(a) \in Nat /\ Len(b) \in Nat
    BY <2>2, TextsJoin
  <2>5. r <= Len(a) => Cut(c, r) = Cut(a, r)
    BY <2>2, CutPrefix
  <2> QED BY <1>3, <2>3, <2>4, <2>5
<1>6. len - k \in S
  <2>1. len - k \in Nat
    BY <1>2, <1>3
  <2> HIDE DEF S
  <2> QED BY <1>4, <1>5, <2>1, NatSetInduction
<1>7. k + (len - k) = len
  BY <1>2, <1>3
<1>8. Len(m[k]) <= Len(m[len]) /\ (r <= Len(m[k]) => Cut(m[len], r) = Cut(m[k], r))
  BY <1>2, <1>3, <1>6, <1>7
<1> QED BY <1>8 DEF m, len

-----------------------------------------------------------------------------
(* What was written is what the items before this one mean, cut where the
   buffer ends, and n is what is left of the buffer. *)
FmtInv ==
  /\ \E i \in Inputs : fmt = i.fmt /\ room = i.room /\ Printable(i)
  /\ pos \in 1..(Len(fmt) + 1) /\ done \in BOOLEAN
  /\ intBuf \in Text /\ Len(intBuf) = INTBUF_SIZE
  /\ out = Cut(meaningTo(fmt)[pos - 1], room) /\ nleft = room - Len(out)
  /\ done => pos = Len(fmt) + 1 \/ nleft = 0

(* What the invariant says of the format and of the place in it. *)
LEMMA FmtAt ==
  ASSUME FmtAssumption, useN = TRUE, FmtInv
  PROVE  /\ Len(fmt) \in Nat /\ room \in 1..SIZE_T_MAX /\ pos \in Nat /\ pos - 1 \in 0..Len(fmt)
         /\ SIZE_T_MAX \in Nat /\ INTBUF_SIZE \in Nat
         /\ \A k \in 1..Len(fmt) : IsItem(fmt[k]) /\ Plain(fmt[k]) /\ Meaning(fmt[k]) \in Text
         /\ meaningTo(fmt)[pos - 1] \in Text
         /\ out \in Text /\ nleft \in 0..room
         /\ Len(out) = Least(Len(meaningTo(fmt)[pos - 1]), room)
         /\ pos <= Len(fmt) => meaningTo(fmt)[pos] = meaningTo(fmt)[pos - 1] \o Meaning(fmt[pos])
<1> DEFINE m == meaningTo(fmt)
<1>1. PICK i \in Inputs : fmt = i.fmt /\ room = i.room /\ Printable(i)
  BY DEF FmtInv
<1>2. /\ Len(fmt) \in Nat /\ room \in 1..SIZE_T_MAX /\ SIZE_T_MAX \in Nat /\ INTBUF_SIZE \in Nat
      /\ \A k \in 1..Len(fmt) : IsItem(fmt[k])
  BY <1>1 DEF FmtAssumption
<1>3. \A k \in 1..Len(fmt) : Plain(fmt[k])
  BY <1>1 DEF Printable
<1>4. \A k \in 1..Len(fmt) : Meaning(fmt[k]) \in Text
  BY <1>2, <1>3, MeaningIs
<1>5. /\ \A k \in 0..Len(fmt) : m[k] \in Text
      /\ \A k \in 1..Len(fmt) : m[k] = m[k - 1] \o Meaning(fmt[k])
  BY <1>2, <1>4, MeaningToIs
<1>6. pos \in 1..(Len(fmt) + 1) /\ out = Cut(m[pos - 1], room) /\ nleft = room - Len(out)
  BY DEF FmtInv
<1> HIDE DEF m
<1>7. pos \in Nat /\ pos - 1 \in 0..Len(fmt) /\ (pos <= Len(fmt) => pos \in 1..Len(fmt))
  BY <1>2, <1>6
<1>8. m[pos - 1] \in Text
  BY <1>5, <1>7
<1>9. /\ out \in Text /\ Len(out) = Least(Len(m[pos - 1]), room) /\ Len(m[pos - 1]) \in Nat
  <2> DEFINE x == m[pos - 1]
  <2>1. x \in Text /\ room \in Nat /\ out = Cut(x, room)
    BY <1>2, <1>6, <1>8
  <2> HIDE DEF x
  <2>2. out \in Text /\ Len(out) = Least(Len(x), room) /\ Len(x) \in Nat
    BY <2>1, CutIs
  <2> QED BY <2>2 DEF x
<1>10. nleft \in 0..room
  BY <1>2, <1>6, <1>9 DEF Least
<1> QED BY <1>2, <1>3, <1>4, <1>5, <1>7, <1>8, <1>9, <1>10 DEF m

(* What the kernel prints fits, or the item is one that is cut short. *)
LEMMA ItemFits ==
  ASSUME FmtAssumption, useN = TRUE, FmtInv, pos <= Len(fmt), fmt[pos].item \in {"percent", "number"}
  PROVE  Len(Meaning(fmt[pos])) <= nleft
<1> DEFINE m == meaningTo(fmt)
           t == Meaning(fmt[pos])
<1>1. PICK i \in Inputs : fmt = i.fmt /\ room = i.room /\ Printable(i)
  BY DEF FmtInv
<1>2. /\ Len(fmt) \in Nat /\ room \in Nat /\ pos \in 1..Len(fmt)
      /\ \A k \in 1..Len(fmt) : Meaning(fmt[k]) \in Text
      /\ m[pos - 1] \in Text /\ Len(out) = Least(Len(m[pos - 1]), room) /\ m[pos] = m[pos - 1] \o t
      /\ t \in Text /\ nleft = room - Len(out)
  <2>1. /\ Len(fmt) \in Nat /\ room \in 1..SIZE_T_MAX /\ SIZE_T_MAX \in Nat /\ pos \in Nat /\ pos - 1 \in 0..Len(fmt)
    BY FmtAt
  <2>2. pos \in 1..Len(fmt) /\ room \in Nat
    BY <2>1
  <2> QED BY <2>1, <2>2, FmtAt DEF FmtInv
<1>3. ~ \A k \in 1..Len(fmt) : fmt[k].item \in {"char", "string"}
  BY <1>2
<1>4. Len(m[Len(fmt)]) <= room
  BY <1>1, <1>3 DEF Printable
<1>5. pos \in 0..Len(fmt)
  BY <1>2
<1>6. Len(m[pos]) <= Len(m[Len(fmt)])
  BY <1>2, <1>5, 0 \in Nat, MeaningGrows
<1> HIDE DEF m, t
<1>7. Len(m[pos]) = Len(m[pos - 1]) + Len(t) /\ Len(m[pos - 1]) \in Nat /\ Len(t) \in Nat
  BY <1>2, TextsJoin
<1>8. Len(m[pos]) <= room
  <2>1. \A a, b \in Text : Len(a) \in Nat
    BY TextsJoin
  <2>2. m[Len(fmt)] \in Text
    <3>1. \A k \in 0..Len(fmt) : m[k] \in Text
      BY <1>2, MeaningToIs DEF m
    <3>2. Len(fmt) \in 0..Len(fmt)
      BY <1>2
    <3> QED BY <3>1, <3>2
  <2> QED BY <1>2, <1>4, <1>6, <1>7, <2>1, <2>2
<1>9. Len(t) <= nleft
  BY <1>2, <1>7, <1>8 DEF Least
<1> QED BY <1>9 DEF t

(* An item that is written as it means, as far as the buffer goes. *)
LEMMA ItemPrinted ==
  ASSUME FmtAssumption, useN = TRUE, FmtInv, ~ done, pos <= Len(fmt),
         fmt' = fmt, room' = room, done' = done, pos' = pos + 1,
         out' = out \o Cut(Meaning(fmt[pos]), nleft),
         nleft' = nleft - Len(Cut(Meaning(fmt[pos]), nleft)),
         intBuf' \in Text, Len(intBuf') = INTBUF_SIZE
  PROVE  FmtInv'
<1> DEFINE m == meaningTo(fmt)
           s == m[pos - 1]
           t == Meaning(fmt[pos])
<1>1. /\ Len(fmt) \in Nat /\ room \in Nat /\ pos \in 1..Len(fmt) /\ s \in Text /\ t \in Text
      /\ m[pos] = s \o t /\ out = Cut(s, room) /\ nleft = room - Len(out) /\ out \in Text
  <2>1. /\ Len(fmt) \in Nat /\ room \in 1..SIZE_T_MAX /\ SIZE_T_MAX \in Nat /\ pos \in Nat /\ pos - 1 \in 0..Len(fmt)
    BY FmtAt
  <2>2. pos \in 1..Len(fmt) /\ room \in Nat
    BY <2>1
  <2> QED BY <2>1, <2>2, FmtAt DEF FmtInv
<1>2. \E i \in Inputs : fmt' = i.fmt /\ room' = i.room /\ Printable(i)
  BY DEF FmtInv
<1>3. meaningTo(fmt)' = m /\ pos' - 1 = pos /\ pos' \in 1..(Len(fmt) + 1)
  BY <1>1
<1> HIDE DEF m, s, t
<1>4. nleft \in Nat /\ out \o Cut(t, nleft) = Cut(s \o t, room)
  <2>1. LET left == room - Len(Cut(s, room))
        IN  left \in Nat /\ Cut(s, room) \o Cut(t, left) = Cut(s \o t, room)
    <3>1. s \in Text /\ t \in Text /\ room \in Nat
      BY <1>1
    <3> QED BY <3>1, CutJoins, Zenon
  <2>2. nleft = room - Len(Cut(s, room)) /\ out = Cut(s, room)
    BY <1>1 DEF s
  <2> QED BY <2>1, <2>2
<1>5. out' = Cut(m[pos], room)
  BY <1>1, <1>4 DEF t
<1>6. Cut(t, nleft) \in Text
  BY <1>1, <1>4, CutIs
<1>7. Len(out') = Len(out) + Len(Cut(t, nleft)) /\ Len(out) \in Nat /\ Len(Cut(t, nleft)) \in Nat
  BY <1>1, <1>6, TextsJoin DEF t
<1>8. nleft' = room' - Len(out')
  BY <1>1, <1>7 DEF t
<1>9. Len(fmt') = Len(fmt) /\ done' = FALSE
  BY DEF FmtInv
<1> QED BY <1>2, <1>3, <1>5, <1>8, <1>9 DEF FmtInv, m
-----------------------------------------------------------------------------
(* A character. *)
LEMMA CharPrinted ==
  ASSUME FmtAssumption, useN = TRUE, FmtInv, copyChar PROVE FmtInv'
<1>1. /\ ~ done /\ pos <= Len(fmt) /\ fmt[pos].item = "char" /\ nleft > 0
      /\ out' = Append(out, "c") /\ nleft' = nleft - 1 /\ pos' = pos + 1
      /\ fmt' = fmt /\ room' = room /\ intBuf' = intBuf /\ done' = done
  BY DEF copyChar, atItem
<1>2. pos \in 1..Len(fmt) /\ out \in Text /\ nleft \in Nat
  BY <1>1, FmtAt
<1>3. Meaning(fmt[pos]) = <<"c">> /\ <<"c">> \in Text
  BY <1>1, <1>2, FmtAt, MeaningIs
<1>4. Cut(<<"c">>, nleft) = <<"c">>
  <2>1. Len(<<"c">>) <= nleft
    BY <1>1, <1>2
  <2> QED BY <1>2, <1>3, <2>1, CutIs
<1>5. out' = out \o <<"c">>
  BY <1>1, <1>2 DEF Text
<1>6. intBuf' \in Text /\ Len(intBuf') = INTBUF_SIZE
  BY <1>1 DEF FmtInv
<1> QED BY <1>1, <1>3, <1>4, <1>5, <1>6, ItemPrinted, Len(<<"c">>) = 1

(* "%%". *)
LEMMA PercentPrinted ==
  ASSUME FmtAssumption, useN = TRUE, FmtInv, percent PROVE FmtInv'
<1>1. /\ ~ done /\ pos <= Len(fmt) /\ fmt[pos].item = "percent"
      /\ out' = Append(out, "%") /\ nleft' = less(1) /\ pos' = pos + 1
      /\ fmt' = fmt /\ room' = room /\ intBuf' = intBuf /\ done' = done
  BY DEF percent, atItem
<1>2. pos \in 1..Len(fmt) /\ out \in Text /\ nleft \in Nat
  BY <1>1, FmtAt
<1>3. Meaning(fmt[pos]) = <<"%">> /\ <<"%">> \in Text
  BY <1>1, <1>2, FmtAt, MeaningIs
<1>4. 1 <= nleft
  BY <1>1, <1>3, ItemFits, Len(<<"%">>) = 1
<1>5. Cut(<<"%">>, nleft) = <<"%">>
  BY <1>2, <1>3, <1>4, CutIs, Len(<<"%">>) = 1
<1>6. out' = out \o <<"%">> /\ nleft' = nleft - 1
  BY <1>1, <1>2, <1>4 DEF Text, less
<1>7. intBuf' \in Text /\ Len(intBuf') = INTBUF_SIZE
  BY <1>1 DEF FmtInv
<1> QED BY <1>1, <1>3, <1>5, <1>6, <1>7, ItemPrinted, Len(<<"%">>) = 1

(* The last places of the digits' buffer are the digits, after zeros if the
   hole asks for them. *)
LEMMA BufferIs ==
  ASSUME NEW b \in Text, NEW d \in Text, NEW size \in Nat, Len(b) = size, Len(d) <= size
  PROVE  LET buf == SubSeq(b, 1, size - Len(d)) \o d
         IN  /\ buf \in Text /\ Len(buf) = size
             /\ \A j \in 1..size : buf[j] = IF j <= size - Len(d) THEN b[j]
                                            ELSE d[j - (size - Len(d))]
<1> DEFINE k == size - Len(d)
           a == SubSeq(b, 1, k)
<1>1. Len(d) \in Nat /\ k \in 0..size
  BY TextsJoin
<1>2. a = Cut(b, k) /\ Least(Len(b), k) = k
  BY <1>1 DEF Cut, Least
<1> HIDE DEF a
<1>3. k \in Nat
  BY <1>1
<1> HIDE DEF k
<1>4. a \in Text /\ Len(a) = k /\ \A i \in 1..k : a[i] = b[i]
  BY <1>2, <1>3, CutIs
<1>5. /\ a \o d \in Text /\ Len(a \o d) = k + Len(d)
      /\ \A i \in 1..(k + Len(d)) : (a \o d)[i] = IF i <= k THEN a[i] ELSE d[i - k]
  BY <1>4, TextsJoin
<1>6. k + Len(d) = size
  BY <1>1 DEF k
<1>7. \A i \in 1..size : (a \o d)[i] = IF i <= k THEN b[i] ELSE d[i - k]
  BY <1>1, <1>4, <1>5, <1>6
<1> QED BY <1>5, <1>6, <1>7 DEF a, k

(* A number hole: its digits, after the zeros that fill the width. *)
LEMMA NumberPrinted ==
  ASSUME FmtAssumption, useN = TRUE, FmtInv, printNumber PROVE FmtInv'
<1> DEFINE h    == fmt[pos]
           d    == digits(h.arg)
           n    == Len(d)
           B    == IF h.zero THEN Repeat(0, INTBUF_SIZE) ELSE intBuf
           buf  == SubSeq(B, 1, INTBUF_SIZE - n) \o d
           w    == IF n < h.width THEN h.width ELSE n
           tail == SubSeq(buf, INTBUF_SIZE - w + 1, INTBUF_SIZE)
           t    == Meaning(h)
           pad  == IF h.width > n THEN h.width - n ELSE 0
<1>1. ~ done /\ pos <= Len(fmt) /\ h.item = "number"
  BY DEF printNumber, atItem
<1>2. pos \in 1..Len(fmt) /\ out \in Text /\ nleft \in Nat /\ INTBUF_SIZE \in Nat /\ IsItem(h) /\ Plain(h)
  BY <1>1, FmtAt
<1>3. h.arg \in 0..(WordSize - 1) /\ h.width \in Nat /\ h.width <= INTBUF_SIZE /\ h.zero \in BOOLEAN
  BY <1>1, <1>2 DEF IsItem, Plain
<1>4. d \in Text /\ t = Padded(h.zero, d, h.width)
  BY <1>1, <1>2, MeaningIs
<1>5. n \in Nat /\ n <= INTBUF_SIZE /\ (h.zero \/ h.width <= n)
  BY <1>1, <1>2, <1>3, <1>4, TextsJoin DEF FmtAssumption, Plain
<1>6. h.arg % WordSize = h.arg
  <2>1. \A m \in Nat \ {0} : \A x \in 0..(m - 1) : x % m = x
    OBVIOUS
  <2>2. WordSize \in Nat \ {0}
    BY DEF FmtAssumption
  <2> QED BY <1>3, <2>1, <2>2
<1>7. w \in 0..INTBUF_SIZE /\ pad \in Nat /\ w = pad + n
  BY <1>2, <1>3, <1>5
<1>8. /\ out' = out \o SubSeq(buf, INTBUF_SIZE - AtMost(w) + 1, INTBUF_SIZE)
      /\ nleft' = less(AtMost(w)) /\ intBuf' = buf /\ pos' = pos + 1
      /\ fmt' = fmt /\ room' = room /\ done' = done
  <2>1. h.arg % WordSize = h.arg
    BY <1>6
  <2> QED BY <2>1 DEF printNumber, uintToStr
<1>9. t \in Text /\ Len(t) = w
      /\ \A j \in 1..w : t[j] = IF j <= pad THEN (IF h.zero THEN 0 ELSE " ") ELSE d[j - pad]
  <2> HIDE DEF t, d, w, pad, h
  <2>1. LET p == IF h.width > Len(d) THEN h.width - Len(d) ELSE 0
            x == IF h.zero THEN 0 ELSE " "
        IN  /\ t \in Text /\ Len(t) = p + Len(d)
            /\ \A i \in 1..(p + Len(d)) : t[i] = IF i <= p THEN x ELSE d[i - p]
    BY <1>3, <1>4, PaddedIs
  <2>2. pad = IF h.width > Len(d) THEN h.width - Len(d) ELSE 0
    BY DEF pad
  <2> QED BY <1>7, <2>1, <2>2
<1>10. B \in Text /\ Len(B) = INTBUF_SIZE /\ (h.zero => \A j \in 1..INTBUF_SIZE : B[j] = 0)
  <2>1. 0 \in Byte
    BY DEF Byte
  <2> QED BY <1>2, <2>1, RepeatIs DEF FmtInv
<1>11. w <= nleft
  BY <1>1, <1>9, ItemFits
<1> HIDE DEF B, t, d, w, pad, h
<1>12. /\ buf \in Text /\ Len(buf) = INTBUF_SIZE
       /\ \A j \in 1..INTBUF_SIZE : buf[j] = IF j <= INTBUF_SIZE - n THEN B[j]
                                             ELSE d[j - (INTBUF_SIZE - n)]
  BY <1>2, <1>4, <1>5, <1>10, BufferIs
<1> HIDE DEF buf, n
<1>13. AtMost(w) = w /\ less(w) = nleft - w
  BY <1>2, <1>7, <1>11 DEF AtMost, less
<1>14. /\ tail \in Text /\ Len(tail) = w
       /\ \A j \in 1..w : tail[j] = buf[INTBUF_SIZE - w + j]
  <2> DEFINE a == INTBUF_SIZE - w + 1
  <2>1. a \in Int /\ INTBUF_SIZE \in Int /\ a \in 1..(INTBUF_SIZE + 1) /\ INTBUF_SIZE - a + 1 = w
    BY <1>2, <1>7
  <2> HIDE DEF a
  <2>2. \A i \in a..INTBUF_SIZE : buf[i] \in Byte
    <3>1. \A i \in a..INTBUF_SIZE : i \in 1..Len(buf)
      BY <1>2, <1>12, <2>1
    <3> QED BY <1>12, <3>1, ElementOfSeq DEF Text
  <2>3. /\ SubSeq(buf, a, INTBUF_SIZE) \in Seq(Byte)
        /\ Len(SubSeq(buf, a, INTBUF_SIZE)) = IF a <= INTBUF_SIZE THEN INTBUF_SIZE - a + 1 ELSE 0
        /\ \A i \in 1..(INTBUF_SIZE - a + 1) : SubSeq(buf, a, INTBUF_SIZE)[i] = buf[a + i - 1]
    BY <2>1, <2>2, SubSeqProperties
  <2>4. \A j \in 1..w : a + j - 1 = INTBUF_SIZE - w + j
    BY <1>2, <1>7 DEF a
  <2>5. Len(SubSeq(buf, a, INTBUF_SIZE)) = w
    BY <1>2, <1>7, <2>1, <2>3
  <2>6. \A j \in 1..w : SubSeq(buf, a, INTBUF_SIZE)[j] = buf[INTBUF_SIZE - w + j]
    BY <2>1, <2>3, <2>4
  <2> QED BY <2>3, <2>5, <2>6 DEF a, Text
<1> HIDE DEF tail
<1>15. ASSUME NEW j \in 1..w PROVE tail[j] = t[j]
  <2> DEFINE k == INTBUF_SIZE - w + j
  <2>1. k \in 1..INTBUF_SIZE /\ tail[j] = buf[k]
    BY <1>2, <1>7, <1>14
  <2>2. (k <= INTBUF_SIZE - n <=> j <= pad) /\ k - (INTBUF_SIZE - n) = j - pad
    BY <1>2, <1>5, <1>7
  <2> HIDE DEF k
  <2>3. CASE j <= pad
    <3>1. h.zero
      BY <1>3, <1>5, <1>7, <2>3 DEF pad
    <3>2. tail[j] = 0
      BY <1>10, <1>12, <2>1, <2>2, <2>3, <3>1
    <3> QED BY <1>9, <2>3, <3>1, <3>2
  <2>4. CASE ~(j <= pad)
    <3>1. tail[j] = d[k - (INTBUF_SIZE - n)]
      BY <1>12, <2>1, <2>2, <2>4
    <3> QED BY <1>9, <2>2, <2>4, <3>1
  <2> QED BY <2>3, <2>4
<1>16. tail = t
  BY <1>9, <1>14, <1>15, SeqEqual DEF Text
<1>17. Cut(t, nleft) = t
  BY <1>2, <1>9, <1>11, CutIs
<1>18. out' = out \o Cut(Meaning(fmt[pos]), nleft) /\ nleft' = nleft - Len(Cut(Meaning(fmt[pos]), nleft))
  <2>1. Meaning(fmt[pos]) = t
    BY DEF t, h
  <2>2. out' = out \o tail /\ nleft' = nleft - w
    BY <1>8, <1>13 DEF tail
  <2> QED BY <1>9, <1>16, <1>17, <2>1, <2>2
<1> QED BY <1>1, <1>8, <1>12, <1>18, ItemPrinted

(* A string, of which the blanks and the characters are cut one after the other. *)
LEMMA StringPrinted ==
  ASSUME FmtAssumption, useN = TRUE, FmtInv, printString PROVE FmtInv'
<1> DEFINE h     == fmt[pos]
           bytes == Shown(h)
           more  == IF h.width > bytes THEN h.width - bytes ELSE 0
           pad   == Least(more, nleft)
           left  == nleft - pad
           chars  == Least(bytes, left)
           a     == Repeat(" ", more)
           b     == Repeat("c", bytes)
           t     == Meaning(h)
<1>1. ~ done /\ pos <= Len(fmt) /\ h.item = "string"
  BY DEF printString, atItem
<1>2. pos \in 1..Len(fmt) /\ out \in Text /\ nleft \in Nat /\ IsItem(h) /\ Plain(h)
  BY <1>1, FmtAt
<1>3. h.width \in Nat /\ t = Padded(FALSE, b, h.width) /\ bytes \in Nat
  BY <1>1, <1>2, MeaningIs DEF IsItem
<1>4. " " \in Byte /\ "c" \in Byte
  BY DEF Byte
<1>5. more \in Nat
  BY <1>3
<1>6. a \in Text /\ b \in Text /\ Len(a) = more /\ Len(b) = bytes
  BY <1>3, <1>4, <1>5, RepeatIs
<1>7. t = a \o b
  BY <1>3, <1>6 DEF Padded
<1>8. pad \in 0..nleft /\ left \in Nat /\ chars \in 0..left
  BY <1>2, <1>3, <1>5 DEF Least
<1>9. /\ AtMost(more) = pad /\ chars = (IF useN /\ bytes > left THEN left ELSE bytes)
  BY <1>2, <1>3, <1>5, <1>8 DEF AtMost, Least
<1>10. /\ out' = out \o Repeat(" ", pad) \o Repeat("c", chars) /\ nleft' = left - chars
       /\ pos' = pos + 1 /\ fmt' = fmt /\ room' = room /\ done' = done /\ intBuf' = intBuf
  <2>1. /\ out' = out \o Repeat(" ", AtMost(more))
                      \o Repeat("c", IF useN /\ bytes > nleft - AtMost(more) THEN nleft - AtMost(more) ELSE bytes)
        /\ nleft' = (nleft - AtMost(more))
                      - (IF useN /\ bytes > nleft - AtMost(more) THEN nleft - AtMost(more) ELSE bytes)
    BY DEF printString, Shown
  <2>2. pos' = pos + 1 /\ fmt' = fmt /\ room' = room /\ done' = done /\ intBuf' = intBuf
    BY DEF printString
  <2> HIDE DEF pad, chars, more, bytes, h
  <2> QED BY <1>9, <2>1, <2>2
<1> HIDE DEF h, bytes, more, t
<1>11. Cut(a, nleft) = Repeat(" ", pad) /\ Cut(b, left) = Repeat("c", chars)
  <2> HIDE DEF left
  <2> QED BY <1>2, <1>3, <1>4, <1>5, <1>8, CutRepeat
<1>12. Repeat(" ", pad) \in Text /\ Len(Repeat(" ", pad)) = pad
       /\ Repeat("c", chars) \in Text /\ Len(Repeat("c", chars)) = chars
  <2> HIDE DEF pad, chars, left
  <2>1. pad \in Nat /\ chars \in Nat
    BY <1>8, <1>2
  <2> QED BY <1>4, <2>1, RepeatIs
<1> HIDE DEF a, b
<1>13. Cut(a \o b, nleft) = Repeat(" ", pad) \o Repeat("c", chars)
  <2>1. LET l == nleft - Len(Cut(a, nleft))
        IN  Cut(a, nleft) \o Cut(b, l) = Cut(a \o b, nleft)
    <3>1. a \in Text /\ b \in Text /\ nleft \in Nat
      BY <1>2, <1>6
    <3> QED BY <3>1, CutJoins, Zenon
  <2>2. nleft - Len(Cut(a, nleft)) = left
    BY <1>11, <1>12
  <2> QED BY <1>11, <2>1, <2>2
<1> DEFINE p == Repeat(" ", pad)
           q == Repeat("c", chars)
<1>14. p \in Text /\ q \in Text /\ Len(p) = pad /\ Len(q) = chars /\ Cut(t, nleft) = p \o q
  BY <1>7, <1>12, <1>13
<1>15. out' = (out \o p) \o q
  BY <1>10
<1> HIDE DEF p, q
<1>16. out' = out \o (p \o q)
  <2>1. out \in Seq(Byte) /\ p \in Seq(Byte) /\ q \in Seq(Byte)
    BY <1>2, <1>14 DEF Text
  <2>2. (out \o p) \o q = out \o (p \o q)
    BY <2>1, ConcatAssociative
  <2> QED BY <1>15, <2>2
<1>17. Len(p \o q) = pad + chars
  BY <1>14, TextsJoin
<1>18. nleft' = nleft - Len(Cut(t, nleft))
  <2>1. Len(Cut(t, nleft)) = pad + chars
    BY <1>14, <1>17
  <2>2. nleft' = left - chars /\ left = nleft - pad
    BY <1>10
  <2> HIDE DEF pad, chars, left
  <2>3. pad \in Int /\ chars \in Int /\ nleft \in Int
    BY <1>2, <1>8
  <2> QED BY <2>1, <2>2, <2>3
<1>19. intBuf' \in Text /\ Len(intBuf') = INTBUF_SIZE
  BY <1>10 DEF FmtInv
<1>20. Meaning(fmt[pos]) = t
  BY DEF t, h
<1> QED BY <1>1, <1>10, <1>14, <1>16, <1>18, <1>19, <1>20, ItemPrinted

(* The loop ends at the end of the format or of the buffer. *)
LEMMA Terminated ==
  ASSUME FmtAssumption, useN = TRUE, FmtInv, terminate PROVE FmtInv'
<1>1. /\ done' = TRUE /\ (pos <= Len(fmt) => nleft = 0)
      /\ fmt' = fmt /\ room' = room /\ pos' = pos /\ nleft' = nleft /\ out' = out /\ intBuf' = intBuf
  BY DEF terminate
<1>2. Len(fmt) \in Nat /\ pos \in 1..(Len(fmt) + 1)
  BY FmtAt DEF FmtInv
<1>3. pos = Len(fmt) + 1 \/ nleft = 0
  BY <1>1, <1>2
<1> QED BY <1>1, <1>3 DEF FmtInv

(* A step of nobody. *)
LEMMA FmtUnchanged ==
  ASSUME FmtInv, UNCHANGED fmtVars PROVE FmtInv'
  BY DEF FmtInv, fmtVars

(* Nothing is printed yet. *)
LEMMA FmtStarts ==
  ASSUME FmtAssumption, useN = TRUE, \A i \in Inputs : Printable(i), FmtInit PROVE FmtInv
<1> DEFINE m == meaningTo(fmt)
<1>1. PICK i \in Inputs : fmt = i.fmt /\ room = i.room
  BY DEF FmtInit
<1>2. /\ Len(fmt) \in Nat /\ room \in 1..SIZE_T_MAX /\ SIZE_T_MAX \in Nat /\ INTBUF_SIZE \in Nat
      /\ \A k \in 1..Len(fmt) : IsItem(fmt[k])
  BY <1>1 DEF FmtAssumption
<1>3. \A k \in 1..Len(fmt) : Meaning(fmt[k]) \in Text
  BY <1>1, <1>2, MeaningIs DEF Printable
<1>4. m[0] = <<>>
  BY <1>2, <1>3, MeaningToIs
<1>5. "nul" \in Byte /\ <<>> \in Text
  BY DEF Byte, Text
<1>6. intBuf \in Text /\ Len(intBuf) = INTBUF_SIZE
  BY <1>2, <1>5, RepeatIs DEF FmtInit
<1> HIDE DEF m
<1>7. out = <<>> /\ pos = 1 /\ nleft = room /\ done = FALSE
  BY DEF FmtInit
<1>8. Cut(<<>>, room) = <<>>
  <2>1. Len(<<>>) <= room /\ room \in Nat
    BY <1>2
  <2> QED BY <1>5, <2>1, CutIs
<1>9. nleft = room - Len(out) /\ pos - 1 = 0 /\ pos \in 1..(Len(fmt) + 1)
  BY <1>2, <1>7
<1> QED BY <1>1, <1>4, <1>6, <1>7, <1>8, <1>9 DEF FmtInv, m

(* At the end of the buffer the rest of the meaning is what is cut off. *)
LEMMA FmtShows ==
  ASSUME FmtAssumption, useN = TRUE, FmtInv PROVE PrintsAndFits
<1> DEFINE m == meaningTo(fmt)
           len == Len(fmt)
<1>1. /\ len \in Nat /\ room \in Nat /\ pos \in 1..(len + 1) /\ pos - 1 \in 0..len
      /\ m[pos - 1] \in Text /\ out \in Text /\ nleft \in 0..room /\ nleft \in 0..SIZE_T_MAX
      /\ Len(out) = Least(Len(m[pos - 1]), room)
      /\ out = Cut(m[pos - 1], room) /\ nleft = room - Len(out)
      /\ \A k \in 1..len : Meaning(fmt[k]) \in Text
      /\ done => pos = len + 1 \/ nleft = 0
  <2>1. room \in 1..SIZE_T_MAX /\ SIZE_T_MAX \in Nat /\ nleft \in 0..room
    BY FmtAt
  <2>2. room \in Nat /\ nleft \in 0..SIZE_T_MAX
    BY <2>1
  <2> QED BY <2>1, <2>2, FmtAt DEF FmtInv
<1>2. Len(m[pos - 1]) \in Nat
  BY <1>1, TextsJoin
<1>3. Len(out) <= room
  BY <1>1, <1>2 DEF Least
<1>4. ASSUME done PROVE out = Cut(m[len], room)
  <2>1. CASE pos = len + 1
    BY <1>1, <2>1
  <2>2. CASE nleft = 0
    <3>1. room <= Len(m[pos - 1])
      BY <1>1, <1>2, <2>2 DEF Least
    <3>2. Cut(m[len], room) = Cut(m[pos - 1], room)
      BY <1>1, <3>1, MeaningGrows
    <3> QED BY <1>1, <3>2
  <2> QED BY <1>1, <1>4, <2>1, <2>2
<1>5. PrintsFormat
  BY <1>4 DEF PrintsFormat, Formatted, Cut, Least
<1>6. FmtTypeOK
  BY <1>1 DEF FmtTypeOK, FmtInv
<1> QED BY <1>3, <1>5, <1>6 DEF PrintsAndFits, FitsWithoutNul

(* In a buffer of any size fmtSnprintf() prints what the format means, cut where
   the buffer ends, and writes no more than there is room for, whatever the
   items (fmtVsnprintfInternal, uintToStr). *)
THEOREM FormatsArePrinted ==
  ASSUME FmtAssumption, useN = TRUE, \A i \in Inputs : Printable(i)
  PROVE  FmtSpec => []PrintsAndFits
<1>1. FmtInit => FmtInv
  BY FmtStarts
<1>2. FmtInv /\ [FmtNext]_fmtVars => FmtInv'
  <2> SUFFICES ASSUME FmtInv, [FmtNext]_fmtVars PROVE FmtInv'
    OBVIOUS
  <2>1. CASE copyChar
    BY <2>1, CharPrinted
  <2>2. CASE percent
    BY <2>2, PercentPrinted
  <2>3. CASE printNumber
    BY <2>3, NumberPrinted
  <2>4. CASE printString
    BY <2>4, StringPrinted
  <2>5. CASE terminate
    BY <2>5, Terminated
  <2>6. CASE UNCHANGED fmtVars
    BY <2>6, FmtUnchanged
  <2> QED BY <2>1, <2>2, <2>3, <2>4, <2>5, <2>6 DEF FmtNext
<1>3. FmtInv => PrintsAndFits
  BY FmtShows
<1> QED BY <1>1, <1>2, <1>3, PTL DEF FmtSpec
=============================================================================
