--------------------------- MODULE FollowUpsProofs ---------------------------
(* Proofs about FollowUps and DueDates, for any mails and sentences, any    *)
(* number of syncs and any bounds: what is read and sent is listed with the *)
(* right day, what is late stays in sight, and where foreign keys are       *)
(* enforced the rows implement PromiseList. Whether everything is listed in *)
(* the end (PromisesGetListed) is TLC's to check.                           *)
EXTENDS FollowUps, FiniteSetTheorems, SequenceTheorems, TLAPS

----------------------------------------------------------------------------
(* The calendar.                                                           *)

\* The days of the calendar's four years.
Calendar == 0..1460

\* Every day has a month of its year.
LEMMA MonthFound ==
  ASSUME NEW t \in Calendar
  PROVE  /\ YearOf(t) \in Years /\ MonthOf(t) \in 1..12
         /\ FirstOfMonth(t) <= t /\ t < FirstOfMonth(t) + MonthLength(YearOf(t), MonthOf(t))
<1> DEFINE y == YearOf(t)
<1> DEFINE Here(m) == DayOf(y, m, 1) <= t /\ t < DayOf(y, m, 1) + MonthLength(y, m)
<1>1. t \in 0..1460
  BY DEF Calendar
<1>2. /\ y \in Years
      /\ DayOf(y, 1, 1) <= t /\ t < DayOf(y, 1, 1) + 365 + Leap(y)
  BY <1>1 DEF YearOf, Years, DayOf, Leap, DaysBefore
<1>3. \E m \in 1..12 : Here(m)
  <2> HIDE DEF y
  <2>1. DayOf(y, 1, 1) \in Int /\ Leap(y) \in {0, 1}
    BY <1>2 DEF DayOf, DaysBefore, Leap, Years
  <2>2. \A m \in 1..12 : DayOf(y, m, 1) = DayOf(y, 1, 1) + DaysBefore[m] + (IF m > 2 THEN Leap(y) ELSE 0)
    BY <1>2 DEF DayOf, Years, DaysBefore, Leap
  <2>3. CASE t < DayOf(y, 1, 1) + 31
    <3>1. Here(1)
      BY <1>1, <1>2, <2>1, <2>3 DEF MonthLength
    <3> QED BY <3>1
  <2>4. CASE DayOf(y, 1, 1) + 31 <= t /\ t < DayOf(y, 1, 1) + 59 + Leap(y)
    <3>1. Here(2)
      BY <1>1, <1>2, <2>1, <2>2, <2>4 DEF MonthLength, DaysBefore
    <3> QED BY <3>1
  <2>5. ASSUME NEW m \in 3..11,
               DayOf(y, 1, 1) + DaysBefore[m] + Leap(y) <= t,
               t < DayOf(y, 1, 1) + DaysBefore[m + 1] + Leap(y)
        PROVE  Here(m)
    BY <1>1, <1>2, <2>1, <2>2, <2>5 DEF MonthLength, DaysBefore
  <2>6. CASE DayOf(y, 1, 1) + 334 + Leap(y) <= t
    <3>1. Here(12)
      BY <1>1, <1>2, <2>1, <2>2, <2>6 DEF MonthLength, DaysBefore
    <3> QED BY <3>1
  <2> QED BY <1>1, <1>2, <2>1, <2>3, <2>4, <2>5, <2>6 DEF DaysBefore
<1>4. MonthOf(t) \in 1..12 /\ Here(MonthOf(t))
  BY <1>3 DEF MonthOf
<1> QED BY <1>2, <1>4 DEF FirstOfMonth

LEMMA DaysAreNumbers == Days = 0..1095
BY DEF Days, DayOf, DaysBefore, Leap

LEMMA DayOfType ==
  ASSUME NEW y \in Int, NEW m \in Int, NEW d \in Int, IsDate(y, m, d)
  PROVE  DayOf(y, m, d) \in Nat
<1>1. y \in Years /\ m \in 1..12 /\ d \in Nat \ {0}
  BY DEF IsDate, MonthLength, Leap, Years
<1> QED BY <1>1 DEF DayOf, Years, DaysBefore, Leap

LEMMA DueOfType ==
  ASSUME NEW t \in Days, NEW p \in Phrases
  PROVE  DueOf(p, t) \in Int
<1>1. t \in 0..1095
  BY DaysAreNumbers
<1>2. t \in Calendar
  BY <1>1 DEF Calendar
<1>3. \A w \in 0..6 : NextWeekday(t, w) \in Int
  BY <1>1 DEF NextWeekday, Weekday
<1>4. CASE p \in [kind : {"iso"}, y : Nat, m : Nat, d : Nat]
  BY <1>4, DayOfType DEF DueOf, NoDate
<1>5. CASE p \in [kind : {"dayMonth"}, d : Nat, m : 1..12]
  <2>1. YearOf(t) \in Years /\ YearOf(t) \in Int /\ YearOf(t) + 1 \in Int
    BY <1>1 DEF YearOf, Years
  <2>2. \A year \in Int : (IF IsDate(year, p.m, p.d) THEN DayOf(year, p.m, p.d) ELSE NoDate) \in Int
    BY <1>5, DayOfType DEF NoDate
  <2>3. DueOf(p, t) = DayMonthDue(p, t)
    BY <1>5 DEF DueOf
  <2> QED BY <2>1, <2>2, <2>3 DEF DayMonthDue
<1>6. CASE p \in [kind : {"relative"}, word : {"today", "tomorrow", "week", "nextWeek", "monthEnd", "afternoon"}]
  <2>1. MonthEnd(t) \in Int
    <3>1. FirstOfMonth(t) \in Int /\ FirstOfMonth(t) <= t /\ 0 <= FirstOfMonth(t)
      <4>1. YearOf(t) \in Years /\ MonthOf(t) \in 1..12 /\ FirstOfMonth(t) <= t
        BY <1>2, MonthFound
      <4> QED BY <4>1 DEF FirstOfMonth, DayOf, Years, DaysBefore, Leap
    <3> DEFINE n == FirstOfMonth(t) + 27 + 4
    <3>2. n \in Calendar
      BY <1>1, <3>1 DEF Calendar
    <3> HIDE DEF n
    <3>3. YearOf(n) \in Years /\ MonthOf(n) \in 1..12
      BY <3>2, MonthFound
    <3>4. FirstOfMonth(n) \in Int
      BY <3>3 DEF FirstOfMonth, DayOf, Years, DaysBefore, Leap
    <3> QED BY <3>4 DEF MonthEnd, n
  <2>2. RelativeDue(p.word, t) \in Int
    BY <1>1, <1>3, <1>6, <2>1 DEF RelativeDue, Friday, NoDate
  <2> QED BY <1>6, <2>2 DEF DueOf
<1>7. CASE p \in [kind : {"in"}, n : Nat, unit : {"day", "week", "hour"}]
  BY <1>1, <1>7, SMTT(30) DEF DueOf, InDue
<1>8. CASE p \in [kind : {"weekday"}, w : 0..6]
  BY <1>3, <1>8 DEF DueOf
<1> QED BY <1>4, <1>5, <1>6, <1>7, <1>8 DEF Phrases

\* Some pattern is tried first.
LEMMA FirstPattern ==
  ASSUME NEW S \in SUBSET Phrases, S # {}
  PROVE  \E p \in S : \A q \in S : Rank[p.kind] <= Rank[q.kind]
<1>1. \A p \in S : Rank[p.kind] \in 1..5
  BY DEF Phrases, Rank
<1> DEFINE rank(p) == Rank[p.kind]
<1>2. \A p \in S : rank(p) \in 1..5
  BY <1>1
<1> HIDE DEF rank
<1>3. \E p \in S : \A q \in S : rank(p) <= rank(q)
  <2>1. CASE \E p \in S : rank(p) = 1
    BY <1>2, <2>1
  <2>2. CASE (\A p \in S : rank(p) # 1) /\ \E p \in S : rank(p) = 2
    BY <1>2, <2>2
  <2>3. CASE (\A p \in S : rank(p) \notin {1, 2}) /\ \E p \in S : rank(p) = 3
    BY <1>2, <2>3
  <2>4. CASE (\A p \in S : rank(p) \notin {1, 2, 3}) /\ \E p \in S : rank(p) = 4
    BY <1>2, <2>4
  <2>5. CASE \A p \in S : rank(p) = 5
    BY <1>2, <2>5
  <2> QED BY <1>2, <2>1, <2>2, <2>3, <2>4, <2>5
<1> QED BY <1>3 DEF rank

\* A phrase is given a day, or none: parse_due always answers.
LEMMA ParseDueType ==
  ASSUME NEW t \in Days, NEW words \in SUBSET Phrases
  PROVE  ParseDue(words, t) \in Int
<1> DEFINE usable == {p \in words : p.kind \in {"iso", "dayMonth"} => DueOf(p, t) # NoDate}
<1> DEFINE first == CHOOSE p \in usable : \A q \in usable : Rank[p.kind] <= Rank[q.kind]
<1>1. CASE usable = {}
  BY <1>1 DEF ParseDue, NoDate
<1>2. CASE usable # {}
  <2>1. usable \in SUBSET Phrases
    OBVIOUS
  <2>2. \E p \in usable : \A q \in usable : Rank[p.kind] <= Rank[q.kind]
    BY <1>2, <2>1, FirstPattern
  <2>3. first \in Phrases
    BY <2>1, <2>2
  <2>4. ParseDue(words, t) = DueOf(first, t)
    BY <1>2 DEF ParseDue
  <2> HIDE DEF first
  <2> QED BY <2>3, <2>4, DueOfType
<1> QED BY <1>1, <1>2

----------------------------------------------------------------------------
(* The days the words name.                                                *)

\* Every date lies in its year, and the years follow one another.
LEMMA DatesInYears ==
  ASSUME NEW y \in Years, NEW m \in 1..12, NEW d \in Nat, IsDate(y, m, d)
  PROVE  /\ DayOf(y, m, d) \in Nat
         /\ DayOf(y, 1, 1) <= DayOf(y, m, d) /\ DayOf(y, m, d) < DayOf(y, 1, 1) + 365 + Leap(y)
         /\ \A z \in Years : z > y => DayOf(y, m, d) < DayOf(z, 1, 1)
<1>1. d \in 1..MonthLength(y, m)
  BY DEF IsDate
<1>2. y \in {2026, 2027, 2028, 2029} /\ Leap(y) = IF y = 2028 THEN 1 ELSE 0
  BY DEF Years, Leap
<1>3. /\ DayOf(y, 1, 1) = 365 * (y - 2026) + (IF y > 2028 THEN 1 ELSE 0)
      /\ DayOf(y, m, d) = DayOf(y, 1, 1) + DaysBefore[m] + (IF m > 2 THEN Leap(y) ELSE 0) + d - 1
  BY <1>1, <1>2 DEF DayOf, DaysBefore
<1>4. DaysBefore[m] \in Nat /\ DaysBefore[m] + (IF m > 2 THEN Leap(y) ELSE 0) + MonthLength(y, m) <= 365 + Leap(y)
  BY <1>2 DEF DaysBefore, MonthLength
<1>5. /\ DayOf(y, m, d) \in Nat
      /\ DayOf(y, 1, 1) <= DayOf(y, m, d) /\ DayOf(y, m, d) < DayOf(y, 1, 1) + 365 + Leap(y)
  <2>1. MonthLength(y, m) \in Nat /\ Leap(y) \in Nat /\ DayOf(y, 1, 1) \in Nat
    BY <1>2, <1>3 DEF MonthLength
  <2> QED BY <1>1, <1>3, <1>4, <2>1
<1>6. \A z \in Years : z > y => DayOf(y, 1, 1) + 365 + Leap(y) <= DayOf(z, 1, 1)
  BY <1>2, <1>3 DEF Years, DayOf, DaysBefore
<1>7. \A z \in Years : DayOf(z, 1, 1) \in Nat
  BY DEF Years, DayOf, DaysBefore
<1> QED BY <1>2, <1>5, <1>6, <1>7

\* The year of a day, and the one after it.
LEMMA YearOfDay ==
  ASSUME NEW t \in Days
  PROVE  /\ YearOf(t) \in Years /\ YearOf(t) + 1 \in Years /\ t \in Nat
         /\ DayOf(YearOf(t), 1, 1) <= t /\ t < DayOf(YearOf(t) + 1, 1, 1)
<1>1. t \in 0..1095
  BY DaysAreNumbers
<1> QED BY <1>1 DEF YearOf, Years, DayOf, DaysBefore, Leap

\* A day of a month is its first one from today on.
LEMMA RightDayOfMonth ==
  ASSUME NEW t \in Days, NEW m \in 1..12, NEW d \in Nat
  PROVE  RightDay(DayMonth(d, m), t, DayMonthDue(DayMonth(d, m), t))
<1> DEFINE p == DayMonth(d, m)
<1> DEFINE y == YearOf(t)
<1> DEFINE due == DayMonthDue(p, t)
<1>1. p.kind = "dayMonth" /\ p.m = m /\ p.d = d /\ p.kind # "weekday" /\ p # Relative("week")
  BY DEF DayMonth, Relative
<1>2. /\ y \in Years /\ y + 1 \in Years /\ t \in Nat
      /\ DayOf(y, 1, 1) <= t /\ t < DayOf(y + 1, 1, 1)
  BY YearOfDay
<1>3. \A e : Names(p, e) <=> \E z \in Years : IsDate(z, m, d) /\ e = DayOf(z, m, d)
  BY <1>1 DEF Names
<1>4. due = IF ~IsDate(y, m, d) THEN NoDate
            ELSE IF DayOf(y, m, d) >= t THEN DayOf(y, m, d)
            ELSE IF IsDate(y + 1, m, d) THEN DayOf(y + 1, m, d) ELSE NoDate
  <2>1. IsDate(y, m, d) => DayOf(y, m, d) # NoDate
    BY <1>2, DatesInYears DEF NoDate
  <2> QED BY <1>1, <1>2, <2>1 DEF DayMonthDue
<1>5. RightDay(p, t, due) <=> IF due = NoDate THEN \E z \in {y, y + 1} : ~IsDate(z, m, d)
                              ELSE Names(p, due) /\ due >= t /\ \A e \in t..(due - 1) : ~Names(p, e)
  BY <1>1 DEF RightDay
<1> HIDE DEF p, y, due
<1>6. ASSUME NEW z \in Years, IsDate(z, m, d)
      PROVE  /\ DayOf(z, m, d) \in Nat /\ DayOf(z, m, d) # NoDate
             /\ z < y => DayOf(z, m, d) < t
             /\ z > y => t < DayOf(z, m, d)
             /\ \A u \in Years : IsDate(u, m, d) /\ z < u => DayOf(z, m, d) < DayOf(u, m, d)
  <2>1. /\ DayOf(z, m, d) \in Nat /\ DayOf(z, 1, 1) <= DayOf(z, m, d) /\ DayOf(z, 1, 1) \in Nat
        /\ \A u \in Years : u > z => DayOf(z, m, d) < DayOf(u, 1, 1)
    BY <1>6, DatesInYears DEF Years, DayOf, DaysBefore
  <2>2. \A u \in Years : IsDate(u, m, d) => DayOf(u, 1, 1) <= DayOf(u, m, d) /\ DayOf(u, m, d) \in Nat
    BY DatesInYears
  <2>3. /\ \A u \in Years : DayOf(u, 1, 1) \in Nat /\ \A v \in Years : u < v => DayOf(u, 1, 1) < DayOf(v, 1, 1)
    BY DEF Years, DayOf, DaysBefore
  <2>4. z < y => DayOf(z, m, d) < t
    BY <1>2, <2>1, <2>3
  <2>5. z > y => t < DayOf(z, m, d)
    <3>1. z > y => z = y + 1 \/ z > y + 1
      BY <1>2 DEF Years
    <3>2. z > y => DayOf(y + 1, 1, 1) <= DayOf(z, 1, 1)
      BY <1>2, <2>3, <3>1
    <3> QED BY <1>2, <2>1, <2>3, <3>2
  <2>6. ASSUME NEW u \in Years, IsDate(u, m, d), z < u
        PROVE  DayOf(z, m, d) < DayOf(u, m, d)
    BY <2>1, <2>2, <2>3, <2>6
  <2> QED BY <2>1, <2>4, <2>5, <2>6 DEF NoDate
<1>7. CASE ~IsDate(y, m, d) \/ (DayOf(y, m, d) < t /\ ~IsDate(y + 1, m, d))
  <2>1. due = NoDate
    BY <1>2, <1>4, <1>6, <1>7
  <2> QED BY <1>5, <1>7, <2>1 DEF due, p
<1>8. ASSUME NEW x \in {y, y + 1}, IsDate(x, m, d), due = DayOf(x, m, d), due >= t,
             \A z \in Years : IsDate(z, m, d) /\ z < x => DayOf(z, m, d) < t
      PROVE  RightDay(p, t, due)
  <2>1. x \in Years /\ due # NoDate /\ Names(p, due)
    BY <1>2, <1>3, <1>6, <1>8
  <2>2. \A e \in t..(due - 1) : ~Names(p, e)
    <3> SUFFICES ASSUME NEW z \in Years, IsDate(z, m, d), DayOf(z, m, d) >= t, DayOf(z, m, d) < due
                 PROVE  FALSE
      BY <1>2, <1>3, <1>6, <1>8, <2>1
    <3>1. DayOf(z, m, d) \in Nat /\ ~(z < x) /\ z # x
      BY <1>2, <1>6, <1>8, <2>1
    <3>2. x < z
      BY <2>1, <3>1 DEF Years
    <3> QED BY <1>6, <1>8, <2>1, <3>1, <3>2
  <2> QED BY <1>5, <1>8, <2>1, <2>2
<1>9. CASE IsDate(y, m, d) /\ DayOf(y, m, d) >= t
  <2>1. due = DayOf(y, m, d)
    BY <1>4, <1>9
  <2>2. RightDay(p, t, due)
    BY <1>6, <1>8, <1>9, <2>1
  <2> QED BY <2>2 DEF due, p
<1>10. CASE IsDate(y, m, d) /\ DayOf(y, m, d) < t /\ IsDate(y + 1, m, d)
  <2>1. due = DayOf(y + 1, m, d) /\ due >= t
    <3>1. DayOf(y + 1, m, d) \in Nat /\ t < DayOf(y + 1, m, d) /\ DayOf(y, m, d) \in Nat
      BY <1>2, <1>6, <1>10 DEF Years
    <3> QED BY <1>2, <1>4, <1>10, <3>1
  <2>2. \A z \in Years : IsDate(z, m, d) /\ z < y + 1 => DayOf(z, m, d) < t
    <3>1. \A z \in Years : z < y + 1 => z = y \/ z < y
      BY <1>2 DEF Years
    <3> QED BY <1>6, <1>10, <3>1
  <2>3. RightDay(p, t, due)
    BY <1>8, <1>10, <2>1, <2>2
  <2> QED BY <2>3 DEF due, p
<1>11. IsDate(y, m, d) => DayOf(y, m, d) \in Nat
  BY <1>2, <1>6
<1> QED BY <1>2, <1>7, <1>9, <1>10, <1>11

\* A weekday is the first one from tomorrow on.
LEMMA RightWeekday ==
  ASSUME NEW t \in Days, NEW w \in 0..6
  PROVE  /\ NextWeekday(t, w) \in (t + 1)..(t + 7) /\ Weekday(NextWeekday(t, w)) = w
         /\ \A e \in (t + 1)..(NextWeekday(t, w) - 1) : Weekday(e) # w
<1>1. t \in 0..1095
  BY DaysAreNumbers
<1>2. PICK r \in 0..6 : r = Weekday(t)
  BY <1>1 DEF Weekday
<1>3. \A i \in 0..7 : Weekday(t + i) = (r + i) % 7
  <2>1. PICK q \in Nat : t + 3 = 7 * q + r
    BY <1>1, <1>2 DEF Weekday
  <2>2. \A i \in 0..7 : t + i + 3 = 7 * q + (r + i) /\ r + i \in Nat
    BY <1>1, <2>1
  <2>3. \A j \in Nat : (7 * q + j) % 7 = j % 7
    BY <2>1
  <2> QED BY <2>2, <2>3 DEF Weekday
<1>4. PICK a \in 1..7 : NextWeekday(t, w) = t + a /\ a = IF (w - r) % 7 = 0 THEN 7 ELSE (w - r) % 7
  BY <1>1, <1>2 DEF NextWeekday
<1>5. (r + a) % 7 = w /\ \A i \in 1..(a - 1) : (r + i) % 7 # w
  <2>1. a = IF w > r THEN w - r ELSE w - r + 7
    BY <1>4
  <2>2. \A j \in 0..13 : j % 7 = IF j < 7 THEN j ELSE j - 7
    OBVIOUS
  <2>3. r + a \in 0..13 /\ \A i \in 1..(a - 1) : r + i \in 0..13 /\ r + i # w /\ r + i - 7 # w
    BY <2>1
  <2> QED BY <2>1, <2>2, <2>3
<1>6. \A e \in (t + 1)..(t + a - 1) : e - t \in 1..(a - 1) /\ e - t \in 0..7 /\ t + (e - t) = e
  BY <1>1
<1> QED BY <1>1, <1>3, <1>4, <1>5, <1>6

\* The months of a year follow one another.
LEMMA MonthsFollow ==
  ASSUME NEW y \in Years, NEW a \in 1..12
  PROVE  /\ DayOf(y, a, 1) \in Nat /\ MonthLength(y, a) \in 28..31 /\ IsDate(y, a, 1)
         /\ a < 12 => DayOf(y, a + 1, 1) = DayOf(y, a, 1) + MonthLength(y, a)
         /\ a = 12 /\ y + 1 \in Years => DayOf(y + 1, 1, 1) = DayOf(y, a, 1) + MonthLength(y, a)
         /\ \A b \in 1..12 : a < b => DayOf(y, a, 1) + MonthLength(y, a) <= DayOf(y, b, 1)
<1>1. y \in {2026, 2027, 2028, 2029} /\ Leap(y) = IF y = 2028 THEN 1 ELSE 0
  BY DEF Years, Leap
<1>2. MonthLength(y, a) \in 28..31
  BY <1>1 DEF MonthLength
<1>3. IsDate(y, a, 1) /\ DayOf(y, a, 1) \in Nat
  BY <1>1, <1>2 DEF IsDate, Years, DayOf, DaysBefore
<1>4. a < 12 => DayOf(y, a + 1, 1) = DayOf(y, a, 1) + MonthLength(y, a)
  BY <1>1 DEF DayOf, DaysBefore, MonthLength
<1>5. a = 12 /\ y + 1 \in Years => DayOf(y + 1, 1, 1) = DayOf(y, a, 1) + MonthLength(y, a)
  BY <1>1 DEF DayOf, DaysBefore, MonthLength, Years
<1>6. \A b \in 1..12 : a < b => DaysBefore[a + 1] <= DaysBefore[b]
  BY DEF DaysBefore
<1>7. \A b \in 1..12 : a < b => DayOf(y, a + 1, 1) <= DayOf(y, b, 1)
  <2>1. ASSUME NEW b \in 1..12, a < b
        PROVE  DayOf(y, a + 1, 1) <= DayOf(y, b, 1)
    <3>1. DaysBefore[a + 1] \in Nat /\ DaysBefore[b] \in Nat /\ DaysBefore[a + 1] <= DaysBefore[b]
      BY <1>6, <2>1 DEF DaysBefore
    <3>2. (a + 1 > 2 => b > 2) /\ Leap(y) \in Nat
      BY <1>1, <2>1
    <3> QED BY <1>1, <3>1, <3>2 DEF DayOf
  <2> QED BY <2>1
<1> QED BY <1>2, <1>3, <1>4, <1>5, <1>7

LEMMA MonthIs ==
  ASSUME NEW e \in Calendar, NEW y \in Years, NEW m \in 1..12,
         DayOf(y, m, 1) <= e, e < DayOf(y, m, 1) + MonthLength(y, m)
  PROVE  YearOf(e) = y /\ MonthOf(e) = m /\ FirstOfMonth(e) = DayOf(y, m, 1)
<1>1. e \in Nat /\ e \in 0..1460
  BY DEF Calendar
<1>2. DayOf(y, 1, 1) <= e /\ e < DayOf(y, 1, 1) + 365 + Leap(y)
  <2>1. MonthLength(y, m) \in Nat \ {0} /\ IsDate(y, m, MonthLength(y, m))
    BY MonthsFollow DEF IsDate
  <2>2. /\ DayOf(y, m, MonthLength(y, m)) = DayOf(y, m, 1) + MonthLength(y, m) - 1
        /\ DayOf(y, m, 1) \in Nat /\ DayOf(y, 1, 1) \in Nat
    <3>1. DayOf(y, m, 1) \in Nat /\ DayOf(y, 1, 1) \in Nat
      BY MonthsFollow
    <3>2. DaysBefore[m] \in Nat /\ Leap(y) \in Nat /\ y \in Nat
      BY DEF DaysBefore, Leap, Years
    <3> QED BY <2>1, <3>1, <3>2 DEF DayOf
  <2>3. DayOf(y, m, MonthLength(y, m)) < DayOf(y, 1, 1) + 365 + Leap(y)
    BY <2>1, DatesInYears
  <2>4. DayOf(y, 1, 1) <= DayOf(y, m, 1)
    BY MonthsFollow, DatesInYears
  <2>5. Leap(y) \in Nat
    BY DEF Leap
  <2> QED BY <1>1, <2>1, <2>2, <2>3, <2>4, <2>5
<1>3. YearOf(e) = y
  BY <1>1, <1>2 DEF YearOf, Years, DayOf, DaysBefore, Leap
<1>4. /\ MonthOf(e) \in 1..12
      /\ DayOf(y, MonthOf(e), 1) <= e /\ e < DayOf(y, MonthOf(e), 1) + MonthLength(y, MonthOf(e))
  BY <1>3, MonthFound DEF FirstOfMonth
<1>5. MonthOf(e) = m
  <2> DEFINE n == MonthOf(e)
  <2>1. n \in 1..12 /\ DayOf(y, n, 1) <= e /\ e < DayOf(y, n, 1) + MonthLength(y, n)
    BY <1>4
  <2> HIDE DEF n
  <2>2. /\ n < m => DayOf(y, n, 1) + MonthLength(y, n) <= DayOf(y, m, 1)
        /\ m < n => DayOf(y, m, 1) + MonthLength(y, m) <= DayOf(y, n, 1)
        /\ DayOf(y, m, 1) \in Nat /\ DayOf(y, n, 1) \in Nat /\ MonthLength(y, m) \in Nat /\ MonthLength(y, n) \in Nat
    BY <2>1, MonthsFollow
  <2>3. ~(n < m) /\ ~(m < n)
    BY <1>1, <2>1, <2>2
  <2>4. n = m
    BY <2>1, <2>3
  <2> QED BY <2>4 DEF n
<1> QED BY <1>3, <1>5 DEF FirstOfMonth

\* The end of the month is the last day of today's.
LEMMA RightMonthEnd ==
  ASSUME NEW t \in Days
  PROVE  /\ MonthEnd(t) \in Nat /\ MonthEnd(t) >= t /\ MonthOf(MonthEnd(t) + 1) # MonthOf(MonthEnd(t))
         /\ \A e \in t..(MonthEnd(t) - 1) : MonthOf(e + 1) = MonthOf(e)
<1>1. t \in 0..1095 /\ t \in Calendar
  BY DaysAreNumbers DEF Calendar
<1>2. PICK y \in Years, m \in 1..12 : y = YearOf(t) /\ m = MonthOf(t) /\ y + 1 \in Years
  BY <1>1, MonthFound, YearOfDay
<1>3. PICK F \in Nat, L \in 28..31 :
        /\ F = FirstOfMonth(t) /\ F = DayOf(y, m, 1) /\ L = MonthLength(y, m) /\ F <= t /\ t < F + L
  <2>1. DayOf(y, m, 1) \in Nat /\ MonthLength(y, m) \in 28..31
    BY MonthsFollow
  <2>2. FirstOfMonth(t) = DayOf(y, m, 1) /\ FirstOfMonth(t) <= t /\ t < FirstOfMonth(t) + MonthLength(y, m)
    BY <1>1, <1>2, MonthFound DEF FirstOfMonth
  <2> QED BY <2>1, <2>2
<1>4. \E z \in Years, n \in 1..12 : n # m /\ DayOf(z, n, 1) = F + L /\ MonthLength(z, n) \in 28..31
  <2>1. CASE m < 12
    <3>1. m + 1 \in 1..12 /\ DayOf(y, m + 1, 1) = F + L /\ MonthLength(y, m + 1) \in 28..31 /\ m + 1 # m
      BY <1>3, <2>1, MonthsFollow
    <3> QED BY <3>1
  <2>2. CASE m = 12
    <3>1. 1 \in 1..12 /\ 1 # m /\ DayOf(y + 1, 1, 1) = F + L /\ MonthLength(y + 1, 1) \in 28..31
      BY <1>2, <1>3, <2>2, MonthsFollow
    <3> QED BY <1>2, <3>1
  <2> QED BY <2>1, <2>2
<1>5. PICK z \in Years, n \in 1..12 : n # m /\ DayOf(z, n, 1) = F + L /\ MonthLength(z, n) \in 28..31
  BY <1>4
<1>6. F <= 1095 /\ L <= 31 /\ 28 <= L
  <2>1. t \in 0..1095 /\ F <= t
    BY <1>1, <1>3
  <2> QED BY <2>1
<1>7. FirstOfMonth(F + 27 + 4) = F + L
  <2>1. F + 27 + 4 \in 0..1460 /\ F + L <= F + 27 + 4 /\ F + 27 + 4 < F + L + 28
    BY <1>6
  <2>2. F + 27 + 4 \in Calendar /\ DayOf(z, n, 1) <= F + 27 + 4 /\ F + 27 + 4 < DayOf(z, n, 1) + MonthLength(z, n)
    BY <1>3, <1>5, <2>1 DEF Calendar
  <2>3. FirstOfMonth(F + 27 + 4) = DayOf(z, n, 1)
    BY <2>2, MonthIs
  <2> QED BY <1>5, <2>3
<1>8. MonthEnd(t) = F + L - 1
  BY <1>3, <1>7 DEF MonthEnd
<1>9. MonthOf(F + L) = n
  <2>1. F + L \in 0..1460
    BY <1>6
  <2>2. F + L \in Calendar /\ DayOf(z, n, 1) <= F + L /\ F + L < DayOf(z, n, 1) + MonthLength(z, n)
    BY <1>3, <1>5, <2>1 DEF Calendar
  <2> QED BY <2>2, MonthIs
<1>10. \A e \in F..(F + L - 1) : MonthOf(e) = m
  <2>1. ASSUME NEW e \in F..(F + L - 1)
        PROVE  MonthOf(e) = m
    <3>1. e \in Calendar /\ DayOf(y, m, 1) <= e /\ e < DayOf(y, m, 1) + MonthLength(y, m)
      BY <1>1, <1>3 DEF Calendar
    <3> QED BY <3>1, MonthIs
  <2> QED BY <2>1
<1>11. /\ F + L - 1 \in Nat /\ F + L - 1 >= t /\ F + L - 1 + 1 = F + L /\ F + L - 1 \in F..(F + L - 1)
       /\ \A e \in t..(F + L - 1 - 1) : e \in F..(F + L - 1) /\ e + 1 \in F..(F + L - 1)
  BY <1>1, <1>3
<1> QED BY <1>5, <1>8, <1>9, <1>10, <1>11

\* Words with one date phrase name its day.
LEMMA OnePhrase ==
  ASSUME NEW t, NEW p, p.kind \in {"iso", "dayMonth", "relative", "in", "weekday"}
  PROVE  ParseDue({p}, t) = DueOf(p, t)
<1> DEFINE usable == {q \in {p} : q.kind \in {"iso", "dayMonth"} => DueOf(q, t) # NoDate}
<1>1. CASE usable = {}
  <2>1. DueOf(p, t) = NoDate
    BY <1>1
  <2> QED BY <1>1, <2>1 DEF ParseDue
<1>2. CASE usable # {}
  <2>1. usable = {p} /\ Rank[p.kind] <= Rank[p.kind]
    BY <1>2 DEF Rank
  <2>2. (CHOOSE q \in usable : \A r \in usable : Rank[q.kind] <= Rank[r.kind]) = p
    BY <2>1
  <2> QED BY <1>2, <2>2 DEF ParseDue
<1> QED BY <1>1, <1>2

\* Whatever the day, a date phrase is given the first day it names.
LEMMA DueIsRight ==
  ASSUME NEW t \in Days, NEW p \in Dates
  PROVE  RightDay(p, t, ParseDue({p}, t))
<1>1. t \in 0..1095
  BY DaysAreNumbers
<1>2. CASE \E d \in {1, 28, 29, 30, 31}, m \in {1, 2, 3, 11, 12} : p = DayMonth(d, m)
  <2>1. PICK d \in {1, 28, 29, 30, 31}, m \in {1, 2, 3, 11, 12} : p = DayMonth(d, m)
    BY <1>2
  <2>2. d \in Nat /\ m \in 1..12
    OBVIOUS
  <2>3. RightDay(p, t, DayMonthDue(p, t))
    BY <2>1, <2>2, RightDayOfMonth
  <2>4. p.kind = "dayMonth"
    BY <2>1 DEF DayMonth
  <2>5. DueOf(p, t) = DayMonthDue(p, t)
    BY <2>4 DEF DueOf
  <2>6. ParseDue({p}, t) = DueOf(p, t)
    BY <2>4, OnePhrase
  <2> QED BY <2>3, <2>5, <2>6
<1>3. CASE \E w \in 0..6 : p = OnWeekday(w)
  <2>1. PICK w \in 0..6 : p = OnWeekday(w)
    BY <1>3
  <2>2. p.kind = "weekday" /\ p.w = w /\ p # Relative("week")
    BY <2>1 DEF OnWeekday, Relative
  <2>3. DueOf(p, t) = NextWeekday(t, w)
    BY <2>2 DEF DueOf
  <2>4. ParseDue({p}, t) = DueOf(p, t)
    BY <2>2, OnePhrase
  <2>5. PICK due \in (t + 1)..(t + 7) :
          due = NextWeekday(t, w) /\ Weekday(due) = w /\ \A e \in (t + 1)..(due - 1) : Weekday(e) # w
    BY RightWeekday
  <2>6. due # NoDate /\ due >= t + 1
    BY <1>1 DEF NoDate
  <2>7. \A e : Names(p, e) <=> Weekday(e) = w
    BY <2>2 DEF Names
  <2>8. RightDay(p, t, due)
    BY <2>2, <2>5, <2>6, <2>7 DEF RightDay
  <2> QED BY <2>3, <2>4, <2>5, <2>8
<1>4. CASE p = Relative("week")
  <2>1. p.kind = "relative" /\ p.word = "week"
    BY <1>4 DEF Relative
  <2>2. ParseDue({p}, t) = NextWeekday(t, Friday)
    BY <2>1, OnePhrase DEF DueOf, RelativeDue
  <2>3. PICK due \in (t + 1)..(t + 7) :
          /\ due = NextWeekday(t, Friday) /\ Weekday(due) = Friday
          /\ \A e \in (t + 1)..(due - 1) : Weekday(e) # Friday
    BY RightWeekday DEF Friday
  <2>4. due # NoDate /\ due >= t + 1
    BY <1>1 DEF NoDate
  <2>5. RightDay(p, t, due)
    BY <1>4, <2>1, <2>3, <2>4 DEF RightDay, Names
  <2> QED BY <2>2, <2>3, <2>5
<1>5. CASE p = Relative("monthEnd")
  <2>1. p.kind = "relative" /\ p.word = "monthEnd" /\ p # Relative("week")
    BY <1>5 DEF Relative
  <2>2. ParseDue({p}, t) = MonthEnd(t)
    BY <2>1, OnePhrase DEF DueOf, RelativeDue
  <2>3. PICK due \in Nat : /\ due = MonthEnd(t) /\ due >= t /\ MonthOf(due + 1) # MonthOf(due)
                           /\ \A e \in t..(due - 1) : MonthOf(e + 1) = MonthOf(e)
    BY RightMonthEnd
  <2>4. due # NoDate
    BY DEF NoDate
  <2>5. RightDay(p, t, due)
    BY <2>1, <2>3, <2>4 DEF RightDay, Names
  <2> QED BY <2>2, <2>3, <2>5
<1> QED BY <1>2, <1>3, <1>4, <1>5 DEF Dates

----------------------------------------------------------------------------
(* The inductive invariant.                                                *)

Sentences == UNION {Body[m] \cup Reply[m] : m \in Mails}
RowKeys == (1..minted) \X {"ours", "theirs"} \X Sentences

FollowUpTypes ==
  /\ sync = [s \in Syncs |-> sync[s]]
  /\ begun \in Today0 /\ day \in begun..(begun + MaxDays) /\ crashes \in Nat
  /\ inbox \in Seq(Mails)
  /\ conns \in 0..MaxConns /\ conn \in {0, conns}
  /\ minted \in 0..MaxRows /\ DOMAIN messages \subseteq 1..minted /\ replied \subseteq 1..minted
  /\ messages \in [DOMAIN messages -> [conn : 1..conns, mail : Mails]]
  /\ IsFiniteSet(DOMAIN rows) /\ DOMAIN rows \subseteq RowKeys
  /\ rows \in [DOMAIN rows -> [status : {"open", "done", "dropped"}, due : Int, read : begun..day]]
  /\ said \in [DOMAIN rows -> {"nothing", "open", "done", "dropped"}]

\* A message is stored once.
StoredOnce == \A i, j \in DOMAIN messages : messages[i] = messages[j] => i = j

\* k is a promise of the mail behind its message, or of the reply to it.
SaidThere(k) ==
  /\ k \in RowKeys
  /\ k[1] \in DOMAIN messages => <<messages[k[1]].mail, k[2], k[3]>> \in Promises

\* A promise only a reply can make: syncs never record these.
OwnPromise(k) == k[2] = "ours" /\ LooksLikeACommitment(k[3])

\* A row keeps the day of its first reading and the status people gave it.
RowOk(k) ==
  /\ SaidThere(k)
  /\ rows[k].due = ParseDue(k[3].words, rows[k].read)
  /\ rows[k].status = IF said[k] = "nothing" THEN "open" ELSE said[k]

Running(s) ==
  /\ sync[s] \in [pc : {"save", "insert", "track", "add"}, conn : 1..conns, todo : Seq(Mails),
                  read : SUBSET ((1..minted) \X Mails), work : Seq(RowKeys)]
  /\ IsFiniteSet(sync[s].read)
  /\ sync[s].pc = "insert" => sync[s].todo # <<>>
  /\ sync[s].pc = "add" => sync[s].work # <<>>

\* What a sync has read is what the messages say, and what it found there is in
\* the table or still in its hands.
ReadOk(s) ==
  /\ \A r \in sync[s].read : r[1] \in DOMAIN messages => messages[r[1]].mail = r[2]
  /\ \A k \in ToSet(sync[s].work) : SaidThere(k) /\ ~OwnPromise(k)
  /\ sync[s].pc \in {"track", "add"} => Found(sync[s].read) \subseteq DOMAIN rows \cup ToSet(sync[s].work)

SyncOk(s) == sync[s] = Idle \/ (Running(s) /\ ReadOk(s))

SenderOk ==
  \/ sender = Idle
  \/ /\ sender \in [pc : {"track", "add"}, id : replied, work : Seq(RowKeys)]
     /\ \A k \in ToSet(sender.work) : SaidThere(k) /\ OwnPromise(k) /\ k[1] = sender.id
     /\ sender.pc = "add" => sender.work # <<>> /\ Head(sender.work) \notin DOMAIN rows

Owed(id) == IF sender # Idle /\ sender.id = id THEN ToSet(sender.work) ELSE {}

SentOk ==
  crashes = 0 =>
    \A id \in replied \cap DOMAIN messages : \A x \in Reply[messages[id].mail] :
      LooksLikeACommitment(x) => <<id, "ours", x>> \in DOMAIN rows \cup Owed(id)

FollowUpInv ==
  /\ FollowUpTypes /\ StoredOnce /\ SenderOk /\ SentOk
  /\ \A k \in DOMAIN rows : RowOk(k)
  /\ \A s \in Syncs : SyncOk(s)

\* With foreign keys, what is stored belongs to the connection there is, and
\* rows refer to what is stored.
Enforced ==
  /\ \A id \in DOMAIN messages : messages[id].conn = conn
  /\ Referred \subseteq DOMAIN messages

----------------------------------------------------------------------------
(* Sequences made of sets, and the promises they hold.                     *)

LEMMA SeqOfSet ==
  ASSUME NEW S, IsFiniteSet(S)
  PROVE  SetToSeq(S) \in Seq(S) /\ ToSet(SetToSeq(S)) = S
<1> DEFINE n == Cardinality(S)
<1>1. n \in Nat /\ ExistsBijection(1..n, S)
  BY FS_CardinalityType
<1>2. \E f \in [1..n -> S] : IsInjective(f)
  BY <1>1 DEF ExistsBijection, Bijection, Injection
<1>3. SetToSeq(S) \in [1..n -> S] /\ IsInjective(SetToSeq(S))
  BY <1>2 DEF SetToSeq
<1>4. IsFiniteSet(1..n) /\ Cardinality(1..n) = n
  BY <1>1, FS_Interval
<1>5. SetToSeq(S) \in Injection(1..n, S)
  BY <1>3 DEF Injection
<1>6. SetToSeq(S) \in Surjection(1..n, S)
  <2> DEFINE f == SetToSeq(S)
  <2> HIDE DEF f
  <2>1. f \in Injection(1..n, S)
    BY <1>5 DEF f
  <2> QED BY <1>4, <2>1, FS_Injection DEF f
<1> HIDE DEF n
<1>7. ToSet(SetToSeq(S)) = S
  BY <1>3, <1>6 DEF ToSet, Surjection
<1>8. SetToSeq(S) \in Seq(S)
  BY <1>1, <1>3
<1> QED BY <1>7, <1>8

LEMMA HeadAndTail ==
  ASSUME NEW S, NEW w \in Seq(S), w # <<>>
  PROVE  /\ Head(w) \in S /\ Tail(w) \in Seq(S)
         /\ ToSet(w) = {Head(w)} \cup ToSet(Tail(w))
         /\ Head(w) \in ToSet(w) /\ ToSet(Tail(w)) \subseteq ToSet(w)
<1>1. Head(w) \in S /\ Tail(w) \in Seq(S) /\ Len(w) \in Nat \ {0} /\ DOMAIN w = 1..Len(w)
      /\ DOMAIN Tail(w) = 1..(Len(w) - 1) /\ Head(w) = w[1] /\ \A i \in 1..(Len(w) - 1) : Tail(w)[i] = w[i + 1]
  BY HeadTailProperties
<1>2. \A i \in 1..Len(w) : i = 1 \/ (i - 1 \in 1..(Len(w) - 1) /\ w[i] = Tail(w)[i - 1])
  BY <1>1
<1>3. ToSet(w) \subseteq {Head(w)} \cup ToSet(Tail(w))
  <2>1. ASSUME NEW i \in 1..Len(w), i # 1
        PROVE  w[i] \in ToSet(Tail(w))
    <3>1. i - 1 \in 1..(Len(w) - 1) /\ w[i] = Tail(w)[i - 1]
      BY <1>2, <2>1
    <3>2. Tail(w)[i - 1] \in ToSet(Tail(w))
      BY <1>1, <3>1 DEF ToSet
    <3> QED BY <3>1, <3>2
  <2>2. \A e \in ToSet(w) : \E i \in 1..Len(w) : e = w[i]
    BY <1>1 DEF ToSet
  <2> QED BY <1>1, <2>1, <2>2
<1>4. {Head(w)} \cup ToSet(Tail(w)) \subseteq ToSet(w)
  <2>1. Head(w) \in ToSet(w)
    BY <1>1 DEF ToSet
  <2>2. ASSUME NEW i \in 1..(Len(w) - 1)
        PROVE  Tail(w)[i] \in ToSet(w)
    <3>1. i + 1 \in 1..Len(w)
      BY <1>1
    <3> QED BY <1>1, <3>1 DEF ToSet
  <2> QED BY <1>1, <2>1, <2>2 DEF ToSet
<1> QED BY <1>1, <1>3, <1>4

LEMMA FetchedType ==
  ASSUME inbox \in Seq(Mails)
  PROVE  Fetched \in Seq(Mails)
<1>1. Limit \in Nat /\ Len(inbox) \in Nat /\ inbox \in [1..Len(inbox) -> Mails]
  BY FollowUpsAssumption
<1> DEFINE from == IF Len(inbox) > Limit THEN Len(inbox) - Limit + 1 ELSE 1
<1> DEFINE newest == SubSeq(inbox, from, Len(inbox))
<1>2. from \in Int /\ from >= 1
  BY <1>1
<1> HIDE DEF from
<1>3. newest \in Seq(Mails)
  BY <1>1, <1>2, SubSeqProperties
<1> HIDE DEF newest
<1>4. Len(newest) \in Nat /\ \A i \in 1..Len(newest) : newest[(Len(newest) - i) + 1] \in Mails
  BY <1>3
<1>5. Reverse(newest) \in Seq(Mails)
  BY <1>4 DEF Reverse
<1> QED BY <1>5 DEF Fetched, newest, from

LEMMA KeyOf ==
  ASSUME NEW a, NEW d, NEW x
  PROVE  <<a>> \o <<d, x>> = <<a, d, x>>
<1> DEFINE T == {a, d, x}
<1> DEFINE s == <<a>> \o <<d, x>>
<1>1. <<a>> \in Seq(T) /\ <<d, x>> \in Seq(T) /\ <<a, d, x>> \in Seq(T)
  OBVIOUS
<1>2. /\ s \in Seq(T) /\ Len(s) = Len(<<a>>) + Len(<<d, x>>)
      /\ \A i \in 1..(Len(<<a>>) + Len(<<d, x>>)) :
           s[i] = IF i <= Len(<<a>>) THEN <<a>>[i] ELSE <<d, x>>[i - Len(<<a>>)]
  BY <1>1, ConcatProperties
<1>3. Len(<<a>>) = 1 /\ Len(<<d, x>>) = 2 /\ Len(<<a, d, x>>) = 3
  OBVIOUS
<1>4. s \in Seq(T) /\ Len(s) = 3 /\ s[1] = a /\ s[2] = d /\ s[3] = x
  BY <1>2, <1>3
<1> HIDE DEF s
<1>5. \A i \in 1..Len(s) : s[i] = <<a, d, x>>[i]
  BY <1>4
<1>6. s = <<a, d, x>>
  BY <1>1, <1>3, <1>4, <1>5, SeqEqual
<1> QED BY <1>6 DEF s

LEMMA ReadPromise ==
  ASSUME NEW m \in Mails, NEW f \in Extract(Body[m], "theirs", TRUE) \cup Extract(Reply[m], "ours", FALSE)
  PROVE  <<m>> \o f \in Promises
<1> DEFINE here(n) == {<<n>> \o g : g \in Extract(Body[n], "theirs", TRUE) \cup Extract(Reply[n], "ours", FALSE)}
<1>1. Promises = UNION {here(n) : n \in Mails}
  BY DEF Promises
<1>2. <<m>> \o f \in here(m)
  OBVIOUS
<1> HIDE DEF here
<1> QED BY <1>1, <1>2

\* What is found in the text of a message is a promise of its mail, and none
\* that only a reply can make.
LEMMA FoundKeys ==
  ASSUME NEW id, NEW m \in Mails, NEW f \in Extract(Body[m], "theirs", TRUE)
  PROVE  /\ f[1] \in {"ours", "theirs"} /\ f[2] \in Body[m] /\ f = <<f[1], f[2]>>
         /\ <<id>> \o f = <<id, f[1], f[2]>> /\ <<m, f[1], f[2]>> \in Promises
         /\ ~(f[1] = "ours" /\ LooksLikeACommitment(f[2]))
<1>1. f[1] \in {"ours", "theirs"} /\ f[2] \in Body[m] /\ f = <<f[1], f[2]>>
      /\ ~(f[1] = "ours" /\ LooksLikeACommitment(f[2]))
  BY DEF Extract
<1>2. <<id>> \o f = <<id, f[1], f[2]>> /\ <<m>> \o f = <<m, f[1], f[2]>>
  BY <1>1, KeyOf
<1>3. <<m>> \o f \in Promises
  BY ReadPromise
<1> QED BY <1>1, <1>2, <1>3

LEMMA SentKeys ==
  ASSUME NEW id, NEW m \in Mails, NEW f \in Extract(Reply[m], "ours", FALSE)
  PROVE  /\ f[1] = "ours" /\ f[2] \in Reply[m] /\ f = <<f[1], f[2]>> /\ LooksLikeACommitment(f[2])
         /\ <<id>> \o f = <<id, f[1], f[2]>> /\ <<m, f[1], f[2]>> \in Promises
<1>1. f[1] = "ours" /\ f[2] \in Reply[m] /\ f = <<f[1], f[2]>> /\ LooksLikeACommitment(f[2])
  BY DEF Extract
<1>2. <<id>> \o f = <<id, f[1], f[2]>> /\ <<m>> \o f = <<m, f[1], f[2]>>
  BY <1>1, KeyOf
<1>3. <<m>> \o f \in Promises
  BY ReadPromise
<1> QED BY <1>1, <1>2, <1>3

LEMMA FiniteExtract ==
  ASSUME NEW text, IsFiniteSet(text), NEW direction, NEW asked
  PROVE  IsFiniteSet(Extract(text, direction, asked))
<1>1. IsFiniteSet({direction, "ours"})
  <2>1. IsFiniteSet({direction}) /\ IsFiniteSet({"ours"})
    BY FS_Singleton
  <2>2. {direction, "ours"} = {direction} \cup {"ours"}
    OBVIOUS
  <2> QED BY <2>1, <2>2, FS_Union
<1>2. IsFiniteSet({direction, "ours"} \X text)
  BY <1>1, FS_Product
<1>3. Extract(text, direction, asked) \subseteq {direction, "ours"} \X text
  BY DEF Extract
<1> QED BY <1>2, <1>3, FS_Subset

LEMMA FiniteKeys ==
  ASSUME NEW S, IsFiniteSet(S), NEW id
  PROVE  IsFiniteSet({<<id>> \o f : f \in S})
<1> DEFINE T == {<<id>> \o f : f \in S}
<1> DEFINE g == [f \in S |-> <<id>> \o f]
<1>1. g \in Surjection(S, T)
  BY DEF Surjection
<1> HIDE DEF g
<1>2. IsFiniteSet(T)
  BY <1>1, FS_Surjection
<1> QED BY <1>2

LEMMA FoundType ==
  ASSUME NEW read, IsFiniteSet(read), \A r \in read : r[2] \in Mails
  PROVE  /\ IsFiniteSet(Found(read))
         /\ \A k \in Found(read) : \E r \in read :
              /\ r[2] \notin Spam /\ k[2] \in {"ours", "theirs"} /\ k[3] \in Body[r[2]] /\ k = <<r[1], k[2], k[3]>>
              /\ <<r[2], k[2], k[3]>> \in Promises /\ ~OwnPromise(k)
<1> DEFINE good == {r \in read : r[2] \notin Spam}
<1> DEFINE keys(r) == {<<r[1]>> \o f : f \in Extract(Body[r[2]], "theirs", TRUE)}
<1> DEFINE g == [r \in good |-> keys(r)]
<1>1. Found(read) = UNION {keys(r) : r \in good}
  BY DEF Found
<1>2. \A r \in good : IsFiniteSet(keys(r))
  <2>1. ASSUME NEW r \in good
        PROVE  IsFiniteSet(Extract(Body[r[2]], "theirs", TRUE))
    BY FollowUpsAssumption, FiniteExtract
  <2> QED BY <2>1, FiniteKeys
<1>3. IsFiniteSet(good)
  BY FS_Subset
<1>4. IsFiniteSet({keys(r) : r \in good})
  <2>1. g \in Surjection(good, {keys(r) : r \in good})
    BY DEF Surjection
  <2> HIDE DEF g, good, keys
  <2> QED BY <1>3, <2>1, FS_Surjection
<1>5. IsFiniteSet(UNION {keys(r) : r \in good})
  <2> HIDE DEF g, good, keys
  <2>1. \A T \in {keys(r) : r \in good} : IsFiniteSet(T)
    BY <1>2
  <2> QED BY <1>4, <2>1, FS_UNION
<1>6. ASSUME NEW k \in Found(read)
      PROVE  \E r \in read :
              /\ r[2] \notin Spam /\ k[2] \in {"ours", "theirs"} /\ k[3] \in Body[r[2]] /\ k = <<r[1], k[2], k[3]>>
              /\ <<r[2], k[2], k[3]>> \in Promises /\ ~OwnPromise(k)
  <2>1. PICK r \in good : k \in keys(r)
    BY <1>1
  <2>2. PICK f \in Extract(Body[r[2]], "theirs", TRUE) : k = <<r[1]>> \o f
    BY <2>1
  <2>3. r \in read /\ r[2] \in Mails
    BY <2>1
  <2>4. /\ f[1] \in {"ours", "theirs"} /\ f[2] \in Body[r[2]] /\ k = <<r[1], f[1], f[2]>>
        /\ <<r[2], f[1], f[2]>> \in Promises /\ ~(f[1] = "ours" /\ LooksLikeACommitment(f[2]))
    BY <2>2, <2>3, FoundKeys
  <2>5. k[2] = f[1] /\ k[3] = f[2]
    BY <2>4
  <2> QED BY <2>1, <2>3, <2>4, <2>5 DEF OwnPromise
<1> QED BY <1>1, <1>5, <1>6

----------------------------------------------------------------------------
(* What a step leaves alone.                                               *)

\* No message changes under its id, new ones have new ids, and rows only come.
Kept ==
  /\ minted \in Nat /\ minted' \in Nat /\ minted <= minted'
  /\ conns \in Nat /\ conns' \in Nat /\ conns <= conns'
  /\ DOMAIN rows \subseteq DOMAIN rows'
  /\ \A id \in 1..minted : id \in DOMAIN messages' => id \in DOMAIN messages /\ messages'[id] = messages[id]

LEMMA DaysOk ==
  ASSUME FollowUpTypes
  PROVE  begun \in Int /\ day \in Int /\ MaxDays \in Nat /\ day \in Days
<1>1. begun \in Today0 /\ day \in begun..(begun + MaxDays)
  BY DEF FollowUpTypes
<1>2. begun \in Days /\ MaxDays \in Nat /\ begun..(begun + MaxDays) \subseteq Days
  BY <1>1, FollowUpsAssumption
<1>3. begun \in Int /\ day \in Days
  BY <1>1, <1>2, DaysAreNumbers
<1> QED BY <1>2, <1>3, DaysAreNumbers

LEMMA SaidStays ==
  ASSUME NEW k, SaidThere(k), Kept
  PROVE  SaidThere(k)'
<1>1. k \in RowKeys /\ k[1] \in 1..minted /\ k \in RowKeys'
  BY DEF SaidThere, RowKeys, Kept
<1> QED BY <1>1 DEF SaidThere, Kept

LEMMA SyncStays ==
  ASSUME NEW s, SyncOk(s), Kept, sync'[s] = sync[s]
  PROVE  SyncOk(s)'
<1>1. CASE sync[s] = Idle
  BY <1>1 DEF SyncOk
<1>2. CASE Running(s) /\ ReadOk(s)
  <2>1. RowKeys \subseteq RowKeys' /\ 1..minted \subseteq 1..minted' /\ 1..conns \subseteq 1..conns'
    BY DEF Kept, RowKeys
  <2>2. Seq(RowKeys) \subseteq Seq(RowKeys')
    BY <2>1, SeqMonotonic
  <2>3. Running(s)'
    BY <1>2, <2>1, <2>2 DEF Running
  <2>4. \A r \in sync[s].read : r[1] \in 1..minted
    BY <1>2 DEF Running
  <2>5. \A k \in ToSet(sync[s].work) : SaidThere(k)'
    BY <1>2, SaidStays DEF ReadOk
  <2>6. ReadOk(s)'
    BY <1>2, <2>4, <2>5 DEF ReadOk, Kept
  <2> QED BY <2>3, <2>6 DEF SyncOk
<1> QED BY <1>1, <1>2 DEF SyncOk

LEMMA SenderStays ==
  ASSUME SenderOk, Kept, sender' = sender, replied \subseteq replied',
         sender # Idle /\ sender.pc = "add" => Head(sender.work) \notin DOMAIN rows'
  PROVE  SenderOk'
<1>1. CASE sender = Idle
  BY <1>1 DEF SenderOk
<1>2. CASE sender # Idle
  <2>1. RowKeys \subseteq RowKeys'
    BY DEF Kept, RowKeys
  <2>2. Seq(RowKeys) \subseteq Seq(RowKeys')
    BY <2>1, SeqMonotonic
  <2>3. /\ sender \in [pc : {"track", "add"}, id : replied, work : Seq(RowKeys)]
        /\ \A k \in ToSet(sender.work) : SaidThere(k) /\ OwnPromise(k) /\ k[1] = sender.id
        /\ sender.pc = "add" => sender.work # <<>>
    BY <1>2 DEF SenderOk
  <2>4. \A k \in ToSet(sender.work) : SaidThere(k)'
    BY <2>3, SaidStays
  <2>5. sender' \in [pc : {"track", "add"}, id : replied', work : Seq(RowKeys')]
    BY <2>2, <2>3
  <2> QED BY <1>2, <2>3, <2>4, <2>5 DEF SenderOk
<1> QED BY <1>1, <1>2

LEMMA SentStays ==
  ASSUME FollowUpTypes, SentOk, Kept, sender' = sender, replied' = replied, crashes' = crashes
  PROVE  SentOk'
<1>1. \A id \in replied \cap DOMAIN messages' : id \in DOMAIN messages /\ messages'[id] = messages[id]
  BY DEF FollowUpTypes, Kept
<1> QED BY <1>1 DEF SentOk, Owed, Kept

LEMMA StaysStored ==
  ASSUME FollowUpTypes, UNCHANGED <<messages, minted, rows>>, conns' \in Nat, conns <= conns'
  PROVE  Kept
BY DEF FollowUpTypes, Kept

LEMMA RowsStay ==
  ASSUME FollowUpInv, Kept, UNCHANGED <<rows, said>>
  PROVE  \A k \in DOMAIN rows' : RowOk(k)'
<1>1. ASSUME NEW k \in DOMAIN rows
      PROVE  RowOk(k)'
  <2>1. RowOk(k)
    BY DEF FollowUpInv
  <2> QED BY <2>1, SaidStays DEF RowOk
<1> QED BY <1>1

\* A step of one sync that writes nothing.
LEMMA OnlySync ==
  ASSUME FollowUpInv, NEW s \in Syncs, NEW new, sync' = [sync EXCEPT ![s] = new], SyncOk(s)',
         UNCHANGED <<day, inbox, conn, conns, messages, minted, rows, said, sender, replied, begun, calls, crashes>>
  PROVE  FollowUpInv'
<1>1. FollowUpTypes'
  BY DEF FollowUpInv, FollowUpTypes, RowKeys
<1>2. Kept
  BY StaysStored DEF FollowUpInv, FollowUpTypes
<1>3. StoredOnce' /\ SentOk' /\ SenderOk'
  BY <1>2, SentStays, SenderStays DEF FollowUpInv, StoredOnce, SenderOk
<1>4. \A k \in DOMAIN rows' : RowOk(k)'
  BY <1>2, RowsStay
<1>5. ASSUME NEW u \in Syncs
      PROVE  SyncOk(u)'
  <2>1. CASE u = s
    BY <2>1
  <2>2. CASE u # s
    <3>1. sync'[u] = sync[u]
      BY <2>2 DEF FollowUpInv, FollowUpTypes
    <3> QED BY <1>2, <3>1, SyncStays DEF FollowUpInv
  <2> QED BY <2>1, <2>2
<1> QED BY <1>1, <1>3, <1>4, <1>5 DEF FollowUpInv

\* A sync between two mails, or at its promises.
LEMMA ReadingOk ==
  ASSUME NEW s, NEW c, NEW todo, NEW read, sync'[s] = Reading(c, todo, read),
         c \in 1..conns', todo \in Seq(Mails), minted' \in Nat,
         read \subseteq (1..minted') \X Mails, IsFiniteSet(read),
         \A r \in read : r[1] \in DOMAIN messages' => messages'[r[1]].mail = r[2]
  PROVE  SyncOk(s)'
<1>1. \A r \in read : r[1] \in 1..minted' /\ r[2] \in Mails
  OBVIOUS
<1>2. /\ IsFiniteSet(Found(read))
      /\ \A k \in Found(read) : \E r \in read :
           /\ r[2] \notin Spam /\ k[2] \in {"ours", "theirs"} /\ k[3] \in Body[r[2]] /\ k = <<r[1], k[2], k[3]>>
           /\ <<r[2], k[2], k[3]>> \in Promises /\ ~OwnPromise(k)
  BY <1>1, FoundType
<1>3. ASSUME NEW k \in Found(read)
      PROVE  SaidThere(k)' /\ ~OwnPromise(k) /\ k \in RowKeys'
  <2>1. PICK r \in read :
           /\ r[2] \notin Spam /\ k[2] \in {"ours", "theirs"} /\ k[3] \in Body[r[2]] /\ k = <<r[1], k[2], k[3]>>
           /\ <<r[2], k[2], k[3]>> \in Promises /\ ~OwnPromise(k)
    BY <1>2
  <2>2. k[3] \in Sentences
    BY <1>1, <2>1 DEF Sentences
  <2>3. k \in RowKeys' /\ k[1] = r[1]
    BY <1>1, <2>1, <2>2 DEF RowKeys
  <2> QED BY <2>1, <2>3 DEF SaidThere
<1> DEFINE work == IF todo = <<>> THEN SetToSeq(Found(read)) ELSE <<>>
<1>4. work \in Seq(RowKeys') /\ ToSet(work) \subseteq Found(read) /\ (todo = <<>> => ToSet(work) = Found(read))
  <2>1. SetToSeq(Found(read)) \in Seq(Found(read)) /\ ToSet(SetToSeq(Found(read))) = Found(read)
    BY <1>2, SeqOfSet
  <2>2. Found(read) \subseteq RowKeys'
    BY <1>3
  <2>3. SetToSeq(Found(read)) \in Seq(RowKeys')
    BY <2>1, <2>2, SeqMonotonic
  <2>4. ToSet(<<>>) = {} /\ <<>> \in Seq(RowKeys')
    BY DEF ToSet
  <2> QED BY <2>1, <2>3, <2>4
<1>5. sync'[s] = [conn |-> c, todo |-> todo, read |-> read, pc |-> IF todo = <<>> THEN "track" ELSE "save", work |-> work]
  BY DEF Reading
<1> HIDE DEF work
<1>6. Running(s)'
  BY <1>4, <1>5 DEF Running
<1>7. ReadOk(s)'
  BY <1>3, <1>4, <1>5 DEF ReadOk
<1> QED BY <1>6, <1>7 DEF SyncOk

----------------------------------------------------------------------------
(* The invariant is inductive.                                             *)

LEMMA FollowUpStart ==
  ASSUME Init
  PROVE  FollowUpInv /\ Enforced
<1>1. begun \in Today0 /\ begun \in Days /\ MaxDays \in Nat /\ MaxConns \in Nat /\ MaxRows \in Nat
  BY FollowUpsAssumption DEF Init
<1>2. begun \in Int
  BY <1>1, DaysAreNumbers
<1>3. IsFiniteSet({}) /\ DOMAIN rows = {} /\ DOMAIN said = {} /\ DOMAIN messages = {}
  BY FS_EmptySet DEF Init
<1>4. FollowUpTypes
  <2>1. day \in begun..(begun + MaxDays)
    BY <1>1, <1>2 DEF Init
  <2>2. <<>> \in Seq(Mails)
    OBVIOUS
  <2>3. 0 \in 0..MaxConns /\ 0 \in 0..MaxRows
    BY <1>1
  <2> QED BY <1>1, <1>3, <2>1, <2>2, <2>3 DEF Init, FollowUpTypes
<1>5. StoredOnce /\ SenderOk /\ SentOk /\ Enforced
  BY <1>3 DEF Init, StoredOnce, SenderOk, SentOk, Enforced, Referred
<1>6. \A s \in Syncs : SyncOk(s)
  BY DEF Init, SyncOk
<1> QED BY <1>3, <1>4, <1>5, <1>6 DEF FollowUpInv

\* The clock, new mail and a consent.
LEMMA OutsideSteps ==
  ASSUME FollowUpInv, Tick \/ (\E m \in Mails : Arrive(m)) \/ Connect
  PROVE  FollowUpInv'
<1>1. UNCHANGED <<tables, sync, sender, replied, begun, calls, crashes>>
  BY DEF Tick, Arrive, Connect, tables, clock, mailbox
<1>2. /\ day' \in begun..(begun + MaxDays) /\ day <= day' /\ day \in Int /\ begun \in Int /\ day' \in Int
      /\ inbox' \in Seq(Mails)
      /\ conns' \in 0..MaxConns /\ conn' \in {0, conns'} /\ conns <= conns' /\ conns \in Nat
  <2>1. begun \in Int /\ day \in Int /\ MaxDays \in Nat /\ MaxConns \in Nat /\ conns \in 0..MaxConns
        /\ inbox \in Seq(Mails) /\ conn \in {0, conns} /\ day \in begun..(begun + MaxDays)
    BY DaysOk, FollowUpsAssumption DEF FollowUpInv, FollowUpTypes
  <2>2. CASE Tick
    BY <2>1, <2>2 DEF Tick, mailbox
  <2>3. CASE \E m \in Mails : Arrive(m)
    BY <2>1, <2>3 DEF Arrive, mailbox, clock
  <2>4. CASE Connect
    BY <2>1, <2>4 DEF Connect, clock
  <2> QED BY <2>2, <2>3, <2>4
<1>3. Kept
  BY <1>1, <1>2, StaysStored DEF FollowUpInv, FollowUpTypes, tables
<1>4. FollowUpTypes'
  <2>1. 1..conns \subseteq 1..conns' /\ begun..day \subseteq begun..day'
    BY <1>2
  <2>2. messages \in [DOMAIN messages -> [conn : 1..conns', mail : Mails]]
    BY <2>1 DEF FollowUpInv, FollowUpTypes
  <2>3. rows \in [DOMAIN rows -> [status : {"open", "done", "dropped"}, due : Int, read : begun..day']]
    BY <2>1 DEF FollowUpInv, FollowUpTypes
  <2> QED BY <1>1, <1>2, <2>2, <2>3 DEF FollowUpInv, FollowUpTypes, tables, RowKeys
<1>5. StoredOnce' /\ SentOk' /\ SenderOk'
  BY <1>1, <1>3, SentStays, SenderStays DEF FollowUpInv, StoredOnce, SenderOk, tables
<1>6. \A k \in DOMAIN rows' : RowOk(k)'
  BY <1>1, <1>3, RowsStay DEF tables
<1>7. \A s \in Syncs : SyncOk(s)'
  BY <1>1, <1>3, SyncStays DEF FollowUpInv
<1> QED BY <1>4, <1>5, <1>6, <1>7 DEF FollowUpInv

\* The messages of the connection go; what refers to them stays.
LEMMA DisconnectStep ==
  ASSUME FollowUpInv, Disconnect
  PROVE  FollowUpInv'
<1>1. /\ messages' = [id \in DOMAIN messages \ OfConnection(conn) |-> messages[id]]
      /\ conn' = 0 /\ UNCHANGED <<day, inbox, conns, minted, rows, said, sync, sender, replied, begun, calls, crashes>>
  BY DEF Disconnect, clock
<1>2. DOMAIN messages' \subseteq DOMAIN messages /\ \A id \in DOMAIN messages' : messages'[id] = messages[id]
  BY <1>1
<1>3. Kept
  BY <1>1, <1>2 DEF FollowUpInv, FollowUpTypes, Kept
<1>4. FollowUpTypes'
  <2>1. messages' \in [DOMAIN messages' -> [conn : 1..conns, mail : Mails]]
    BY <1>1 DEF FollowUpInv, FollowUpTypes
  <2> QED BY <1>1, <1>2, <2>1 DEF FollowUpInv, FollowUpTypes, RowKeys
<1>5. StoredOnce' /\ SentOk' /\ SenderOk'
  BY <1>1, <1>2, <1>3, SentStays, SenderStays DEF FollowUpInv, StoredOnce, SenderOk
<1>6. \A k \in DOMAIN rows' : RowOk(k)'
  BY <1>1, <1>3, RowsStay
<1>7. \A s \in Syncs : SyncOk(s)'
  BY <1>1, <1>3, SyncStays DEF FollowUpInv
<1> QED BY <1>4, <1>5, <1>6, <1>7 DEF FollowUpInv

\* What people say of a row is its status.
LEMMA ResolveStep ==
  ASSUME FollowUpInv, NEW k \in DOMAIN rows, NEW status \in {"open", "done", "dropped"}, Resolve(k, status)
  PROVE  FollowUpInv'
<1>1. /\ rows' = [rows EXCEPT ![k].status = status] /\ said' = [said EXCEPT ![k] = status]
      /\ UNCHANGED <<day, inbox, conn, conns, messages, minted, sync, sender, replied, begun, crashes>>
  BY DEF Resolve, SetStatus, mailbox
<1>2. DOMAIN rows' = DOMAIN rows /\ DOMAIN said = DOMAIN rows /\ DOMAIN said' = DOMAIN rows
  BY <1>1 DEF FollowUpInv, FollowUpTypes
<1>3. Kept
  BY <1>1, <1>2 DEF FollowUpInv, FollowUpTypes, Kept
<1>4. /\ \A j \in DOMAIN rows : rows'[j] = [rows[j] EXCEPT !.status = IF j = k THEN status ELSE @]
      /\ \A j \in DOMAIN rows : said'[j] = IF j = k THEN status ELSE said[j]
  BY <1>1, <1>2 DEF FollowUpInv, FollowUpTypes
<1>5. FollowUpTypes'
  <2>1. rows' \in [DOMAIN rows -> [status : {"open", "done", "dropped"}, due : Int, read : begun..day]]
    BY <1>1 DEF FollowUpInv, FollowUpTypes
  <2>2. said' \in [DOMAIN rows -> {"nothing", "open", "done", "dropped"}]
    BY <1>1 DEF FollowUpInv, FollowUpTypes
  <2> QED BY <1>1, <1>2, <2>1, <2>2 DEF FollowUpInv, FollowUpTypes, RowKeys
<1>6. StoredOnce' /\ SentOk' /\ SenderOk'
  BY <1>1, <1>2, <1>3, SentStays, SenderStays DEF FollowUpInv, StoredOnce, SenderOk
<1>7. ASSUME NEW j \in DOMAIN rows
      PROVE  RowOk(j)'
  <2>1. RowOk(j) /\ rows[j] \in [status : {"open", "done", "dropped"}, due : Int, read : begun..day]
    BY DEF FollowUpInv, FollowUpTypes
  <2>2. rows'[j].due = rows[j].due /\ rows'[j].read = rows[j].read
        /\ rows'[j].status = IF j = k THEN status ELSE rows[j].status
    BY <1>4, <2>1
  <2>3. SaidThere(j)'
    BY <1>3, <2>1, SaidStays DEF RowOk
  <2> QED BY <1>4, <2>1, <2>2, <2>3 DEF RowOk
<1>8. \A s \in Syncs : SyncOk(s)'
  BY <1>1, <1>3, SyncStays DEF FollowUpInv
<1> QED BY <1>2, <1>5, <1>6, <1>7, <1>8 DEF FollowUpInv

LEMMA CrashStep ==
  ASSUME FollowUpInv, Crash
  PROVE  FollowUpInv'
<1>1. /\ sync' = [s \in Syncs |-> Idle] /\ sender' = Idle /\ crashes' = crashes + 1 /\ crashes \in Nat
      /\ UNCHANGED <<day, inbox, conn, conns, messages, minted, rows, said, replied, begun, calls>>
  BY DEF Crash, mailbox, tables, FollowUpInv, FollowUpTypes
<1>2. Kept
  BY <1>1, StaysStored DEF FollowUpInv, FollowUpTypes
<1>3. FollowUpTypes'
  BY <1>1 DEF FollowUpInv, FollowUpTypes, RowKeys
<1>4. crashes' # 0
  BY <1>1
<1>5. StoredOnce' /\ SentOk' /\ SenderOk' /\ \A s \in Syncs : SyncOk(s)'
  BY <1>1, <1>4 DEF FollowUpInv, StoredOnce, SentOk, SenderOk, SyncOk
<1>6. \A k \in DOMAIN rows' : RowOk(k)'
  BY <1>1, <1>2, RowsStay
<1> QED BY <1>3, <1>5, <1>6 DEF FollowUpInv

\* A new row: the promise is new, and its day is the one its words name now.
LEMMA WriteStep ==
  ASSUME FollowUpInv, NEW k, SaidThere(k), k \notin DOMAIN rows, Write(k),
         UNCHANGED <<day, inbox, conn, conns, replied, begun, calls, crashes>>
  PROVE  /\ Kept /\ StoredOnce' /\ DOMAIN rows' = DOMAIN rows \cup {k}
         /\ \A j \in DOMAIN rows' : RowOk(j)'
         /\ sync' = [s \in Syncs |-> sync'[s]] => FollowUpTypes'
<1>1. /\ rows' = [j \in DOMAIN rows \cup {k} |-> IF j = k THEN NewRow(k) ELSE rows[j]]
      /\ said' = [j \in DOMAIN said \cup {k} |-> IF j \in DOMAIN said THEN said[j] ELSE "nothing"]
      /\ UNCHANGED <<messages, minted>> /\ DOMAIN said = DOMAIN rows
  BY DEF Write, FollowUpInv, FollowUpTypes
<1>2. Kept
  BY <1>1 DEF FollowUpInv, FollowUpTypes, Kept
<1>3. day \in Days /\ day \in begun..day
  BY DaysOk DEF FollowUpInv, FollowUpTypes
<1>4. NewRow(k) \in [status : {"open", "done", "dropped"}, due : Int, read : begun..day]
  <2>1. k[3] \in Sentences
    BY DEF SaidThere, RowKeys
  <2>2. k[3].words \in SUBSET Phrases
    BY <2>1, FollowUpsAssumption DEF Sentences
  <2>3. ParseDue(k[3].words, day) \in Int
    BY <1>3, <2>2, ParseDueType
  <2> QED BY <1>3, <2>3 DEF NewRow
<1>5. IsFiniteSet(DOMAIN rows \cup {k})
  BY FS_AddElement DEF FollowUpInv, FollowUpTypes
<1>6. sync' = [s \in Syncs |-> sync'[s]] => FollowUpTypes'
  <2>1. rows' \in [DOMAIN rows \cup {k} -> [status : {"open", "done", "dropped"}, due : Int, read : begun..day]]
    BY <1>1, <1>4 DEF FollowUpInv, FollowUpTypes
  <2>2. said' \in [DOMAIN rows \cup {k} -> {"nothing", "open", "done", "dropped"}]
    BY <1>1 DEF FollowUpInv, FollowUpTypes
  <2>3. DOMAIN rows' = DOMAIN rows \cup {k} /\ DOMAIN rows' \subseteq RowKeys'
    BY <1>1 DEF FollowUpInv, FollowUpTypes, SaidThere, RowKeys
  <2> QED BY <1>1, <1>5, <2>1, <2>2, <2>3 DEF FollowUpInv, FollowUpTypes
<1>7. ASSUME NEW j \in DOMAIN rows'
      PROVE  RowOk(j)'
  <2>1. CASE j = k
    <3>1. rows'[k] = NewRow(k) /\ said'[k] = "nothing"
      BY <1>1
    <3>2. SaidThere(k)'
      BY <1>2, SaidStays
    <3> QED BY <2>1, <3>1, <3>2 DEF RowOk, NewRow
  <2>2. CASE j # k
    <3>1. j \in DOMAIN rows /\ rows'[j] = rows[j] /\ said'[j] = said[j]
      BY <1>1, <2>2
    <3>2. RowOk(j)
      BY <3>1 DEF FollowUpInv
    <3> QED BY <1>2, <3>1, <3>2, SaidStays DEF RowOk
  <2> QED BY <2>1, <2>2
<1>8. StoredOnce'
  BY <1>1 DEF FollowUpInv, StoredOnce
<1> QED BY <1>1, <1>2, <1>6, <1>7, <1>8

LEMMA SyncBeginStep ==
  ASSUME FollowUpInv, NEW s \in Syncs, SyncBegin(s)
  PROVE  FollowUpInv'
<1>1. /\ sync' = [sync EXCEPT ![s] = Reading(conn, Fetched, {})] /\ conn # 0
      /\ UNCHANGED <<day, inbox, conn, conns, messages, minted, rows, said, sender, replied, begun, calls, crashes>>
  BY DEF SyncBegin, MailboxFound, mailbox, tables, clock
<1>2. sync'[s] = Reading(conn, Fetched, {})
  BY <1>1 DEF FollowUpInv, FollowUpTypes
<1>3. conn \in 1..conns' /\ minted' \in Nat
  BY <1>1 DEF FollowUpInv, FollowUpTypes
<1>4. Fetched \in Seq(Mails)
  BY FetchedType DEF FollowUpInv, FollowUpTypes
<1>5. IsFiniteSet({})
  BY FS_EmptySet
<1>6. SyncOk(s)'
  BY <1>2, <1>3, <1>4, <1>5, ReadingOk
<1> QED BY <1>1, <1>6, OnlySync

LEMMA SaveLookStep ==
  ASSUME FollowUpInv, NEW s \in Syncs, SaveLook(s)
  PROVE  FollowUpInv'
<1> DEFINE m == Head(sync[s].todo)
<1> DEFINE found == RowOf(sync[s].conn, m)
<1>1. /\ sync[s].pc = "save" /\ sync[s].todo # <<>>
      /\ UNCHANGED <<day, inbox, conn, conns, messages, minted, rows, said, sender, replied, begun, calls, crashes>>
  BY DEF SaveLook, mailbox, tables, clock
<1>2. Running(s) /\ ReadOk(s)
  BY <1>1 DEF FollowUpInv, SyncOk, Idle
<1>3. m \in Mails /\ Tail(sync[s].todo) \in Seq(Mails)
  BY <1>1, <1>2, HeadAndTail DEF Running
<1>4. CASE found = {}
  <2>1. sync' = [sync EXCEPT ![s] = [@ EXCEPT !.pc = "insert"]]
    BY <1>4 DEF SaveLook
  <2>2. sync'[s] = [sync[s] EXCEPT !.pc = "insert"]
    BY <2>1 DEF FollowUpInv, FollowUpTypes
  <2>3. Running(s)' /\ ReadOk(s)'
    BY <1>1, <1>2, <2>2 DEF Running, ReadOk, SaidThere, RowKeys
  <2>4. SyncOk(s)'
    BY <2>3 DEF SyncOk
  <2>5. sync' = [sync EXCEPT ![s] = [sync[s] EXCEPT !.pc = "insert"]]
    BY <2>1
  <2> QED BY <1>1, <2>4, <2>5, OnlySync
<1>5. CASE found # {}
  <2> DEFINE read == sync[s].read \cup (found \X {m})
  <2> DEFINE new == Reading(sync[s].conn, Tail(sync[s].todo), read)
  <2>1. sync' = [sync EXCEPT ![s] = new]
    BY <1>5 DEF SaveLook
  <2>2. sync'[s] = new
    BY <2>1 DEF FollowUpInv, FollowUpTypes
  <2>3. found \subseteq 1..minted /\ \A id \in found : id \in DOMAIN messages /\ messages[id].mail = m
    BY DEF RowOf, FollowUpInv, FollowUpTypes
  <2>4. minted \in Nat /\ minted' = minted /\ conns' = conns /\ messages' = messages
    BY <1>1 DEF FollowUpInv, FollowUpTypes
  <2>5. IsFiniteSet(read)
    <3>1. IsFiniteSet(1..minted)
      BY <2>4, FS_Interval
    <3>2. IsFiniteSet(1..minted) /\ IsFiniteSet({m})
      BY <3>1, FS_Singleton
    <3>3. IsFiniteSet(found)
      BY <2>3, <3>2, FS_Subset
    <3>4. IsFiniteSet(found \X {m})
      BY <3>2, <3>3, FS_Product
    <3> QED BY <1>2, <3>4, FS_Union DEF Running
  <2>6. read \subseteq (1..minted') \X Mails
    BY <1>2, <1>3, <2>3, <2>4 DEF Running
  <2>7. \A r \in read : r[1] \in DOMAIN messages' => messages'[r[1]].mail = r[2]
    BY <1>2, <2>3, <2>4 DEF ReadOk
  <2>8. sync[s].conn \in 1..conns' /\ minted' \in Nat
    BY <1>2, <2>4 DEF Running
  <2>9. SyncOk(s)'
    <3> HIDE DEF read, m
    <3> QED BY <1>3, <2>2, <2>5, <2>6, <2>7, <2>8, ReadingOk
  <2> HIDE DEF new
  <2> QED BY <1>1, <2>1, <2>9, OnlySync
<1> QED BY <1>4, <1>5

LEMMA TrackLookStep ==
  ASSUME FollowUpInv, NEW s \in Syncs, TrackLook(s)
  PROVE  FollowUpInv'
<1> DEFINE new == IF Known(Head(sync[s].work)) THEN [sync[s] EXCEPT !.work = Tail(@)] ELSE [sync[s] EXCEPT !.pc = "add"]
<1>1. /\ sync[s].pc = "track" /\ sync[s].work # <<>> /\ sync' = [sync EXCEPT ![s] = new]
      /\ UNCHANGED <<day, inbox, conn, conns, messages, minted, rows, said, sender, replied, begun, calls, crashes>>
  BY DEF TrackLook, mailbox, tables, clock
<1>2. Running(s) /\ ReadOk(s)
  BY <1>1 DEF FollowUpInv, SyncOk, Idle
<1>3. /\ Tail(sync[s].work) \in Seq(RowKeys)
      /\ ToSet(sync[s].work) = {Head(sync[s].work)} \cup ToSet(Tail(sync[s].work))
  BY <1>1, <1>2, HeadAndTail DEF Running
<1>4. sync'[s] = new
  BY <1>1 DEF FollowUpInv, FollowUpTypes
<1>5. RowKeys' = RowKeys /\ minted' = minted /\ conns' = conns /\ sync[s].pc = "track" /\ sync[s].work # <<>>
  BY <1>1 DEF RowKeys
<1>6. ASSUME Known(Head(sync[s].work)) PROVE SyncOk(s)'
  <2>1. sync'[s] = [sync[s] EXCEPT !.work = Tail(sync[s].work)]
    BY <1>4, <1>6
  <2>2. Running(s)'
    BY <1>2, <1>3, <1>5, <2>1 DEF Running
  <2>3. /\ sync'[s].read = sync[s].read /\ sync'[s].work = Tail(sync[s].work)
        /\ ToSet(sync'[s].work) \subseteq ToSet(sync[s].work)
    BY <1>2, <1>3, <2>1 DEF Running
  <2>4. Found(sync[s].read) \subseteq DOMAIN rows \cup ToSet(sync'[s].work)
    BY <1>1, <1>2, <1>3, <1>6, <2>3 DEF ReadOk, Known
  <2>5. ReadOk(s)'
    BY <1>1, <1>2, <2>3, <2>4 DEF ReadOk, SaidThere, RowKeys
  <2> QED BY <2>2, <2>5 DEF SyncOk
<1>7. ASSUME ~Known(Head(sync[s].work)) PROVE SyncOk(s)'
  <2>1. sync'[s] = [sync[s] EXCEPT !.pc = "add"]
    BY <1>4, <1>7
  <2>2. Running(s)'
    BY <1>2, <1>5, <2>1 DEF Running
  <2>3. sync'[s].read = sync[s].read /\ sync'[s].work = sync[s].work
    BY <1>2, <2>1 DEF Running
  <2>4. ReadOk(s)'
    BY <1>1, <1>2, <2>3 DEF ReadOk, SaidThere, RowKeys
  <2> QED BY <2>2, <2>4 DEF SyncOk
<1>8. SyncOk(s)'
  <2>1. Known(Head(sync[s].work)) \/ ~Known(Head(sync[s].work))
    OBVIOUS
  <2> QED BY <1>6, <1>7, <2>1
<1> HIDE DEF new
<1> QED BY <1>1, <1>8, OnlySync

LEMMA SyncEndStep ==
  ASSUME FollowUpInv, NEW s \in Syncs, Abort(s),
         UNCHANGED <<day, inbox, conn, conns, messages, minted, rows, said, sender, replied, begun, calls, crashes>>
  PROVE  FollowUpInv'
<1>1. sync' = [sync EXCEPT ![s] = Idle] /\ sync'[s] = Idle
  BY DEF Abort, FollowUpInv, FollowUpTypes
<1>2. SyncOk(s)'
  BY <1>1 DEF SyncOk
<1> QED BY <1>1, <1>2, OnlySync

LEMMA SaveInsertStep ==
  ASSUME FollowUpInv, NEW s \in Syncs, SaveInsert(s)
  PROVE  FollowUpInv'
<1> DEFINE m == Head(sync[s].todo)
<1> DEFINE row == [conn |-> sync[s].conn, mail |-> m]
<1>1. /\ sync[s].pc = "insert" /\ minted < MaxRows
      /\ UNCHANGED <<day, inbox, conn, conns, rows, said, sender, replied, begun, calls, crashes>>
  BY DEF SaveInsert, mailbox, clock
<1>2. Running(s) /\ ReadOk(s)
  BY <1>1 DEF FollowUpInv, SyncOk, Idle
<1>3. m \in Mails /\ Tail(sync[s].todo) \in Seq(Mails)
  BY <1>1, <1>2, HeadAndTail DEF Running
<1>4. minted \in Nat /\ MaxRows \in Nat /\ conns \in Nat
  BY FollowUpsAssumption DEF FollowUpInv, FollowUpTypes
<1>5. CASE Abort(s) /\ UNCHANGED <<messages, minted>>
  BY <1>1, <1>5, SyncEndStep
<1>6. ASSUME RowOf(sync[s].conn, m) = {}, minted' = minted + 1,
             messages' = [id \in DOMAIN messages \cup {minted + 1} |-> IF id = minted + 1 THEN row ELSE messages[id]],
             sync' = [sync EXCEPT ![s] = Reading(@.conn, Tail(@.todo), @.read \cup {<<minted + 1, m>>})]
      PROVE  FollowUpInv'
  <2>1. PICK i : i = minted + 1
    OBVIOUS
  <2>2. i \in Nat /\ i \in 1..MaxRows /\ i \notin 1..minted /\ minted' = i /\ minted <= i /\ 1..minted \subseteq 1..i
        /\ i \in 1..i
    BY <1>1, <1>4, <1>6, <2>1
  <2> DEFINE read == sync[s].read \cup {<<i, m>>}
  <2> DEFINE new == Reading(sync[s].conn, Tail(sync[s].todo), read)
  <2>3. sync' = [sync EXCEPT ![s] = new] /\ sync'[s] = new
    BY <1>6, <2>1 DEF FollowUpInv, FollowUpTypes
  <2>4. /\ DOMAIN messages' = DOMAIN messages \cup {i} /\ messages'[i] = row
        /\ \A id \in DOMAIN messages : id \in 1..minted /\ messages'[id] = messages[id]
    BY <1>6, <2>1, <2>2 DEF FollowUpInv, FollowUpTypes
  <2>5. row \in [conn : 1..conns, mail : Mails]
    BY <1>2, <1>3 DEF Running
  <2>6. Kept
    BY <1>1, <1>4, <2>2, <2>4 DEF Kept
  <2>7. FollowUpTypes'
    <3>1. messages' \in [DOMAIN messages' -> [conn : 1..conns, mail : Mails]]
      <4> HIDE DEF row
      <4> QED BY <1>6, <2>1, <2>4, <2>5 DEF FollowUpInv, FollowUpTypes
    <3>2. DOMAIN messages' \subseteq 1..minted' /\ replied' \subseteq 1..minted' /\ minted' \in 0..MaxRows
      BY <1>1, <2>2, <2>4 DEF FollowUpInv, FollowUpTypes
    <3>3. DOMAIN rows' \subseteq RowKeys'
      BY <1>1, <2>2 DEF FollowUpInv, FollowUpTypes, RowKeys
    <3>4. sync' = [u \in Syncs |-> sync'[u]]
      BY <2>3 DEF FollowUpInv, FollowUpTypes
    <3> QED BY <1>1, <3>1, <3>2, <3>3, <3>4 DEF FollowUpInv, FollowUpTypes
  <2>8. StoredOnce'
    <3>1. \A id \in DOMAIN messages : messages[id] # row
      BY <1>6 DEF RowOf
    <3> HIDE DEF row
    <3> QED BY <2>4, <3>1 DEF FollowUpInv, StoredOnce
  <2>9. SentOk' /\ SenderOk'
    BY <1>1, <2>6, SentStays, SenderStays DEF FollowUpInv, SenderOk
  <2>10. \A k \in DOMAIN rows' : RowOk(k)'
    BY <1>1, <2>6, RowsStay
  <2>11. SyncOk(s)'
    <3>1. sync[s].conn \in 1..conns' /\ minted' \in Nat
      BY <1>1, <1>2, <2>2 DEF Running
    <3>2. read \subseteq (1..minted') \X Mails /\ IsFiniteSet(read)
      <4>1. IsFiniteSet(read)
        BY <1>2, FS_AddElement DEF Running
      <4> QED BY <1>2, <1>3, <2>2, <4>1 DEF Running
    <3>3. \A r \in read : r[1] \in DOMAIN messages' => messages'[r[1]].mail = r[2]
      <4>1. \A r \in sync[s].read : r[1] \in 1..minted
        BY <1>2 DEF Running
      <4>2. \A r \in sync[s].read : r[1] \in DOMAIN messages' => messages'[r[1]].mail = r[2]
        BY <1>2, <2>2, <2>4, <4>1 DEF ReadOk
      <4> QED BY <2>4, <4>2
    <3> HIDE DEF read, m
    <3> QED BY <1>3, <2>3, <3>1, <3>2, <3>3, ReadingOk
  <2>12. ASSUME NEW u \in Syncs
         PROVE  SyncOk(u)'
    <3>1. CASE u = s
      BY <2>11, <3>1
    <3>2. CASE u # s
      <4>1. sync'[u] = sync[u]
        BY <2>3, <3>2 DEF FollowUpInv, FollowUpTypes
      <4> QED BY <2>6, <4>1, SyncStays DEF FollowUpInv
    <3> QED BY <3>1, <3>2
  <2> QED BY <2>7, <2>8, <2>9, <2>10, <2>12 DEF FollowUpInv
<1> QED BY <1>5, <1>6 DEF SaveInsert

LEMMA TrackInsertStep ==
  ASSUME FollowUpInv, NEW s \in Syncs, TrackInsert(s)
  PROVE  FollowUpInv'
<1> DEFINE k == Head(sync[s].work)
<1>1. sync[s].pc = "add" /\ UNCHANGED <<day, inbox, conn, conns, sender, replied, begun, calls, crashes>>
  BY DEF TrackInsert, mailbox, clock
<1>2. Running(s) /\ ReadOk(s)
  BY <1>1 DEF FollowUpInv, SyncOk, Idle
<1>3. /\ Tail(sync[s].work) \in Seq(RowKeys) /\ k \in ToSet(sync[s].work)
      /\ ToSet(sync[s].work) = {k} \cup ToSet(Tail(sync[s].work))
  BY <1>1, <1>2, HeadAndTail DEF Running
<1>4. SaidThere(k) /\ ~OwnPromise(k)
  BY <1>2, <1>3 DEF ReadOk
<1>5. CASE Abort(s) /\ UNCHANGED tables
  BY <1>1, <1>5, SyncEndStep DEF tables
<1>6. ASSUME MayWrite(k), Write(k), sync' = [sync EXCEPT ![s].pc = "track", ![s].work = Tail(@)]
      PROVE  FollowUpInv'
  <2>1. sync'[s] = [sync[s] EXCEPT !.pc = "track", !.work = Tail(sync[s].work)]
    BY <1>6 DEF FollowUpInv, FollowUpTypes
  <2>2. sync' = [u \in Syncs |-> sync'[u]] /\ \A u \in Syncs : u # s => sync'[u] = sync[u]
    BY <1>6 DEF FollowUpInv, FollowUpTypes
  <2>3. k \notin DOMAIN rows /\ UNCHANGED <<messages, minted>>
    BY <1>6 DEF MayWrite, Write
  <2> HIDE DEF k
  <2>4. /\ Kept /\ StoredOnce' /\ DOMAIN rows' = DOMAIN rows \cup {k}
        /\ \A j \in DOMAIN rows' : RowOk(j)'
        /\ FollowUpTypes'
    BY <1>1, <1>4, <1>6, <2>2, <2>3, WriteStep
  <2>5. SenderOk'
    <3>1. sender # Idle /\ sender.pc = "add" => Head(sender.work) \notin DOMAIN rows'
      <4> SUFFICES ASSUME sender # Idle, sender.pc = "add"
                   PROVE  Head(sender.work) \notin DOMAIN rows'
        OBVIOUS
      <4>1. sender.work \in Seq(RowKeys) /\ sender.work # <<>> /\ Head(sender.work) \notin DOMAIN rows
            /\ \A j \in ToSet(sender.work) : OwnPromise(j)
        BY DEF FollowUpInv, SenderOk
      <4>2. OwnPromise(Head(sender.work))
        BY <4>1, HeadAndTail
      <4> QED BY <1>4, <2>4, <4>1, <4>2
    <3> QED BY <1>1, <2>4, <3>1, SenderStays DEF FollowUpInv
  <2>6. SentOk'
    BY <1>1, <2>4, SentStays DEF FollowUpInv
  <2>7. SyncOk(s)'
    <3>1. RowKeys' = RowKeys /\ minted' = minted /\ conns' = conns
      BY <1>1, <2>3 DEF RowKeys
    <3>2. Running(s)'
      BY <1>2, <1>3, <2>1, <3>1 DEF Running
    <3>3. /\ sync'[s].read = sync[s].read /\ sync'[s].work = Tail(sync[s].work)
          /\ ToSet(sync'[s].work) \subseteq ToSet(sync[s].work)
      BY <1>2, <1>3, <2>1 DEF Running
    <3>4. Found(sync[s].read) \subseteq DOMAIN rows' \cup ToSet(sync'[s].work)
      BY <1>1, <1>2, <1>3, <2>4, <3>3 DEF ReadOk
    <3>5. \A j \in ToSet(sync'[s].work) : SaidThere(j)' /\ ~OwnPromise(j)
      BY <1>2, <2>4, <3>3, SaidStays DEF ReadOk
    <3>6. ReadOk(s)'
      BY <1>2, <2>3, <3>3, <3>4, <3>5 DEF ReadOk
    <3> QED BY <3>2, <3>6 DEF SyncOk
  <2>8. ASSUME NEW u \in Syncs
        PROVE  SyncOk(u)'
    <3>1. CASE u # s
      BY <2>2, <2>4, <3>1, SyncStays DEF FollowUpInv
    <3> QED BY <2>7, <3>1
  <2> QED BY <2>4, <2>5, <2>6, <2>8 DEF FollowUpInv
<1> QED BY <1>5, <1>6 DEF TrackInsert

\* A step of the approval that leaves the tables and the syncs alone.
LEMMA OnlySender ==
  ASSUME FollowUpInv, SenderOk', SentOk', replied' \subseteq 1..minted,
         UNCHANGED <<day, inbox, conn, conns, messages, minted, rows, said, sync, begun, calls, crashes>>
  PROVE  FollowUpInv'
<1>1. FollowUpTypes'
  BY DEF FollowUpInv, FollowUpTypes, RowKeys
<1>2. Kept
  BY StaysStored DEF FollowUpInv, FollowUpTypes
<1>3. \A k \in DOMAIN rows' : RowOk(k)'
  BY <1>2, RowsStay
<1>4. \A s \in Syncs : SyncOk(s)'
  BY <1>2, SyncStays DEF FollowUpInv
<1> QED BY <1>1, <1>3, <1>4 DEF FollowUpInv, StoredOnce

\* The reply is out: what it promises is in the approval's hands.
LEMMA SentStep ==
  ASSUME FollowUpInv, NEW id \in DOMAIN messages, Sent(id)
  PROVE  FollowUpInv'
<1> DEFINE m == messages[id].mail
<1> DEFINE S == {<<id>> \o f : f \in Extract(Reply[m], "ours", FALSE)}
<1>1. /\ sender = Idle /\ replied' = replied \cup {id} /\ sender' = [pc |-> "track", id |-> id, work |-> SetToSeq(S)]
      /\ UNCHANGED <<day, inbox, conn, conns, messages, minted, rows, said, sync, begun, calls, crashes>>
  BY DEF Sent, mailbox, tables, clock
<1>2. m \in Mails /\ id \in 1..minted /\ replied \subseteq 1..minted
  BY DEF FollowUpInv, FollowUpTypes
<1>3. IsFiniteSet(S)
  <2>1. IsFiniteSet(Reply[m])
    BY <1>2, FollowUpsAssumption
  <2>2. IsFiniteSet(Extract(Reply[m], "ours", FALSE))
    BY <2>1, FiniteExtract
  <2> QED BY <2>2, FiniteKeys
<1>4. SetToSeq(S) \in Seq(S) /\ ToSet(SetToSeq(S)) = S
  <2> HIDE DEF S
  <2> QED BY <1>3, SeqOfSet
<1>5. ASSUME NEW k \in S
      PROVE  SaidThere(k) /\ OwnPromise(k) /\ k[1] = id /\ k \in RowKeys
  <2>1. PICK f \in Extract(Reply[m], "ours", FALSE) : k = <<id>> \o f
    OBVIOUS
  <2>2. /\ f[1] = "ours" /\ f[2] \in Reply[m] /\ LooksLikeACommitment(f[2])
        /\ k = <<id, f[1], f[2]>> /\ <<m, f[1], f[2]>> \in Promises
    BY <1>2, <2>1, SentKeys
  <2>3. f[2] \in Sentences
    BY <1>2, <2>2 DEF Sentences
  <2>4. k \in RowKeys /\ k[1] = id /\ k[2] = "ours" /\ k[3] = f[2]
    BY <1>2, <2>2, <2>3 DEF RowKeys
  <2> QED BY <2>2, <2>4 DEF SaidThere, OwnPromise
<1>6. \A x \in Reply[m] : LooksLikeACommitment(x) => <<id, "ours", x>> \in S
  <2>1. ASSUME NEW x \in Reply[m], LooksLikeACommitment(x)
        PROVE  <<id, "ours", x>> \in S
    <3>1. <<"ours", x>> \in Extract(Reply[m], "ours", FALSE)
      BY <2>1 DEF Extract
    <3>2. <<id>> \o <<"ours", x>> = <<id, "ours", x>>
      BY KeyOf
    <3> QED BY <3>1, <3>2
  <2> QED BY <2>1
<1> HIDE DEF S
<1>7. SenderOk'
  <2>1. S \subseteq RowKeys
    BY <1>5
  <2>2. SetToSeq(S) \in Seq(RowKeys) /\ RowKeys' = RowKeys
    BY <1>1, <1>4, <2>1, SeqMonotonic DEF RowKeys
  <2>3. \A k \in S : SaidThere(k)'
    BY <1>1, <1>5, <2>2 DEF SaidThere
  <2> QED BY <1>1, <1>4, <1>5, <2>2, <2>3 DEF SenderOk
<1>8. SentOk'
  <2>1. sender' # Idle /\ sender'.id = id /\ ToSet(sender'.work) = S
    BY <1>1, <1>4 DEF Idle
  <2>2. ASSUME NEW j \in replied' \cap DOMAIN messages', crashes' = 0, NEW x \in Reply[messages'[j].mail],
               LooksLikeACommitment(x)
        PROVE  <<j, "ours", x>> \in DOMAIN rows' \cup Owed(j)'
    <3>1. CASE j = id
      BY <1>1, <1>6, <2>1, <2>2, <3>1 DEF Owed
    <3>2. CASE j # id
      <4>1. <<j, "ours", x>> \in DOMAIN rows \cup Owed(j) /\ Owed(j) = {}
        BY <1>1, <2>2, <3>2 DEF FollowUpInv, SentOk, Owed
      <4> QED BY <1>1, <4>1
    <3> QED BY <3>1, <3>2
  <2> QED BY <2>2 DEF SentOk
<1>9. replied' \subseteq 1..minted
  BY <1>1, <1>2
<1> QED BY <1>1, <1>7, <1>8, <1>9, OnlySender

LEMMA OwnLookStep ==
  ASSUME FollowUpInv, OwnLook
  PROVE  FollowUpInv'
<1>1. /\ sender.pc = "track"
      /\ UNCHANGED <<day, inbox, conn, conns, messages, minted, rows, said, sync, replied, begun, calls, crashes>>
  BY DEF OwnLook, mailbox, tables, clock
<1>2. /\ sender # Idle /\ sender \in [pc : {"track", "add"}, id : replied, work : Seq(RowKeys)]
      /\ \A k \in ToSet(sender.work) : SaidThere(k) /\ OwnPromise(k) /\ k[1] = sender.id
  BY <1>1 DEF FollowUpInv, SenderOk, Idle
<1>3. RowKeys' = RowKeys /\ \A k : SaidThere(k)' <=> SaidThere(k)
  BY <1>1 DEF RowKeys, SaidThere
<1>4. replied' \subseteq 1..minted
  BY <1>1 DEF FollowUpInv, FollowUpTypes
<1>5. CASE sender.work = <<>>
  <2>1. sender' = Idle /\ \A id : Owed(id) = {}
    BY <1>5 DEF OwnLook, Owed, ToSet
  <2>2. SenderOk' /\ SentOk'
    BY <1>1, <2>1 DEF FollowUpInv, SenderOk, SentOk
  <2> QED BY <1>1, <1>4, <2>2, OnlySender
<1>6. CASE sender.work # <<>>
  <2>1. /\ Tail(sender.work) \in Seq(RowKeys)
        /\ ToSet(sender.work) = {Head(sender.work)} \cup ToSet(Tail(sender.work))
    BY <1>2, <1>6, HeadAndTail
  <2>2. ASSUME Head(sender.work) \in DOMAIN rows
        PROVE  SenderOk' /\ SentOk'
    <3>1. sender' = [sender EXCEPT !.work = Tail(sender.work)]
      BY <1>6, <2>2 DEF OwnLook, Known
    <3>2. sender' # Idle /\ sender'.id = sender.id /\ sender'.work = Tail(sender.work) /\ sender'.pc = "track"
      BY <1>1, <1>2, <3>1 DEF Idle
    <3>3. SenderOk'
      BY <1>1, <1>2, <1>3, <2>1, <3>1, <3>2 DEF SenderOk
    <3>4. \A id : Owed(id) \subseteq DOMAIN rows \cup Owed(id)'
      BY <2>1, <2>2, <3>2 DEF Owed
    <3> QED BY <1>1, <3>3, <3>4 DEF FollowUpInv, SentOk
  <2>3. ASSUME Head(sender.work) \notin DOMAIN rows
        PROVE  SenderOk' /\ SentOk'
    <3>1. sender' = [sender EXCEPT !.pc = "add"]
      BY <1>6, <2>3 DEF OwnLook, Known
    <3>2. sender' # Idle /\ sender'.id = sender.id /\ sender'.work = sender.work /\ sender'.pc = "add"
      BY <1>1, <1>2, <3>1 DEF Idle
    <3>3. SenderOk'
      BY <1>1, <1>2, <1>3, <1>6, <2>3, <3>1, <3>2 DEF SenderOk
    <3>4. \A id : Owed(id)' = Owed(id)
      BY <1>2, <3>2 DEF Owed
    <3> QED BY <1>1, <3>3, <3>4 DEF FollowUpInv, SentOk
  <2> QED BY <1>1, <1>4, <2>2, <2>3, OnlySender
<1> QED BY <1>5, <1>6

LEMMA OwnInsertStep ==
  ASSUME FollowUpInv, OwnInsert
  PROVE  FollowUpInv'
<1> DEFINE k == Head(sender.work)
<1>1. sender.pc = "add" /\ UNCHANGED <<day, inbox, conn, conns, sync, replied, begun, calls, crashes>>
  BY DEF OwnInsert, mailbox, clock
<1>2. /\ sender # Idle /\ sender \in [pc : {"track", "add"}, id : replied, work : Seq(RowKeys)]
      /\ \A j \in ToSet(sender.work) : SaidThere(j) /\ OwnPromise(j) /\ j[1] = sender.id
      /\ sender.work # <<>> /\ k \notin DOMAIN rows
  BY <1>1 DEF FollowUpInv, SenderOk, Idle
<1>3. /\ Tail(sender.work) \in Seq(RowKeys) /\ k \in ToSet(sender.work)
      /\ ToSet(sender.work) = {k} \cup ToSet(Tail(sender.work))
  BY <1>2, HeadAndTail
<1>4. replied' \subseteq 1..minted
  BY <1>1 DEF FollowUpInv, FollowUpTypes
<1>5. ASSUME ~MayWrite(k), sender' = Idle, UNCHANGED tables
      PROVE  FollowUpInv'
  <2>1. sender.id \notin DOMAIN messages
    BY <1>2, <1>3, <1>5 DEF MayWrite
  <2>2. SentOk'
    BY <1>1, <1>5, <2>1 DEF FollowUpInv, SentOk, Owed, tables
  <2>3. SenderOk'
    BY <1>5 DEF SenderOk
  <2> QED BY <1>1, <1>4, <1>5, <2>2, <2>3, OnlySender DEF tables
<1>6. ASSUME MayWrite(k), Write(k), sender' = [sender EXCEPT !.pc = "track", !.work = Tail(@)]
      PROVE  FollowUpInv'
  <2>1. sender' # Idle /\ sender'.id = sender.id /\ sender'.work = Tail(sender.work) /\ sender'.pc = "track"
    BY <1>2, <1>6 DEF Idle
  <2>2. sync' = [u \in Syncs |-> sync'[u]] /\ UNCHANGED <<messages, minted>>
    BY <1>1, <1>6 DEF FollowUpInv, FollowUpTypes, Write
  <2>3. SaidThere(k)
    BY <1>2, <1>3
  <2> HIDE DEF k
  <2>4. /\ Kept /\ StoredOnce' /\ DOMAIN rows' = DOMAIN rows \cup {k}
        /\ \A j \in DOMAIN rows' : RowOk(j)'
        /\ FollowUpTypes'
    BY <1>1, <1>2, <1>6, <2>2, <2>3, WriteStep
  <2>5. \A s \in Syncs : SyncOk(s)'
    BY <1>1, <2>4, SyncStays DEF FollowUpInv
  <2>6. SenderOk'
    <3>1. \A j \in ToSet(sender'.work) : SaidThere(j)' /\ OwnPromise(j) /\ j[1] = sender'.id
      BY <1>2, <1>3, <2>1, <2>4, SaidStays
    <3>2. sender' \in [pc : {"track", "add"}, id : replied', work : Seq(RowKeys')]
      <4>1. RowKeys' = RowKeys /\ replied' = replied
        BY <1>1, <2>2 DEF RowKeys
      <4> QED BY <1>2, <1>3, <1>6, <4>1
    <3> QED BY <2>1, <3>1, <3>2 DEF SenderOk
  <2>7. SentOk'
    <3>1. \A id : Owed(id) \subseteq DOMAIN rows' \cup Owed(id)'
      BY <1>3, <2>1, <2>4 DEF Owed
    <3> QED BY <1>1, <2>2, <2>4, <3>1 DEF FollowUpInv, SentOk
  <2> QED BY <2>4, <2>5, <2>6, <2>7 DEF FollowUpInv
<1> QED BY <1>5, <1>6 DEF OwnInsert

\* One step keeps the invariant.
LEMMA FollowUpStep ==
  ASSUME FollowUpInv, [Next]_vars
  PROVE  FollowUpInv'
<1>1. CASE Tick \/ (\E m \in Mails : Arrive(m)) \/ Connect
  BY <1>1, OutsideSteps
<1>2. CASE Disconnect
  BY <1>2, DisconnectStep
<1>3. CASE \E k \in DOMAIN rows, status \in {"open", "done", "dropped"} : Resolve(k, status)
  BY <1>3, ResolveStep
<1>4. CASE \E id \in DOMAIN messages : Sent(id)
  BY <1>4, SentStep
<1>5. CASE \E s \in Syncs : SyncBegin(s)
  BY <1>5, SyncBeginStep
<1>6. CASE \E s \in Syncs : SaveLook(s)
  BY <1>6, SaveLookStep
<1>7. CASE \E s \in Syncs : SaveInsert(s)
  BY <1>7, SaveInsertStep
<1>8. CASE \E s \in Syncs : TrackLook(s)
  BY <1>8, TrackLookStep
<1>9. CASE \E s \in Syncs : TrackInsert(s)
  BY <1>9, TrackInsertStep
<1>10. CASE \E s \in Syncs : SyncEnd(s)
  BY <1>10, SyncEndStep DEF SyncEnd, mailbox, tables, clock
<1>11. CASE OwnLook
  BY <1>11, OwnLookStep
<1>12. CASE OwnInsert
  BY <1>12, OwnInsertStep
<1>13. CASE Crash
  BY <1>13, CrashStep
<1>14. CASE UNCHANGED vars
  <2>1. UNCHANGED <<day, inbox, conn, conns, messages, minted, rows, said, sync, sender, replied, begun, calls, crashes>>
    BY <1>14 DEF vars
  <2>2. FollowUpTypes'
    BY <2>1 DEF FollowUpInv, FollowUpTypes, RowKeys
  <2>3. Kept
    BY <2>1, StaysStored DEF FollowUpInv, FollowUpTypes
  <2>4. SentOk' /\ SenderOk' /\ StoredOnce'
    BY <2>1, <2>3, SentStays, SenderStays DEF FollowUpInv, SenderOk, StoredOnce
  <2>5. \A k \in DOMAIN rows' : RowOk(k)'
    BY <2>1, <2>3, RowsStay
  <2>6. \A s \in Syncs : SyncOk(s)'
    BY <2>1, <2>3, SyncStays DEF FollowUpInv
  <2> QED BY <2>2, <2>4, <2>5, <2>6 DEF FollowUpInv
<1> QED BY <1>1, <1>2, <1>3, <1>4, <1>5, <1>6, <1>7, <1>8, <1>9, <1>10, <1>11, <1>12, <1>13, <1>14
        DEF Next, People, Step

\* The tables of messages and follow-ups agree with one another and with what
\* every running sync and approval remembers of them, in every state
\* (ProcessedMessageRepository.upsert, CommitmentRepository.upsert).
THEOREM FollowUpsSafe == Spec => []FollowUpInv
<1>1. Init => FollowUpInv
  BY FollowUpStart
<1>2. FollowUpInv /\ [Next]_vars => FollowUpInv'
  BY FollowUpStep
<1> QED BY <1>1, <1>2, PTL DEF Spec

----------------------------------------------------------------------------
(* What is late.                                                           *)

LEMMA OverdueOnPage ==
  ASSUME FollowUpInv
  PROVE  OverdueIsShown
<1> SUFFICES ASSUME NEW direction \in {"both", "ours", "theirs"},
                    Cardinality({k \in DOMAIN rows : Overdue(k) /\ (direction = "both" \/ k[2] = direction)}) <= PageSize,
                    NEW k \in DOMAIN rows, Overdue(k), direction = "both" \/ k[2] = direction
             PROVE  k \in Waiting(direction, "open")
  BY DEF OverdueIsShown
<1> DEFINE late == {j \in DOMAIN rows : Overdue(j) /\ (direction = "both" \/ j[2] = direction)}
<1> DEFINE directions == IF direction = "both" THEN {"ours", "theirs"} ELSE {direction}
<1> DEFINE chosen == {j \in DOMAIN rows : rows[j].status = "open" /\ j[2] \in directions}
<1> DEFINE before == {j \in chosen : Sooner(j, k)}
<1>1. /\ IsFiniteSet(DOMAIN rows) /\ day \in Int /\ begun \in Int
      /\ \A j \in DOMAIN rows : rows[j].due \in Int /\ rows[j].read \in Int /\ j[2] \in {"ours", "theirs"}
  BY DaysOk, SMTT(30) DEF FollowUpInv, FollowUpTypes, RowKeys
<1>2. before \subseteq late \ {k}
  <2>1. ASSUME NEW j \in before
        PROVE  j \in late /\ j # k
    <3>1. /\ j \in DOMAIN rows /\ rows[j].status = "open" /\ (direction = "both" \/ j[2] = direction)
          /\ rows[j].due \in Int /\ rows[k].due \in Int /\ rows[j].read \in Int /\ rows[k].read \in Int
      BY <1>1
    <3>2. j # k
      BY <3>1 DEF Sooner
    <3>3. rows[j].due # NoDate /\ rows[j].due < day
      BY <1>1, <3>1 DEF Sooner, Overdue
    <3> QED BY <3>1, <3>2, <3>3 DEF Overdue
  <2> QED BY <2>1
<1>3. IsFiniteSet(late) /\ k \in late
  BY <1>1, FS_Subset
<1> HIDE DEF late, before
<1>4. Cardinality(late \ {k}) = Cardinality(late) - 1 /\ IsFiniteSet(late \ {k})
  BY <1>3, FS_RemoveElement
<1>5. Cardinality(before) <= Cardinality(late \ {k}) /\ IsFiniteSet(before)
  BY <1>2, <1>4, FS_Subset
<1>6. Cardinality(before) \in Nat /\ Cardinality(late) \in Nat /\ PageSize \in Nat
  BY <1>3, <1>5, FS_CardinalityType, FollowUpsAssumption
<1>7. Cardinality(late) <= PageSize
  BY DEF late
<1>8. Cardinality(before) < PageSize
  BY <1>4, <1>5, <1>6, <1>7
<1>9. k \in chosen
  BY <1>1 DEF Overdue
<1> QED BY <1>8, <1>9 DEF before, Waiting, Listed

\* The dates of the rows stay, and so does a status nobody speaks of.
LEMMA LateStays ==
  ASSUME FollowUpInv, [Next]_vars, NEW k \in DOMAIN rows, Overdue(k)
  PROVE  k \in DOMAIN rows' /\ (Overdue(k)' \/ said'[k] # said[k])
<1>1. /\ day \in Int /\ rows[k].due \in Int /\ rows[k].status = "open" /\ rows[k].due # NoDate /\ rows[k].due < day
      /\ said[k] \in {"nothing", "open"}
  BY DaysOk DEF FollowUpInv, FollowUpTypes, Overdue, RowOk
<1>2. CASE UNCHANGED <<rows, said>>
  <2>1. day' = day \/ day' = day + 1
    BY DEF Next, vars, Tick, Arrive, Connect, Disconnect, People, Resolve, Sent, Step, SyncBegin, SaveLook, SaveInsert,
           TrackLook, TrackInsert, SyncEnd, OwnLook, OwnInsert, Crash, clock
  <2>2. day' \in Int /\ day <= day' /\ rows' = rows
    BY <1>1, <1>2, <2>1
  <2> QED BY <1>1, <2>2 DEF Overdue
<1>3. ASSUME NEW j, j \notin DOMAIN rows, Write(j), day' = day
      PROVE  k \in DOMAIN rows' /\ Overdue(k)'
  <2>1. rows'[k] = rows[k] /\ k \in DOMAIN rows'
    BY <1>3 DEF Write
  <2> QED BY <1>1, <1>3, <2>1 DEF Overdue
<1>4. ASSUME NEW j \in DOMAIN rows, NEW status \in {"open", "done", "dropped"}, Resolve(j, status)
      PROVE  k \in DOMAIN rows' /\ (Overdue(k)' \/ said'[k] # said[k])
  <2>1. /\ rows' = [rows EXCEPT ![j].status = status] /\ said' = [said EXCEPT ![j] = status] /\ day' = day
        /\ DOMAIN said = DOMAIN rows
    BY <1>4 DEF Resolve, SetStatus, FollowUpInv, FollowUpTypes
  <2>2. rows[k] \in [status : {"open", "done", "dropped"}, due : Int, read : begun..day]
    BY DEF FollowUpInv, FollowUpTypes
  <2>3. k \in DOMAIN rows' /\ rows'[k].due = rows[k].due /\ (k # j => rows'[k] = rows[k])
        /\ (k = j => rows'[k].status = status /\ said'[k] = status)
    BY <2>1, <2>2
  <2> QED BY <1>1, <2>1, <2>3 DEF Overdue
<1>5. \/ UNCHANGED <<rows, said>>
      \/ \E j : j \notin DOMAIN rows /\ Write(j) /\ day' = day
      \/ \E j \in DOMAIN rows, status \in {"open", "done", "dropped"} : Resolve(j, status)
  BY DEF Next, vars, Tick, Arrive, Connect, Disconnect, People, Sent, Step, SyncBegin, SaveLook, SaveInsert,
         TrackLook, TrackInsert, SyncEnd, OwnLook, OwnInsert, Crash, clock, tables, MayWrite, Abort
<1> QED BY <1>2, <1>3, <1>4, <1>5

\* What is past its date is on the page as long as a page holds it, and stays
\* so until somebody says something of it: no sync, approval or restart moves
\* its day, takes it away or lets newer promises push it off
\* (list_for_org, _record_commitments).
THEOREM LateShown == Spec => LateIsShown
<1>1. FollowUpInv => OverdueIsShown
  BY OverdueOnPage
<1>2. FollowUpInv /\ [Next]_vars => [\A k \in DOMAIN rows : Overdue(k) => k \in DOMAIN rows' /\ (Overdue(k)' \/ said'[k] # said[k])]_vars
  BY LateStays
<1> QED BY <1>1, <1>2, FollowUpsSafe, PTL DEF Spec, LateIsShown, LateStaysLate

----------------------------------------------------------------------------
(* The list says what was read and sent.                                   *)

LEMMA DatesAreRight ==
  ASSUME FollowUpInv
  PROVE  DueIsTheNamedDay
<1>1. Horizon \subseteq Days
  <2>1. Horizon = 693..799
    BY DEF Horizon, DayOf, DaysBefore, Leap
  <2> QED BY <2>1, DaysAreNumbers
<1>2. RightDays
  BY <1>1, DueIsRight DEF RightDays
<1>3. ASSUME NEW k \in DOMAIN rows, NEW p \in Dates, k[3].words = {p}
      PROVE  RightDay(p, rows[k].read, rows[k].due)
  <2>1. RowOk(k) /\ rows[k].read \in begun..day
    BY DEF FollowUpInv, FollowUpTypes
  <2>2. rows[k].due = ParseDue({p}, rows[k].read)
    BY <1>3, <2>1 DEF RowOk
  <2>3. begun \in Days /\ day \in Days
    <3>1. begun \in Days
      BY FollowUpsAssumption DEF FollowUpInv, FollowUpTypes
    <3> QED BY <3>1, DaysOk DEF FollowUpInv
  <2>4. rows[k].read \in Days
    <3>1. begun \in 0..1095 /\ day \in 0..1095
      BY <2>3, DaysAreNumbers
    <3>2. begun..day \subseteq 0..1095
      BY <3>1
    <3> QED BY <2>1, <3>2, DaysAreNumbers
  <2> QED BY <2>2, <2>4, DueIsRight
<1> QED BY <1>2, <1>3 DEF DueIsTheNamedDay

\* A sync that has nothing left in its hands has listed what it read.
LEMMA AllReadIsTracked ==
  ASSUME FollowUpInv
  PROVE  ReadIsTracked
<1> SUFFICES ASSUME NEW s \in Syncs, sync[s].pc = "track", sync[s].work = <<>>,
                    NEW r \in sync[s].read, r[2] \notin Spam, NEW x \in Body[r[2]], Plain(x)
             PROVE  \E d \in {"ours", "theirs"} : <<r[1], d, x>> \in DOMAIN rows
  BY DEF ReadIsTracked
<1>1. Running(s) /\ ReadOk(s)
  BY DEF FollowUpInv, SyncOk, Idle
<1>2. Found(sync[s].read) \subseteq DOMAIN rows
  BY <1>1 DEF ReadOk, ToSet
<1>3. PICK d \in {"ours", "theirs"} : <<d, x>> \in Extract(Body[r[2]], "theirs", TRUE)
  <2>1. CASE LooksLikeACommitment(x)
    <3>1. <<"theirs", x>> \in Extract(Body[r[2]], "theirs", TRUE)
      BY <2>1 DEF Extract
    <3> QED BY <3>1
  <2>2. CASE ~LooksLikeACommitment(x)
    <3>1. IsRequest(x)
      BY <2>2 DEF Plain, LooksLikeACommitment, IsRequest
    <3>2. <<"ours", x>> \in Extract(Body[r[2]], "theirs", TRUE)
      BY <2>2, <3>1 DEF Extract
    <3> QED BY <3>2
  <2> QED BY <2>1, <2>2
<1>4. <<r[1]>> \o <<d, x>> = <<r[1], d, x>>
  BY KeyOf
<1>5. <<r[1]>> \o <<d, x>> \in Found(sync[s].read)
  <2> DEFINE keys(q) == {<<q[1]>> \o f : f \in Extract(Body[q[2]], "theirs", TRUE)}
  <2>1. <<r[1]>> \o <<d, x>> \in keys(r)
    BY <1>3
  <2>2. Found(sync[s].read) = UNION {keys(q) : q \in {q \in sync[s].read : q[2] \notin Spam}}
    BY DEF Found
  <2> HIDE DEF keys
  <2> QED BY <2>1, <2>2
<1> QED BY <1>2, <1>4, <1>5

LEMMA AllSentIsTracked ==
  ASSUME FollowUpInv
  PROVE  SentIsTracked
<1> SUFFICES ASSUME NEW id \in replied \cap DOMAIN messages, crashes = 0, ~(sender # Idle /\ sender.id = id),
                    NEW x \in Reply[messages[id].mail], Plain(x), "request" \notin x.marks
             PROVE  <<id, "ours", x>> \in DOMAIN rows
  BY DEF SentIsTracked
<1>1. LooksLikeACommitment(x)
  BY DEF Plain, LooksLikeACommitment
<1>2. Owed(id) = {}
  BY DEF Owed
<1> QED BY <1>1, <1>2 DEF FollowUpInv, SentOk

LEMMA TypesHold ==
  ASSUME FollowUpInv
  PROVE  TypeOK
<1>1. 1..minted \subseteq 1..MaxRows /\ MaxRows \in Nat /\ MaxConns \in Nat
  <2>1. MaxRows \in Nat /\ MaxConns \in Nat /\ minted \in 0..MaxRows
    BY FollowUpsAssumption DEF FollowUpInv, FollowUpTypes
  <2> QED BY <2>1
<1>2. DOMAIN rows \subseteq Keys
  BY <1>1 DEF FollowUpInv, FollowUpTypes, Keys, RowKeys, Sentences
<1>3. \A s \in Syncs : sync[s] # Idle => sync[s].read \subseteq (1..minted) \X Mails
  BY DEF FollowUpInv, SyncOk, Running
<1> QED BY <1>2, <1>3 DEF FollowUpInv, FollowUpTypes, TypeOK

\* The list says what the mail and the replies said: what a finished sync read
\* and an approval sent is listed, whatever the other syncs did meanwhile, and
\* each row has the first day its words name, counted from its reading, over
\* the ends of months and years and leap days (_record_commitments,
\* _record_own_commitments, parse_due).
THEOREM ListTrue == Spec => []ListIsTrue
<1>1. FollowUpInv => ListIsTrue
  BY TypesHold, AllReadIsTracked, AllSentIsTracked, DatesAreRight DEF ListIsTrue
<1> QED BY <1>1, FollowUpsSafe, PTL

----------------------------------------------------------------------------
(* With foreign keys, the rows implement the list the page promises.       *)

LEMMA EnforcedStep ==
  ASSUME ForeignKeys, FollowUpInv, Enforced, [Next]_vars
  PROVE  Enforced'
<1>1. CASE UNCHANGED <<conn, messages>> /\ DOMAIN rows' = DOMAIN rows
  BY <1>1 DEF Enforced, Referred
<1>2. CASE Connect
  <2>1. \A id \in DOMAIN messages : messages[id].conn \in 1..conns /\ messages[id].conn = 0 /\ conns \in Nat
    BY <1>2 DEF Connect, Enforced, FollowUpInv, FollowUpTypes
  <2>2. ASSUME NEW id \in DOMAIN messages
        PROVE  FALSE
    <3>1. messages[id].conn \in Nat /\ messages[id].conn > 0 /\ messages[id].conn = 0
      BY <2>1
    <3> QED BY <3>1
  <2> QED BY <1>2, <2>2 DEF Connect, Enforced, Referred, tables
<1>3. CASE Disconnect
  <2>1. OfConnection(conn) = DOMAIN messages
    BY DEF Enforced, OfConnection
  <2>2. Referred = {} /\ DOMAIN messages' = {} /\ rows' = rows
    BY <1>3, <2>1 DEF Disconnect, Enforced
  <2> QED BY <2>2 DEF Enforced, Referred
<1>4. ASSUME NEW s \in Syncs, SaveInsert(s)
      PROVE  Enforced'
  <2>1. CASE Abort(s) /\ UNCHANGED <<messages, minted>>
    BY <1>4, <2>1 DEF SaveInsert, Enforced, Referred, mailbox
  <2>2. CASE ~(Abort(s) /\ UNCHANGED <<messages, minted>>)
    <3> DEFINE row == [conn |-> sync[s].conn, mail |-> Head(sync[s].todo)]
    <3>1. /\ conn = sync[s].conn /\ conn' = conn /\ rows' = rows
          /\ messages' = [id \in DOMAIN messages \cup {minted + 1} |-> IF id = minted + 1 THEN row ELSE messages[id]]
      BY <1>4, <2>2 DEF SaveInsert, mailbox
    <3>2. \A id \in DOMAIN messages' : messages'[id].conn = conn
      BY <3>1 DEF Enforced
    <3> QED BY <3>1, <3>2 DEF Enforced, Referred
  <2> QED BY <2>1, <2>2
<1>5. ASSUME NEW k, MayWrite(k), Write(k), conn' = conn
      PROVE  Enforced'
  <2>1. DOMAIN rows' = DOMAIN rows \cup {k} /\ messages' = messages /\ k[1] \in DOMAIN messages
    BY <1>5 DEF Write, MayWrite
  <2> QED BY <1>5, <2>1 DEF Enforced, Referred
<1>6. \/ UNCHANGED <<conn, messages>> /\ DOMAIN rows' = DOMAIN rows
      \/ Connect \/ Disconnect \/ (\E s \in Syncs : SaveInsert(s))
      \/ \E k : MayWrite(k) /\ Write(k) /\ conn' = conn
  <2>1. ASSUME NEW k, NEW status, Resolve(k, status)
        PROVE  UNCHANGED <<conn, messages>> /\ DOMAIN rows' = DOMAIN rows
    BY <2>1 DEF Resolve, SetStatus, mailbox
  <2>2. ASSUME NEW s \in Syncs, Step(s) \/ SyncBegin(s)
        PROVE  \/ UNCHANGED <<conn, messages>> /\ DOMAIN rows' = DOMAIN rows
               \/ SaveInsert(s) \/ \E k : MayWrite(k) /\ Write(k) /\ conn' = conn
    BY <2>2 DEF Step, SyncBegin, SaveLook, TrackLook, TrackInsert, SyncEnd, tables, mailbox
  <2> QED BY <2>1, <2>2 DEF Next, vars, People, Tick, Arrive, Sent, OwnLook, OwnInsert, Crash, tables, mailbox
<1> QED BY <1>1, <1>2, <1>3, <1>4, <1>5, <1>6

\* No message changes under its id.
LEMMA MessagesStay ==
  ASSUME FollowUpInv, [Next]_vars, NEW id \in DOMAIN messages, id \in DOMAIN messages'
  PROVE  messages'[id] = messages[id]
<1>1. CASE UNCHANGED messages
  BY <1>1
<1>2. CASE Disconnect
  BY <1>2 DEF Disconnect
<1>3. ASSUME NEW s \in Syncs, SaveInsert(s)
      PROVE  messages'[id] = messages[id]
  <2>1. id # minted + 1
    BY DEF FollowUpInv, FollowUpTypes
  <2> QED BY <1>3, <2>1 DEF SaveInsert
<1>4. UNCHANGED messages \/ Disconnect \/ \E s \in Syncs : SaveInsert(s)
  BY DEF Next, vars, People, Tick, Arrive, Connect, Resolve, Sent, Step, SyncBegin, SaveLook, TrackLook, TrackInsert, SyncEnd,
         Write, OwnLook, OwnInsert, Crash, tables, mailbox
<1> QED BY <1>1, <1>2, <1>3, <1>4

LEMMA PromisesAreTriples ==
  ASSUME NEW p \in Promises
  PROVE  p = <<p[1], p[2], p[3]>>
<1> DEFINE here(m) == {<<m>> \o f : f \in Extract(Body[m], "theirs", TRUE) \cup Extract(Reply[m], "ours", FALSE)}
<1>1. PICK m \in Mails : p \in here(m)
  <2>1. Promises = UNION {here(m) : m \in Mails}
    BY DEF Promises
  <2> HIDE DEF here
  <2> QED BY <2>1
<1>2. PICK f \in Extract(Body[m], "theirs", TRUE) \cup Extract(Reply[m], "ours", FALSE) : p = <<m>> \o f
  BY <1>1
<1>3. f = <<f[1], f[2]>>
  BY DEF Extract
<1>4. p = <<m, f[1], f[2]>>
  BY <1>2, <1>3, KeyOf
<1> QED BY <1>4

\* The promise a row is about.
PromiseOf(k) == <<messages[k[1]].mail, k[2], k[3]>>

\* A promise has one row: its mail is stored once for the one connection.
LEMMA OneRow ==
  ASSUME FollowUpInv, Enforced, NEW k, SaidThere(k), k[1] \in DOMAIN messages
  PROVE  PromiseOf(k) \in Promises /\ RowsOf(PromiseOf(k)) = {k} \cap DOMAIN rows
<1>1. k \in RowKeys /\ PromiseOf(k) \in Promises
  BY DEF SaidThere, PromiseOf
<1>2. ASSUME NEW j \in RowsOf(PromiseOf(k))
      PROVE  j = k /\ j \in DOMAIN rows
  <2>1. /\ j \in DOMAIN rows /\ j \in RowKeys /\ j[1] \in DOMAIN messages
        /\ messages[j[1]].mail = messages[k[1]].mail /\ j[2] = k[2] /\ j[3] = k[3]
    BY DEF FollowUpInv, RowOk, SaidThere, Enforced, Referred, RowsOf, PromiseOf
  <2>2. messages[j[1]] = messages[k[1]]
    <3>1. \A id \in DOMAIN messages : messages[id] \in [conn : 1..conns, mail : Mails] /\ messages[id].conn = conn
      BY DEF FollowUpInv, FollowUpTypes, Enforced
    <3> QED BY <2>1, <3>1
  <2>3. j[1] = k[1]
    BY <2>1, <2>2 DEF FollowUpInv, StoredOnce
  <2> QED BY <1>1, <2>1, <2>3 DEF RowKeys
<1>3. k \in DOMAIN rows => k \in RowsOf(PromiseOf(k))
  BY DEF RowsOf, PromiseOf
<1> QED BY <1>1, <1>2, <1>3

Listing(p) == IF RowsOf(p) = {} THEN "unlisted" ELSE rows[TheRow(p)].status
Telling(p) == IF RowsOf(p) = {} THEN "nothing" ELSE said[TheRow(p)]

\* A step that leaves the rows alone leaves the list alone.
LEMMA ListStays ==
  ASSUME FollowUpInv, Enforced, Enforced', [Next]_vars, UNCHANGED <<rows, said>>, NEW p
  PROVE  Listing(p)' = Listing(p) /\ Telling(p)' = Telling(p)
<1>1. \A k \in DOMAIN rows : messages'[k[1]] = messages[k[1]]
  BY MessagesStay DEF Enforced, Referred
<1>2. RowsOf(p)' = RowsOf(p)
  BY <1>1 DEF RowsOf
<1>3. TheRow(p)' = TheRow(p)
  BY <1>2 DEF TheRow
<1> QED BY <1>2, <1>3 DEF Listing, Telling

\* A new row lists its promise, and no other.
LEMMA WriteTracks ==
  ASSUME ForeignKeys, FollowUpInv, Enforced, NEW k, MayWrite(k), Write(k), SaidThere(k)
  PROVE  \E p \in Promises : List!Track(p)
<1>1. /\ k \notin DOMAIN rows /\ k[1] \in DOMAIN messages
      /\ DOMAIN rows' = DOMAIN rows \cup {k} /\ messages' = messages /\ DOMAIN said = DOMAIN rows
      /\ rows'[k].status = "open" /\ said'[k] = "nothing"
      /\ \A j \in DOMAIN rows : rows'[j] = rows[j] /\ said'[j] = said[j]
  BY DEF MayWrite, Write, NewRow, FollowUpInv, FollowUpTypes
<1>2. PICK p \in Promises : p = PromiseOf(k)
  BY <1>1, OneRow
<1>3. RowsOf(p) = {}
  BY <1>1, <1>2, OneRow
<1>4. RowsOf(p)' = {k}
  <2>1. RowsOf(p)' = RowsOf(p) \cup {k}
    BY <1>1, <1>2 DEF RowsOf, PromiseOf
  <2> QED BY <1>3, <2>1
<1>5. Listing(p) = "unlisted" /\ Telling(p) = "nothing" /\ Listing(p)' = "open" /\ Telling(p)' = "nothing"
  <2>1. TheRow(p)' = k
    BY <1>4 DEF TheRow
  <2> QED BY <1>1, <1>3, <1>4, <2>1 DEF Listing, Telling
<1>6. ASSUME NEW q \in Promises, q # p
      PROVE  Listing(q)' = Listing(q) /\ Telling(q)' = Telling(q)
  <2>1. \A n \in Promises : n = <<n[1], n[2], n[3]>>
    BY PromisesAreTriples
  <2>2. RowsOf(q)' = RowsOf(q)
    <3>1. ~(messages[k[1]].mail = q[1] /\ <<k[2], k[3]>> = <<q[2], q[3]>>)
      BY <1>2, <1>6, <2>1 DEF PromiseOf
    <3> QED BY <1>1, <3>1 DEF RowsOf
  <2>3. CASE RowsOf(q) = {}
    BY <2>2, <2>3 DEF Listing, Telling
  <2>4. CASE RowsOf(q) # {}
    <3>1. TheRow(q) \in DOMAIN rows /\ TheRow(q)' = TheRow(q)
      BY <2>2, <2>4 DEF TheRow, RowsOf
    <3> QED BY <1>1, <2>2, <2>4, <3>1 DEF Listing, Telling
  <2> QED BY <2>3, <2>4
<1>7. List!Track(p)
  BY <1>5, <1>6 DEF List!Track, Listing, Telling
<1> QED BY <1>7

\* What a person says of a row is said of its promise.
LEMMA ResolveDecides ==
  ASSUME ForeignKeys, FollowUpInv, Enforced, NEW k \in DOMAIN rows, NEW status \in {"open", "done", "dropped"},
         Resolve(k, status)
  PROVE  \E p \in Promises : List!Decide(p, status)
<1>1. /\ rows' = [rows EXCEPT ![k].status = status] /\ said' = [said EXCEPT ![k] = status] /\ messages' = messages
      /\ DOMAIN said = DOMAIN rows
      /\ rows[k] \in [status : {"open", "done", "dropped"}, due : Int, read : begun..day]
      /\ k[1] \in DOMAIN messages /\ SaidThere(k)
  BY DEF Resolve, SetStatus, FollowUpInv, FollowUpTypes, RowOk, Enforced, Referred
<1>2. /\ DOMAIN rows' = DOMAIN rows /\ rows'[k].status = status /\ said'[k] = status
      /\ \A j \in DOMAIN rows : j # k => rows'[j] = rows[j] /\ said'[j] = said[j]
  BY <1>1
<1>3. PICK p \in Promises : p = PromiseOf(k)
  BY <1>1, OneRow
<1>4. \A q : RowsOf(q)' = RowsOf(q)
  BY <1>1, <1>2 DEF RowsOf
<1>5. \A q : TheRow(q)' = TheRow(q)
  BY <1>4 DEF TheRow
<1>6. RowsOf(p) = {k} /\ TheRow(p) = k
  BY <1>1, <1>3, OneRow DEF TheRow
<1>7. rows[k].status # "unlisted"
  BY <1>1
<1>8. Listing(p) # "unlisted" /\ Listing(p)' = status /\ Telling(p)' = status
  BY <1>2, <1>4, <1>5, <1>6, <1>7 DEF Listing, Telling
<1>9. ASSUME NEW q \in Promises, q # p
      PROVE  Listing(q)' = Listing(q) /\ Telling(q)' = Telling(q)
  <2>1. CASE RowsOf(q) = {}
    BY <1>4, <2>1 DEF Listing, Telling
  <2>2. CASE RowsOf(q) # {}
    <3>1. TheRow(q) \in RowsOf(q)
      BY <2>2 DEF TheRow
    <3>2. k \notin RowsOf(q)
      <4>1. q = <<q[1], q[2], q[3]>> /\ p = <<messages[k[1]].mail, k[2], k[3]>>
        BY <1>3, PromisesAreTriples DEF PromiseOf
      <4> QED BY <1>9, <4>1 DEF RowsOf
    <3>3. TheRow(q) \in DOMAIN rows /\ TheRow(q) # k
      BY <3>1, <3>2 DEF RowsOf
    <3> QED BY <1>2, <1>4, <1>5, <2>2, <3>3 DEF Listing, Telling
  <2> QED BY <2>1, <2>2
<1>10. List!Decide(p, status)
  BY <1>8, <1>9 DEF List!Decide, Listing, Telling
<1> QED BY <1>10

LEMMA ListStep ==
  ASSUME ForeignKeys, FollowUpInv, Enforced, Enforced', [Next]_vars
  PROVE  [List!Next]_<<[p \in Promises |-> Listing(p)], [p \in Promises |-> Telling(p)]>>
<1>1. CASE UNCHANGED <<rows, said>>
  <2>1. \A p \in Promises : Listing(p)' = Listing(p) /\ Telling(p)' = Telling(p)
    BY <1>1, ListStays
  <2> QED BY <2>1
<1>2. ASSUME NEW k \in DOMAIN rows, NEW status \in {"open", "done", "dropped"}, Resolve(k, status)
      PROVE  List!Next
  <2>1. PICK p \in Promises : List!Decide(p, status)
    BY <1>2, ResolveDecides
  <2> QED BY <2>1 DEF List!Next, List!Statuses
<1>3. ASSUME NEW k, MayWrite(k), Write(k), SaidThere(k)
      PROVE  List!Next
  <2>1. PICK p \in Promises : List!Track(p)
    BY <1>3, WriteTracks
  <2> QED BY <2>1 DEF List!Next
<1>4. ASSUME NEW s \in Syncs, TrackInsert(s)
      PROVE  UNCHANGED <<rows, said>> \/ List!Next
  <2>1. Running(s) /\ ReadOk(s) /\ sync[s].work # <<>>
    BY <1>4 DEF TrackInsert, FollowUpInv, SyncOk, Running, Idle
  <2>2. SaidThere(Head(sync[s].work))
    BY <2>1, HeadAndTail DEF Running, ReadOk
  <2> QED BY <1>3, <1>4, <2>2 DEF TrackInsert, tables
<1>5. ASSUME OwnInsert
      PROVE  UNCHANGED <<rows, said>> \/ List!Next
  <2>1. /\ sender.work \in Seq(RowKeys) /\ sender.work # <<>>
        /\ \A k \in ToSet(sender.work) : SaidThere(k)
    BY <1>5 DEF OwnInsert, FollowUpInv, SenderOk, Idle
  <2>2. SaidThere(Head(sender.work))
    BY <2>1, HeadAndTail
  <2> QED BY <1>3, <1>5, <2>2 DEF OwnInsert, tables
<1>6. \/ UNCHANGED <<rows, said>> \/ OwnInsert \/ (\E s \in Syncs : TrackInsert(s))
      \/ \E k \in DOMAIN rows, status \in {"open", "done", "dropped"} : Resolve(k, status)
  BY DEF Next, vars, People, Tick, Arrive, Connect, Disconnect, Sent, Step, SyncBegin, SaveLook, SaveInsert, TrackLook,
         SyncEnd, OwnLook, Crash, tables
<1> QED BY <1>1, <1>2, <1>4, <1>5, <1>6

\* Where foreign keys are enforced - Postgres does, SQLite as it is opened here
\* does not - the rows implement the list the "Waiting on" page promises: over
\* syncs and approvals that overlap, restarts, disconnects and new consents a
\* promise is listed once, is never lost once it is, and has the status people
\* gave it (CommitmentRepository, uq_commitment_fingerprint).
THEOREM ListKept ==
  ASSUME ForeignKeys
  PROVE  Spec => KeepsTheList
<1> DEFINE list == [p \in Promises |-> Listing(p)]
<1> DEFINE told == [p \in Promises |-> Telling(p)]
<1>1. Init => FollowUpInv /\ Enforced
  BY FollowUpStart
<1>2. FollowUpInv /\ Enforced /\ [Next]_vars => FollowUpInv' /\ Enforced'
  BY FollowUpStep, EnforcedStep
<1>3. Init => List!Init
  <2>1. Init => \A p \in Promises : Listing(p) = "unlisted" /\ Telling(p) = "nothing"
    BY DEF Init, Listing, Telling, RowsOf
  <2> QED BY <2>1 DEF List!Init, Listing, Telling
<1>4. FollowUpInv /\ Enforced /\ Enforced' /\ [Next]_vars => [List!Next]_<<list, told>>
  BY ListStep
<1> QED BY <1>1, <1>2, <1>3, <1>4, PTL DEF Spec, KeepsTheList, List!Spec, Listing, Telling
=============================================================================
