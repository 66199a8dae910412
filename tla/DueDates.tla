------------------------------ MODULE DueDates ------------------------------
(* commitments.py: which sentences of an email are promises, and the day    *)
(* their words name. The patterns are abstracted into what they found in a  *)
(* sentence; the calendar arithmetic is kept. A date is the number of days  *)
(* since Thursday, 1 January 2026.                                          *)
EXTENDS Integers

Years == 2026..2029
NoDate == -1

Leap(y) == IF y % 4 = 0 THEN 1 ELSE 0
MonthLength(y, m) ==
  IF m = 2 THEN 28 + Leap(y) ELSE IF m \in {4, 6, 9, 11} THEN 30 ELSE 31

DaysBefore == <<0, 31, 59, 90, 120, 151, 181, 212, 243, 273, 304, 334>>

IsDate(y, m, d) == y \in Years /\ m \in 1..12 /\ d \in 1..MonthLength(y, m)
DayOf(y, m, d) ==
  365 * (y - 2026) + (IF y > 2028 THEN 1 ELSE 0)
    + DaysBefore[m] + (IF m > 2 THEN Leap(y) ELSE 0) + d - 1

YearOf(t) == IF t >= DayOf(2029, 1, 1) THEN 2029 ELSE IF t >= DayOf(2028, 1, 1) THEN 2028
             ELSE IF t >= DayOf(2027, 1, 1) THEN 2027 ELSE 2026
MonthOf(t) == CHOOSE m \in 1..12 :
  DayOf(YearOf(t), m, 1) <= t /\ t < DayOf(YearOf(t), m, 1) + MonthLength(YearOf(t), m)
FirstOfMonth(t) == DayOf(YearOf(t), MonthOf(t), 1)
Weekday(t) == (t + 3) % 7
Friday == 4

\* The days a story may be told of: the month after each is in the calendar.
Days == DayOf(2026, 1, 1)..DayOf(2028, 12, 31)

----------------------------------------------------------------------------
\* The phrases of the date patterns, in the order they are tried.
Iso(y, m, d) == [kind |-> "iso", y |-> y, m |-> m, d |-> d]
DayMonth(d, m) == [kind |-> "dayMonth", d |-> d, m |-> m]
Relative(word) == [kind |-> "relative", word |-> word]
InN(n, unit) == [kind |-> "in", n |-> n, unit |-> unit]
OnWeekday(w) == [kind |-> "weekday", w |-> w]

Phrases ==
  [kind : {"iso"}, y : Nat, m : Nat, d : Nat] \cup [kind : {"dayMonth"}, d : Nat, m : 1..12] \cup
  [kind : {"relative"}, word : {"today", "tomorrow", "week", "nextWeek", "monthEnd", "afternoon"}] \cup
  [kind : {"in"}, n : Nat, unit : {"day", "week", "hour"}] \cup [kind : {"weekday"}, w : 0..6]

Rank == [iso |-> 1, dayMonth |-> 2, relative |-> 3, in |-> 4, weekday |-> 5]

\* "Friday" said on a Friday is the next one.
NextWeekday(today, w) ==
  LET ahead == (w - Weekday(today)) % 7 IN today + (IF ahead = 0 THEN 7 ELSE ahead)

\* A day of this year, or of the next if it has passed.
DayMonthDue(p, today) ==
  LET y == YearOf(today)
      on(year) == IF IsDate(year, p.m, p.d) THEN DayOf(year, p.m, p.d) ELSE NoDate
  IN  IF on(y) = NoDate \/ on(y) >= today THEN on(y) ELSE on(y + 1)

\* today.replace(day=28) and four days more are always in the next month.
MonthEnd(today) == FirstOfMonth(FirstOfMonth(today) + 27 + 4) - 1

RelativeDue(word, today) ==
  CASE word = "today"    -> today
    [] word = "tomorrow" -> today + 1
    [] word = "week"     -> NextWeekday(today, Friday)
    [] word = "nextWeek" -> today + 7
    [] word = "monthEnd" -> MonthEnd(today)
    [] OTHER             -> NoDate          \* "this afternoon"

InDue(p, today) ==
  today + (CASE p.unit = "week" -> 7 * p.n [] p.unit = "hour" -> 0 [] OTHER -> p.n)

DueOf(p, today) ==
  CASE p.kind = "iso"      -> IF IsDate(p.y, p.m, p.d) THEN DayOf(p.y, p.m, p.d) ELSE NoDate
    [] p.kind = "dayMonth" -> DayMonthDue(p, today)
    [] p.kind = "relative" -> RelativeDue(p.word, today)
    [] p.kind = "in"       -> InDue(p, today)
    [] p.kind = "weekday"  -> NextWeekday(today, p.w)

\* The first pattern that matches decides; one that finds no such date in the
\* calendar leaves the sentence to the next.
ParseDue(words, today) ==
  LET usable == {p \in words : p.kind \in {"iso", "dayMonth"} => DueOf(p, today) # NoDate}
  IN  IF usable = {} THEN NoDate
      ELSE DueOf(CHOOSE p \in usable : \A q \in usable : Rank[p.kind] <= Rank[q.kind], today)

----------------------------------------------------------------------------
\* What the patterns find in a sentence.
Sentence(marks, words) == [marks |-> marks, words |-> words]
Marks == {"promise", "blocked", "request", "negated", "filler", "long"}

LooksLikeACommitment(s) ==
  /\ {"long", "filler", "negated"} \cap s.marks = {}
  /\ {"promise", "blocked"} \cap s.marks # {}

IsRequest(s) == "request" \in s.marks /\ {"long", "negated"} \cap s.marks = {}

\* The commitments of a text: whose they are, and the sentence. A request made
\* of the reader is the reader's to do.
Extract(text, direction, includeRequests) ==
  {<<direction, s>> : s \in {s \in text : LooksLikeACommitment(s)}} \cup
  {<<"ours", s>> : s \in {s \in text : includeRequests /\ IsRequest(s) /\ ~LooksLikeACommitment(s)}}

----------------------------------------------------------------------------
(* What the words mean, to compare with.                                   *)

\* The days on which the date arithmetic is compared with its meaning, and
\* the dates that are compared.
Horizon == DayOf(2027, 11, 25)..DayOf(2028, 3, 10)
Dates == {DayMonth(d, m) : d \in {1, 28, 29, 30, 31}, m \in {1, 2, 3, 11, 12}} \cup
         {OnWeekday(w) : w \in 0..6} \cup {Relative("week"), Relative("monthEnd")}

Names(p, t) ==
  CASE p.kind = "dayMonth" -> \E y \in Years : IsDate(y, p.m, p.d) /\ t = DayOf(y, p.m, p.d)
    [] p.kind = "weekday"  -> Weekday(t) = p.w
    [] p = Relative("week") -> Weekday(t) = Friday
    [] OTHER                -> MonthOf(t + 1) # MonthOf(t)

RightDay(p, t, due) ==
  LET first == IF p.kind = "weekday" \/ p = Relative("week") THEN t + 1 ELSE t
  IN  IF due = NoDate
      THEN p.kind = "dayMonth" /\ \E y \in {YearOf(t), YearOf(t) + 1} : ~IsDate(y, p.m, p.d)
      ELSE Names(p, due) /\ due >= first /\ \A e \in first..(due - 1) : ~Names(p, e)

RightDays == \A t \in Horizon, p \in Dates : RightDay(p, t, ParseDue({p}, t))
=============================================================================
