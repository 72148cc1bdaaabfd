------------------------------ MODULE HttpDate ------------------------------
(* Parsing the date of an Expires attribute, core/cookie.c.  A date is the      *)
(* sequence of its tokens; time is counted as days since 1970-01-01 and seconds *)
(* of the day.                                                                  *)
EXTENDS Integers, SequencesExt

CONSTANT LastYear  \* the bound on the calendar walk

VARIABLES date,  \* the day the walk has reached: [y, m, d]
          days   \* how many days it is after 1970-01-01
dateVars == <<date, days>>

Time(h, m, s) == [kind |-> "time", h |-> h, m |-> m, s |-> s]
Num(n, size) == [kind |-> "num", n |-> n, size |-> size]
Word(month) == [kind |-> "word", month |-> month]  \* 0 for a word that names none

-----------------------------------------------------------------------------
(* cookie.c                                                                  *)

\* cookie_days_from_civil, of years that are not negative
DaysFromCivil(y0, m, d) ==
  LET y == IF m <= 2 THEN y0 - 1 ELSE y0
      era == y \div 400
      yoe == y - era * 400
      doy == (153 * (m + (IF m > 2 THEN -3 ELSE 9)) + 2) \div 5 + d - 1
  IN era * 146097 + yoe * 365 + yoe \div 4 - yoe \div 100 + doy - 719468

\* One token of http_date_parse: the first use that is open and fits.
Token(acc, t) ==
  CASE t.kind = "time" -> IF acc.time = <<>> THEN [acc EXCEPT !.time = <<t.h, t.m, t.s>>] ELSE acc
    [] t.kind = "num" ->
         IF acc.day = <<>> /\ t.size <= 2 THEN [acc EXCEPT !.day = <<t.n>>]
         ELSE IF acc.year = <<>> /\ t.size \in 2 .. 4 THEN [acc EXCEPT !.year = <<t.n>>] ELSE acc
    [] t.kind = "word" ->
         IF acc.month = <<>> /\ t.month # 0 THEN [acc EXCEPT !.month = <<t.month>>] ELSE acc

FullYear(y) ==
  CASE y \in 70 .. 99 -> y + 1900
    [] y <= 69 -> y + 2000
    [] OTHER -> y

\* http_date_parse; <<>> stands for 0
HttpDateParse(tokens) ==
  LET r == FoldLeft(Token, [time |-> <<>>, day |-> <<>>, month |-> <<>>, year |-> <<>>], tokens)
  IN IF <<>> \in {r.time, r.day, r.month, r.year} THEN <<>>
     ELSE LET y == FullYear(r.year[1])
          IN IF /\ r.day[1] \in 1 .. 31 /\ r.month[1] \in 1 .. 12 /\ y >= 1601
                /\ r.time[1] <= 23 /\ r.time[2] <= 59 /\ r.time[3] <= 59
                /\ DaysFromCivil(y, r.month[1], r.day[1]) >= 0
             THEN <<DaysFromCivil(y, r.month[1], r.day[1]), r.time[1] * 3600 + r.time[2] * 60 + r.time[3]>>
             ELSE <<>>

-----------------------------------------------------------------------------
(* The calendar, walked a day at a time                                      *)

Leap(y) == y % 4 = 0 /\ (y % 100 # 0 \/ y % 400 = 0)
MonthLength(y, m) ==
  CASE m = 2 -> IF Leap(y) THEN 29 ELSE 28
    [] m \in {4, 6, 9, 11} -> 30
    [] OTHER -> 31

DateInit == date = [y |-> 1970, m |-> 1, d |-> 1] /\ days = 0
NextDay ==
  /\ date.y <= LastYear
  /\ days' = days + 1
  /\ date' = IF date.d < MonthLength(date.y, date.m) THEN [date EXCEPT !.d = @ + 1]
             ELSE IF date.m < 12 THEN [date EXCEPT !.d = 1, !.m = @ + 1]
             ELSE [y |-> date.y + 1, m |-> 1, d |-> 1]
DateSpec == DateInit /\ [][NextDay]_dateVars

\* The three forms of a date that servers send: "Sun, 06 Nov 1994 08:49:37 GMT",
\* "Sunday, 06-Nov-94 08:49:37 GMT" and "Sun Nov  6 08:49:37 1994".
Forms ==
  LET t == Time(8, 49, 37)
      day == Num(date.d, IF date.d < 10 THEN 1 ELSE 2)
  IN {<<Word(0), Num(date.d, 2), Word(date.m), Num(date.y, 4), t, Word(0)>>,
      <<Word(0), Word(date.m), day, t, Num(date.y, 4)>>}
     \cup IF date.y < 2070 THEN {<<Word(0), Num(date.d, 2), Word(date.m), Num(date.y % 100, 2), t, Word(0)>>} ELSE {}

\* Every form of every day, with its leap years and the century, parses to the day the
\* calendar says it is.
DatesExact == \A form \in Forms : HttpDateParse(form) = <<days, 8 * 3600 + 49 * 60 + 37>>
=============================================================================
