--------------------------------- MODULE Dates ---------------------------------
(***************************************************************************)
(* The date arithmetic of the calendar: web/lib/dates.ts, which works on   *)
(* the parts of a date, and the weekly runs of api/calendar_routes.py.     *)
(***************************************************************************)
EXTENDS Integers, Sequences

CONSTANTS
    RowCap,         \* MATERIALIZER_CAP_ROWS
    RangeCap        \* RANGE_CAP_DAYS

(* A year view asks for a whole year, leap or not.                         *)
ASSUME RangeAssumption == RangeCap \in Nat /\ RangeCap >= 366

Date(y, m, d) == [year |-> y, month |-> m, day |-> d]

isLeapYear(y) == (y % 4 = 0 /\ y % 100 # 0) \/ y % 400 = 0
daysInMonth(y, m) ==
    IF m = 2 /\ isLeapYear(y) THEN 29
    ELSE <<31, 28, 31, 30, 31, 30, 31, 31, 30, 31, 30, 31>>[m]

(* The proleptic Gregorian day count, which Python's date.toordinal and    *)
(* Date.UTC agree on.                                                      *)
DaysBefore(y, m) ==
    <<0, 31, 59, 90, 120, 151, 181, 212, 243, 273, 304, 334>>[m]
      + (IF m > 2 /\ isLeapYear(y) THEN 1 ELSE 0)
Ordinal(date) ==
    LET y == date.year - 1
    IN 365 * y + (y \div 4) - (y \div 100) + (y \div 400)
         + DaysBefore(date.year, date.month) + date.day

(* Date.UTC reads a year from 0 to 99 as one of the twentieth century.     *)
UTC(date) == IF date.year \in 0 .. 99 THEN [date EXCEPT !.year = @ + 1900] ELSE date
weekdayOf(date) == Ordinal(UTC(date)) % 7

addMonths(y, m, delta) ==
    LET absolute == y * 12 + (m - 1) + delta
    IN [year |-> absolute \div 12, month |-> (absolute % 12) + 1]
Next1(y, m) == addMonths(y, m, 1)
Previous1(y, m) == addMonths(y, m, -1)

(* Walk over the ends of months, then over their starts.                   *)
addDays(date, delta) ==
    LET Walk[x \in [year : Int, month : 1 .. 12, day : Int]] ==
          LET n == Next1(x.year, x.month)
              p == Previous1(x.year, x.month)
          IN IF x.day > daysInMonth(x.year, x.month)
             THEN Walk[Date(n.year, n.month, x.day - daysInMonth(x.year, x.month))]
             ELSE IF x.day < 1
             THEN Walk[Date(p.year, p.month, x.day + daysInMonth(p.year, p.month))]
             ELSE x
    IN Walk[[date EXCEPT !.day = @ + delta]]

weekStart(date) == addDays(date, -weekdayOf(date))
weekGrid(date) == [i \in 1 .. 7 |-> addDays(weekStart(date), i - 1)]

weekRange(date) == [start |-> weekStart(date), end |-> addDays(weekStart(date), 7)]
monthRange(y, m) == LET n == Next1(y, m)
                    IN [start |-> Date(y, m, 1), end |-> Date(n.year, n.month, 1)]
yearRange(y) == [start |-> Date(y, 1, 1), end |-> Date(y + 1, 1, 1)]

Cells(y, m, from, to) == [i \in 1 .. (to - from + 1) |-> Date(y, m, from + i - 1)]

(* Mutant: a month that ends with the week gets a week of the next.        *)
monthGridFullWeek(y, m) ==
    LET p == Previous1(y, m)
        n == Next1(y, m)
        leading == weekdayOf(Date(y, m, 1))
        last == daysInMonth(p.year, p.month)
        cells == Cells(p.year, p.month, last - leading + 1, last)
                   \o Cells(y, m, 1, daysInMonth(y, m))
    IN cells \o Cells(n.year, n.month, 1, 7 - (Len(cells) % 7))

(* The weeks of a month, filled up with days of its neighbours.            *)
monthGrid(y, m) ==
    LET p == Previous1(y, m)
        n == Next1(y, m)
        leading == weekdayOf(Date(y, m, 1))
        last == daysInMonth(p.year, p.month)
        cells == Cells(p.year, p.month, last - leading + 1, last)
                   \o Cells(y, m, 1, daysInMonth(y, m))
    IN IF Len(cells) % 7 = 0 THEN cells ELSE cells \o Cells(n.year, n.month, 1, 7 - (Len(cells) % 7))

(* A row of 31 slots for each month; Blocked where there is no such day.   *)
Blocked == Date(0, 0, 0)
yearGrid(y) == [m \in 1 .. 12 |-> [d \in 1 .. 31 |->
                  IF d > daysInMonth(y, m) THEN Blocked ELSE Date(y, m, d)]]

(* list_events accepts a range: dates of four digits, not too far apart.   *)
Accepted(range) == LET days == Ordinal(range.end) - Ordinal(range.start)
                   IN /\ days >= 0 /\ days <= RangeCap
                      /\ range.start.year >= 1 /\ range.end.year <= 9999

(* The occurrences of a weekly run, and their number, computed before.     *)
Occurrences(start, until) == (until - start) \div 7 + 1
WeeklyDates(start, until) ==
    LET From[d \in Int] == IF d > until THEN <<>> ELSE <<d>> \o From[d + 7]
    IN From[start]
Materialized(start, until) ==
    IF until < start \/ Occurrences(start, until) > RowCap THEN <<>> ELSE WeeklyDates(start, until)

-----------------------------------------------------------------------------
Consecutive(cells) ==
    \A i \in 1 .. Len(cells) - 1 : Ordinal(cells[i + 1]) = Ordinal(cells[i]) + 1

(* The views agree with the day count: a step of n days is n days; a grid  *)
(* is whole weeks from Sunday, of consecutive days, no week of which could *)
(* be left out; a page's range holds exactly the days the page shows and   *)
(* is one the api accepts; and the run the api writes has as many rows as  *)
(* it counted, the last of which is in its last week.                      *)
DateIsRight(date, delta) ==
    LET grid == monthGrid(date.year, date.month)
        week == weekGrid(date)
        other == addDays(date, delta)
        run == Materialized(Ordinal(date), Ordinal(other))
        InRange(x, r) == Ordinal(r.start) <= Ordinal(x) /\ Ordinal(x) < Ordinal(r.end)
    IN /\ other.day \in 1 .. daysInMonth(other.year, other.month)
       /\ Ordinal(other) = Ordinal(date) + delta
       /\ Consecutive(grid) /\ Len(grid) % 7 = 0 /\ Ordinal(grid[1]) % 7 = 0
       /\ \E i \in 1 .. 7 : grid[i] = Date(date.year, date.month, 1)
       /\ \E i \in Len(grid) - 6 .. Len(grid) : InRange(grid[i], monthRange(date.year, date.month))
       /\ Consecutive(week) /\ Ordinal(week[1]) % 7 = 0 /\ InRange(date, weekRange(date))
       /\ {week[i] : i \in 1 .. 7} = {x \in {addDays(date, k) : k \in -7 .. 7} : InRange(x, weekRange(date))}
       /\ \A r \in {weekRange(date), monthRange(date.year, date.month), yearRange(date.year)} :
            Accepted(r)
       /\ \A d \in 1 .. 31 :
            LET slot == yearGrid(date.year)[date.month][d]
            IN slot = Blocked \/ Ordinal(slot) = Ordinal(date) - date.day + d
       /\ run # <<>> => /\ Len(run) = Occurrences(Ordinal(date), Ordinal(other))
                        /\ run[Len(run)] \in Ordinal(other) - 6 .. Ordinal(other)
=============================================================================
