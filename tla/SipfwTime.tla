------------------------------ MODULE SipfwTime ------------------------------
(***************************************************************************)
(* The date SIPFW writes in its log: SIPFW_Localtime (sipfw_k_common.c)    *)
(* turns seconds since 1970 into a local date with two tables, and         *)
(* SIPFW_LogAppend writes it.  Here a clock ticks, with the calendar's own *)
(* date beside it, and the code is asked for the date at every tick.       *)
(*                                                                         *)
(* Times stay below 2^31, so `unsigned int sec` never wraps.               *)
(***************************************************************************)
EXTENDS Integers, Sequences, FiniteSets

CONSTANTS
    First, LastDay,   \* the local days the clock runs through, since 1970-01-01
    Today0,           \* the date of day First
    Tick,             \* seconds between two packets logged
    Beside            \* what the words beside the table may make of a time

ASSUME TickAssumption == Tick \in 1..86400
ASSUME DaysAssumption == First \in Nat /\ LastDay \in Nat /\ First <= LastDay

VARIABLES time,       \* get_seconds()
          today,      \* the true local date (UTC+8): [year, mon, mday]
          logged      \* what SIPFW_Localtime made of the time, or Fault
datevars == <<time, today, logged>>

\* The search has left the memory of the kernel.
Fault == [year |-> 0, mon |-> 0, mday |-> 0, hour |-> 0, min |-> 0, sec |-> 0]

Zone == 3600 * 8
DayOf(t) == (t + Zone) \div 86400

daysSinceEpoch == <<13514, 13879, 14245, 14610, 14975, 15340>>
daysSinceYear == <<0, 31, 59, 90, 120, 151, 181, 212, 243, 273, 304, 334>>
daysSinceLeapyear == <<0, 31, 60, 91, 121, 152, 182, 213, 244, 274, 305, 335>>

Leap(y) == y % 4 = 0 /\ (y % 100 # 0 \/ y % 400 = 0)

\* How far a loop `for(i = 0; table[i] < x; i++)` runs in an increasing table.
Below(table, x) == Cardinality({k \in 1..Len(table) : table[k] < x})

\* The search for the year stays in the table.  It leaves it before the first entry
\* (i-- of 0 wraps), and behind the last one when every entry is below.
InTable(t) == Below(daysSinceEpoch, DayOf(t)) \in 1..Len(daysSinceEpoch) - 1

\* Mutant: the zone added to the day and not to the seconds of the day.
ZoneTwice(t) ==
    LET days == DayOf(t)
        sec == t % 86400
        i == Below(daysSinceEpoch, days)
        year == 2006 + i
        yday == IF Leap(year) THEN daysSinceLeapyear ELSE daysSinceYear
        d == days - daysSinceEpoch[i]
        m == Below(yday, d) IN
    [year |-> year, mon |-> m, mday |-> d - yday[m],
     hour |-> sec \div 3600, min |-> (sec % 3600) \div 60, sec |-> sec % 60]

\* What SIPFW_Localtime makes of a time in the table.  The search stops at the first entry not
\* below the day, so on the first day of a year it takes the year before.
Localtime(t) ==
    LET days == DayOf(t)
        sec == (t + Zone) % 86400
        i == Below(daysSinceEpoch, days)            \* index i-1 in C, from 0
        year == 2006 + i
        yday == IF Leap(year) THEN daysSinceLeapyear ELSE daysSinceYear
        d == days - daysSinceEpoch[i]
        m == Below(yday, d) IN
    [year |-> year, mon |-> m, mday |-> d - yday[m],
     hour |-> sec \div 3600, min |-> (sec % 3600) \div 60, sec |-> sec % 60]

-----------------------------------------------------------------------------
(* The calendar.                                                           *)

MonthLength(y, m) ==
    IF m = 2 THEN (IF Leap(y) THEN 29 ELSE 28) ELSE IF m \in {4, 6, 9, 11} THEN 30 ELSE 31

NextDay(d) ==
    IF d.mday < MonthLength(d.year, d.mon) THEN [d EXCEPT !.mday = @ + 1]
    ELSE IF d.mon < 12 THEN [year |-> d.year, mon |-> d.mon + 1, mday |-> 1]
    ELSE [year |-> d.year + 1, mon |-> 1, mday |-> 1]

\* Outside the table the year and the day in it come from whatever lies there.
LogAppend(t) == IF InTable(t) THEN logged' = Localtime(t) ELSE logged' \in Beside \cup {Fault}

DateInit ==
    /\ time = First * 86400 - Zone /\ today = Today0
    /\ IF InTable(time) THEN logged = Localtime(time) ELSE logged \in Beside \cup {Fault}

DateNext ==
    /\ logged # Fault /\ DayOf(time + Tick) <= LastDay
    /\ time' = time + Tick
    /\ today' = IF DayOf(time') = DayOf(time) THEN today ELSE NextDay(today)
    /\ LogAppend(time')

DateSpec == DateInit /\ [][DateNext]_datevars

-----------------------------------------------------------------------------
(* Properties.                                                             *)

Date(r) == [year |-> r.year, mon |-> r.mon, mday |-> r.mday]
SecondOfDay(r) == 3600 * r.hour + 60 * r.min + r.sec

\* The log goes by the calendar: from one line to the next its date stays, and its time
\* of day moves on, for as long as the local day lasts; with the next local day comes the
\* next date, across every month, year and leap day.  Whether it is the right date is
\* another matter.
LogFollowsCalendar ==
    [][time' # time /\ InTable(time) /\ InTable(time') =>
          IF today' = today
          THEN Date(logged') = Date(logged) /\ SecondOfDay(logged) < SecondOfDay(logged')
          ELSE Date(logged') = NextDay(Date(logged))]_datevars

\* The search for a year leaves its table on the first day of it and from the second day
\* of 2012 on: on every day in between the log has a date, and the kernel goes on.
TableCovers ==
    /\ InTable(time) <=> \/ today.year \in 2007..2011 /\ today # [year |-> 2007, mon |-> 1, mday |-> 1]
                         \/ today = [year |-> 2012, mon |-> 1, mday |-> 1]
    /\ logged = Fault => ~InTable(time)

\* The dates of the log: where there are any, and that they follow each other.
DatesSound == []TableCovers /\ LogFollowsCalendar

\* "Gets the local date ... 2007 to 2012" (sipfw_k_common.c:10-12).
DateIsLocal == today.year \in 2007..2012 => Date(logged) = today
=============================================================================
