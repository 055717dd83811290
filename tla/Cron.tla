---------------------------------- MODULE Cron ----------------------------------
(***************************************************************************)
(* lib/cron.ts: the five fields of an expression, and the next instant it   *)
(* is due in a zone whose clock is moved once.                              *)
(*                                                                         *)
(* Minutes are counted: an instant from the epoch, the wall clock from the  *)
(* same midnight, so that a zone's offset is their difference.  How many    *)
(* minutes an hour has, hours a day, days a week or a month, and months a   *)
(* year, are constants.                                                    *)
(***************************************************************************)
EXTENDS Integers, FiniteSets, FiniteSetsExt

CONSTANTS
    MinutesOfHour, HoursOfDay, DaysOfWeek, DaysOfMonth, MonthsOfYear,
    DaysAhead,  \* MAX_DAYS_AHEAD
    Fields,     \* the expressions, each the items of its five fields
    Zones,      \* each the offset before its clock is moved, the one after, and when
    MaxTime,    \* bound: instants
    None

Hour == MinutesOfHour
Day == HoursOfDay * Hour

VARIABLES
    fields,     \* the expression
    zone,
    from        \* the instant the last run was due, or now

vars == <<fields, zone, from>>

-----------------------------------------------------------------------------
(* parseCron *)

\* An item is "*", a value or a range, and a step or none.
Starts(item, min) == IF item.form = "all" THEN min ELSE item.low
Ends(item, max) ==
    CASE item.form = "all" -> max
      [] item.form = "range" -> item.high
      [] item.form = "value" -> IF item.step = None THEN item.low ELSE max

ItemValues(item, min, max) ==
    LET step == IF item.step = None THEN 1 ELSE item.step
    IN  {v \in Starts(item, min)..Ends(item, max) : (v - Starts(item, min)) % step = 0}

Values(items, min, max) == UNION {ItemValues(item, min, max) : item \in items}
Restricted(items) == \E item \in items : item.form # "all" \/ item.step # None

\* The last day of the week and the first are both Sunday.
Weekdays(items) == {d % DaysOfWeek : d \in Values(items, 0, DaysOfWeek)}

ParseCron(f) ==
    [minutes       |-> Values(f.minute, 0, MinutesOfHour - 1),
     hours         |-> Values(f.hour, 0, HoursOfDay - 1),
     daysOfMonth   |-> Values(f.dom, 1, DaysOfMonth),
     months        |-> Values(f.month, 1, MonthsOfYear),
     daysOfWeek    |-> Weekdays(f.dow),
     domRestricted |-> Restricted(f.dom),
     dowRestricted |-> Restricted(f.dow)]

\* A field has values of its range, as parseValue sees to; offsets are less than a day.
CronAssumption ==
    /\ {MinutesOfHour, HoursOfDay, DaysOfWeek, DaysOfMonth, MonthsOfYear, DaysAhead, MaxTime} \subseteq Nat \ {0}
    /\ \A f \in Fields :
          /\ Values(f.minute, 0, MinutesOfHour - 1) \subseteq 0..(MinutesOfHour - 1)
          /\ Values(f.hour, 0, HoursOfDay - 1) \subseteq 0..(HoursOfDay - 1)
    /\ \A z \in Zones : z.moved \in Int /\ {z.before, z.after} \subseteq (1 - Day)..(Day - 1)

-----------------------------------------------------------------------------
(* Zones *)

OffsetAt(i) == IF i < zone.moved THEN zone.before ELSE zone.after
WallTime(i) == i + OffsetAt(i)

\* The first minute that is not before the wall time, between one that is and one
\* that is not, by halving.
Narrow(w, lo, hi) ==
    LET narrow[r \in Int \X Int] ==
            IF r[2] - r[1] <= 1 THEN r[2]
            ELSE LET mid == r[1] + (r[2] - r[1]) \div 2
                 IN  IF WallTime(mid) >= w THEN narrow[<<r[1], mid>>] ELSE narrow[<<mid, r[2]>>]
    IN  narrow[<<lo, hi>>]

\* Mutant: of a time that comes twice, the second.
WallToInstantLater(w) ==
    LET candidates == {w - OffsetAt(i) : i \in {w, w - Day, w + Day}}
        valid == {c \in candidates : WallTime(c) = w}
    IN  IF valid # {} THEN Max(valid) ELSE Narrow(w, Min(candidates), Max(candidates))

WallToInstant(w) ==
    LET candidates == {w - OffsetAt(i) : i \in {w, w - Day, w + Day}}
        valid == {c \in candidates : WallTime(c) = w}
    IN  IF valid # {} THEN Min(valid) ELSE Narrow(w, Min(candidates), Max(candidates))

-----------------------------------------------------------------------------
(* nextAfter *)

DayMatches(spec, day) ==
    LET month == ((day \div DaysOfMonth) % MonthsOfYear) + 1
        domHit == (day % DaysOfMonth) + 1 \in spec.daysOfMonth
        dowHit == day % DaysOfWeek \in spec.daysOfWeek
    IN  /\ month \in spec.months
        /\ IF spec.domRestricted /\ spec.dowRestricted THEN domHit \/ dowHit ELSE domHit /\ dowHit

\* The wall times of these days, in which the loops go by day, hour and minute.
WallTimes(spec, days) ==
    {d * Day + h * Hour + m : d \in {x \in days : DayMatches(spec, x)}, h \in spec.hours, m \in spec.minutes}

NextAfter(spec, i) ==
    LET today == WallTime(i) \div Day
        due == {w \in WallTimes(spec, today..(today + DaysAhead - 1)) : WallToInstant(w) > i}
    IN  IF due = {} THEN None ELSE WallToInstant(Min(due))

-----------------------------------------------------------------------------
(* Who asks: nextOccurrences goes from one to the next, a tick asks at any time *)

Init ==
    /\ fields \in Fields
    /\ zone \in Zones
    /\ from = 0

Occurs ==
    LET next == NextAfter(ParseCron(fields), from)
    IN  /\ next # None /\ next <= MaxTime
        /\ from' = next
        /\ UNCHANGED <<fields, zone>>

Passes ==
    /\ from < MaxTime
    /\ from' = from + 1
    /\ UNCHANGED <<fields, zone>>

Next == Occurs \/ Passes

Spec == Init /\ [][Next]_vars

-----------------------------------------------------------------------------
(* Properties *)

\* A minute of the schedule is due once: when the clock first shows it, or has passed
\* it where it is never shown.
Reached(w) ==
    CHOOSE i \in (w - Day)..(w + 2 * Day) :
        WallTime(i) >= w /\ \A j \in (w - Day)..(i - 1) : WallTime(j) < w

\* The answer is the first minute of the schedule due after the instant asked about,
\* whatever the clock does meanwhile: none is skipped, none is due twice, and none
\* is answered after a later one (lib/cron.ts, nextAfter and wallToInstant).
NextIsNext ==
    LET spec == ParseCron(fields)
        today == WallTime(from) \div Day
        due == {Reached(w) : w \in WallTimes(spec, (today - 2)..(today + DaysAhead - 1))}
        later == {i \in due : i > from}
    IN  NextAfter(spec, from) = IF later = {} THEN None ELSE Min(later)
=============================================================================
