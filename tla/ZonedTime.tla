----------------------------- MODULE ZonedTime -----------------------------
(***************************************************************************)
(* The times of the session drawer in a workspace's zone whose clocks      *)
(* change: how an instant becomes a date and a time in the form, how these *)
(* become an instant again, on which day a weekly series repeats, and      *)
(* which session the drawer's check finds in the way (web/src:             *)
(* lib/calendar, services/sessions.service, SessionDrawer; the series is   *)
(* expanded by the server's scheduling/recurrence).                        *)
(*                                                                         *)
(* Instants and wall clock times are hours; day 0 begins at hour 0.        *)
(***************************************************************************)
EXTENDS Integers, FiniteSets

CONSTANTS Zones,       \* bound: zones, with the instant at which their clocks change
          Instants,    \* bound: the instants at which a session is found
          Walls,       \* bound: the times an operator types
          Durations,   \* bound: the hours a session takes
          Weeks,       \* bound: the weeks a series is expanded for
          None         \* no form, no series

ZonedAssumption ==
    /\ \A z \in Zones : z.before \in Int /\ z.after \in Int /\ z.jump \in Int
    /\ Instants \subseteq Int /\ Walls \subseteq Int
    /\ Durations \subseteq Nat \ {0} /\ Weeks \in Nat

VARIABLES zone,     \* the workspace's zone
          start,    \* the instant at which the session starts
          length,   \* the hours it takes
          other,    \* another session: its start, its hours, whether it is cancelled
          form,     \* the wall clock time in the open drawer
          typed,    \* the time was typed, not shown
          clash,    \* the drawer's check has found the other session
          series    \* the starts of the series made last

vars == <<zone, start, length, other, form, typed, clash, series>>

-----------------------------------------------------------------------------
OffsetAt(t) == IF t < zone.jump THEN zone.before ELSE zone.after

\* slotParts: the date and the time an instant has in the zone.
SlotParts(t) == t + OffsetAt(t)

\* One pass: the guess is moved by what its clock is off.
Pass(guess, wall) == guess + (wall - SlotParts(guess))

ZonedWallToISO(wall) == Pass(Pass(wall, wall), wall)

\* The instants that have a wall clock time: none in the hour that is skipped, two in
\* the one that is repeated.
InstantsOf(wall) == {t \in {wall - zone.before, wall - zone.after} : SlotParts(t) = wall}
Repeated(wall) == Cardinality(InstantsOf(wall)) = 2
Jump == IF zone.after > zone.before THEN zone.after - zone.before ELSE zone.before - zone.after

\* Weekdays count from 1 to 7; day 0 is the last of a week.
Weekday(hour) == LET d == (hour \div 24) % 7 IN IF d = 0 THEN 7 ELSE d

\* The weekday a weekly series asks for is that of the instant in UTC.
IsoWeekday(t) == Weekday(t)

\* The server's expansion: every such day in the zone, at the clock time of the first
\* start, the earlier of two instants, none when the clock time is skipped, and no
\* start before the first.
Expand(first, weekday) ==
    LET wall == SlotParts(first) IN
    {t \in UNION {InstantsOf(wall + 24 * d) : d \in 0..(7 * Weeks)} :
        /\ Weekday(SlotParts(t)) = weekday
        /\ \A u \in InstantsOf(SlotParts(t)) : t <= u
        /\ t >= first}

Overlaps(s, n, o) == s < o.start + o.length /\ s + n > o.start

\* The sessions the check looks at start less than a day before the candidate.
FindConflict(s, n, o) == /\ o.start >= s - 24 /\ o.start < s + n
                         /\ ~o.cancelled
                         /\ Overlaps(s, n, o)

-----------------------------------------------------------------------------
OtherSessions == [start: Instants, length: Durations, cancelled: BOOLEAN]

Init == /\ zone \in Zones
        /\ start \in Instants /\ length \in Durations /\ other \in OtherSessions
        /\ form = None /\ typed = FALSE /\ clash = FALSE /\ series = None

\* The drawer opens on the session, and checks its time.
Open == /\ form = None
        /\ form' = SlotParts(start) /\ typed' = FALSE
        /\ clash' = FindConflict(ZonedWallToISO(SlotParts(start)), length, other)
        /\ UNCHANGED <<zone, start, length, other, series>>

Type == /\ form # None
        /\ \E w \in Walls : /\ form' = w
                            /\ clash' = FindConflict(ZonedWallToISO(w), length, other)
        /\ typed' = TRUE
        /\ UNCHANGED <<zone, start, length, other, series>>

\* The time in the form becomes the session's start.
Save == /\ form # None
        /\ start' = ZonedWallToISO(form) /\ form' = None
        /\ typed' = FALSE /\ clash' = FALSE
        /\ UNCHANGED <<zone, length, other, series>>

\* The same form, saved as a weekly series; a server that finds no start answers an error.
SaveWeekly ==
    /\ form # None
    /\ LET first == ZonedWallToISO(form)
           starts == Expand(first, IsoWeekday(first))
       IN /\ starts # {}
          /\ series' = [wall |-> form, first |-> first, starts |-> starts]
    /\ form' = None /\ typed' = FALSE /\ clash' = FALSE
    /\ UNCHANGED <<zone, start, length, other>>

Next == Open \/ Type \/ Save \/ SaveWeekly

Spec == Init /\ [][Next]_vars

-----------------------------------------------------------------------------
(* Properties. *)

TypeOK == /\ zone \in Zones /\ start \in Int /\ length \in Durations /\ other \in OtherSessions
          /\ form \in Int \cup {None} /\ typed \in BOOLEAN /\ clash \in BOOLEAN
          /\ form = None => ~typed /\ ~clash
          /\ series # None => series.starts # {}

\* A session that is opened and saved stays where it is, unless its clock time comes
\* twice on that day: then the drawer cannot tell which of the two it was.
UntypedStaysStep ==
    form # None /\ ~typed /\ start' # start => Repeated(form)
\* A time that is typed is the session's clock time once it is saved, and one that the
\* change of the clocks skips is saved as far off as the clocks are moved.
SavedAsTypedStep ==
    Save => LET wall == SlotParts(start') IN
            IF InstantsOf(form) # {} THEN wall = form ELSE wall - form \in {Jump, -Jump}
\* A weekly series has a session at the time that was typed for it, when that time falls
\* on the same weekday in UTC and comes once on its day.
SeriesHasItsFirst ==
    series # None /\ InstantsOf(series.wall) # {} /\ ~Repeated(series.wall)
    /\ Weekday(series.first) = Weekday(series.wall) => series.first \in series.starts

\* "Operator session times follow the workspace timezone" (docs/HISTORY.md:1423): a
\* weekly series repeats on the weekday that was typed.
RepeatsOnItsDay ==
    series # None => \A t \in series.starts : Weekday(SlotParts(t)) = Weekday(series.wall)

\* The warning is shown exactly when some hour of the session is taken by another one
\* that takes no more than a day.
WarnsOfSharedHours ==
    form # None /\ other.length <= 24 =>
        LET s == ZonedWallToISO(form)
            shared == (s..(s + length - 1)) \cap (other.start..(other.start + other.length - 1))
        IN clash <=> ~other.cancelled /\ shared # {}
=============================================================================
