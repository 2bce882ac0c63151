--------------------------- MODULE CalendarPages ---------------------------
(***************************************************************************)
(* The pages of the operator's calendar: which days a day, week or month   *)
(* view shows, where it puts the sessions, what its heading counts, and    *)
(* where the arrows lead (web/src: lib/calendar,                           *)
(* components/admin/calendar).                                             *)
(*                                                                         *)
(* Days are numbered from 1 January of a year whose months the constants   *)
(* give; an instant is an hour, counted from midnight UTC of that day. A   *)
(* zone is its distance from UTC here; the change of the clocks is the     *)
(* matter of ZonedTime.                                                    *)
(***************************************************************************)
EXTENDS Integers, Sequences, FiniteSetsExt

CONSTANTS MonthLengths,   \* bound: the months there are, and their days
          FirstWeekday,   \* the weekday of 1 January, 0 is Sunday
          Offsets,        \* bound: hours between a zone and UTC
          Instants        \* bound: the hours at which sessions start

Months == DOMAIN MonthLengths

PagesAssumption ==
    /\ MonthLengths \in Seq(28..31) /\ FirstWeekday \in 0..6
    /\ Offsets \subseteq Int /\ Instants \subseteq Int

VARIABLES view,       \* day, week or month
          anchor,     \* the day the page is turned to
          sessions,   \* the instants at which the sessions start
          local,      \* the offset of the browser's zone
          zone        \* the offset of the workspace's zone

vars == <<view, anchor, sessions, local, zone>>

-----------------------------------------------------------------------------
(* Dates. *)

\* The day each month starts on, and the one after the last month.
FirstOf(m) == MapThenSumSet(LAMBDA i : MonthLengths[i], 1..(m - 1))
Days == 0..(FirstOf(Len(MonthLengths) + 1) - 1)
MonthOf(d) == CHOOSE m \in Months : FirstOf(m) <= d /\ d < FirstOf(m + 1)
Weekday(d) == (d + FirstWeekday) % 7

\* The day an instant has in a zone, and the hour.
DayIn(t, offset) == (t + offset) \div 24
HourIn(t, offset) == (t + offset) % 24

\* A week starts on Monday.
StartOfWeek(d) == d - (IF Weekday(d) < 1 THEN 7 ELSE 0) - Weekday(d) + 1

BuildWeekDays(d) == {StartOfWeek(d) + i : i \in 0..6}

\* A variant of BuildMonthGrid: five weeks of cells.
BuildMonthGridShort(d) == {StartOfWeek(FirstOf(MonthOf(d))) + i : i \in 0..34}

BuildMonthGrid(d) == {StartOfWeek(FirstOf(MonthOf(d))) + i : i \in 0..41}

-----------------------------------------------------------------------------
(* A page. *)

\* The cells or columns it has.
Cells(v, d) == CASE v = "day" -> {d}
                 [] v = "week" -> BuildWeekDays(d)
                 [] v = "month" -> BuildMonthGrid(d)

\* The days it is about: the month's grid also has cells of the months around it.
Pages(v, d) == IF v = "month" THEN FirstOf(MonthOf(d))..(FirstOf(MonthOf(d) + 1) - 1) ELSE Cells(v, d)

\* The sessions its heading counts, by the browser's days.
Events == {t \in sessions : DayIn(t, local) \in Pages(view, anchor)}

\* The sessions that find a cell on it.
Drawn == {t \in Events : DayIn(t, local) \in Cells(view, anchor)}

\* A block sits in the column of the browser's day, as far down as the hour in UTC; the
\* cells of a month print the hour in the workspace's zone.
Column(t) == DayIn(t, local)
StartHour(t) == IF view = "month" THEN HourIn(t, zone) ELSE HourIn(t, 0)

\* The hours that the day and week grids have room for.
Hours == 8..18

-----------------------------------------------------------------------------
\* A day of the month that the other month lacks runs on into the one after it.
Shift(v, d, delta) ==
    CASE v = "day" -> d + delta
      [] v = "week" -> d + 7 * delta
      [] v = "month" -> FirstOf(MonthOf(d) + delta) + d - FirstOf(MonthOf(d))

Init == /\ view = "week" /\ anchor \in Days
        /\ sessions \in SUBSET Instants
        /\ local \in Offsets /\ zone \in Offsets

\* The arrows, within the months there are.
Turn(delta) ==
    /\ view = "month" => MonthOf(anchor) + delta \in Months
    /\ Shift(view, anchor, delta) \in Days
    /\ anchor' = Shift(view, anchor, delta)
    /\ UNCHANGED <<view, sessions, local, zone>>

\* Any number of midnights may have passed.
Today == /\ anchor' \in Days
         /\ UNCHANGED <<view, sessions, local, zone>>

SetView == /\ view' \in {"day", "week", "month"}
           /\ UNCHANGED <<anchor, sessions, local, zone>>

\* The sessions have been loaded again.
Change == /\ \E t \in Instants : sessions' \in {sessions \cup {t}, sessions \ {t}}
          /\ UNCHANGED <<view, anchor, local, zone>>

Next == \/ \E delta \in {-1, 1} : Turn(delta)
        \/ Today \/ SetView \/ Change

Spec == Init /\ [][Next]_vars

-----------------------------------------------------------------------------
(* Properties. *)

TypeOK == /\ view \in {"day", "week", "month"}
          /\ anchor \in Days
          /\ sessions \subseteq Instants
          /\ local \in Offsets /\ zone \in Offsets

\* Every session that the heading counts has a cell to be drawn in, whatever the weekday
\* its month begins with and however long the month is.
CountedIsDrawn == Events = Drawn

\* The page that is turned to shows the day it is turned to.
AnchorShown == anchor \in Cells(view, anchor)

First(S) == CHOOSE d \in S : \A e \in S : d <= e
Last(S) == CHOOSE d \in S : \A e \in S : e <= d

Adjacent(S, T) == First(T) = Last(S) + 1

\* What the arrow is called, `Next ${view}` (CalendarView.tsx:203): no day lies between
\* the page that is left and the one that is reached, and none is on both.
NextIsNext == [][Turn(1) => Adjacent(Pages(view, anchor), Pages(view, anchor'))]_vars

\* The arrows miss a month only from a day of the month that the next one lacks.
NextUnlessTooShortStep ==
    Turn(1) /\ ~(/\ view = "month"
                 /\ anchor - FirstOf(MonthOf(anchor)) >= MonthLengths[MonthOf(anchor) + 1])
       => Adjacent(Pages(view, anchor), Pages(view, anchor'))
\* "Operator session times follow the workspace timezone" (docs/HISTORY.md:1423): a block
\* sits at the day and the hour its session has in the workspace's zone.
BlocksAtWorkspaceTime ==
    \A t \in Drawn : Column(t) = DayIn(t, zone) /\ StartHour(t) = HourIn(t, zone)

\* "Everything happening on this day at a glance." (CalendarView.tsx:168): a session that
\* the heading counts is drawn at an hour the grid has.
DayAtAGlance == view = "day" => \A t \in Drawn : StartHour(t) \in Hours
=============================================================================
