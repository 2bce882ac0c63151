-------------------------- MODULE AttendanceSheet --------------------------
(***************************************************************************)
(* The attendance tab of a group session in the web client: the rows it    *)
(* shows at once, the requests that record them, and the roll-back of a    *)
(* request that fails (web/src: components/drawers/AttendanceTab,          *)
(* services/bookings.service setBookingAttendance).                        *)
(*                                                                         *)
(* The rows are the confirmed and completed bookings of one session, the   *)
(* same ones throughout; names and layout are left out.                    *)
(***************************************************************************)
EXTENDS Naturals, FiniteSets, FiniteSetsExt, Functions

CONSTANTS Bookings,      \* the bookings of the session
          Marks,         \* what can be recorded of one
          Present,       \* the mark of "mark all present"
          MaxPresses,    \* bound: marks chosen, "mark all" counting as one
          Slots,         \* bound: requests in flight at a time
          None           \* no mark, no rows, no request

AttendanceAssumption ==
    /\ Present \in Marks /\ None \notin Marks /\ MaxPresses \in Nat

Sheet == [Bookings -> Marks \cup {None}]

VARIABLES server,     \* the attendance recorded of each booking
          rows,       \* the rows shown; None is the placeholder
          busyIds,    \* the rows that wait for their request
          load,       \* the request for the rows
          calls,      \* the requests that record a mark
          snapshot,   \* the rows "mark all" goes back to when it fails
          presses,    \* marks chosen so far
          meant,      \* the mark last chosen for each booking
          excused,    \* the rows an answer of which was lost, that were marked again while
                      \* busy, or whose request was on its way as the tab was opened again
          shared      \* the rows that another row's roll-back changed, or that "mark all"
                      \* freed while their own request was on its way

vars == <<server, rows, busyIds, load, calls, snapshot, presses, meant, excused, shared>>

\* A call is awaited by its row, by "mark all", or by nobody.
Call == [booking: Bookings, mark: Marks, by: {"row", "all", "nobody"},
         before: Sheet \cup {None},          \* the rows its own row goes back to
         answer: {"none", "ok", "failed"}]

TypeOK == /\ server \in Sheet /\ rows \in Sheet \cup {None} /\ busyIds \subseteq Bookings
          /\ load \in [state: {"idle", "asked", "read", "failed"}, rows: Sheet \cup {None}]
          /\ calls \in [Slots -> Call \cup {None}] /\ snapshot \in Sheet \cup {None}
          /\ presses \in 0..MaxPresses /\ meant \in Sheet
          /\ excused \subseteq Bookings /\ shared \subseteq Bookings
          /\ rows = None => busyIds = {}

Flying == {i \in Slots : calls[i] # None}
Of(by) == {i \in Flying : calls[i].by = by}
Waiting(by) == {calls[i].booking : i \in Of(by)}
Idle == [state |-> "idle", rows |-> None]
Asked == [state |-> "asked", rows |-> None]

Init == /\ server \in [Bookings -> {None}]
        /\ rows = None /\ busyIds = {} /\ load = Asked
        /\ calls = [i \in Slots |-> None] /\ snapshot = None
        /\ presses = 0 /\ meant = server /\ excused = {} /\ shared = {}

-----------------------------------------------------------------------------
(* The tab opens, and its rows arrive. *)

ReopenBusy ==
    /\ rows' = None /\ load' = Asked /\ snapshot' = None
    /\ calls' = [i \in Slots |-> IF i \in Flying THEN [calls[i] EXCEPT !.by = "nobody", !.before = None]
                                 ELSE None]
    /\ excused' = {calls[i].booking : i \in Flying} /\ shared' = {}
    /\ UNCHANGED <<server, busyIds, presses, meant>>

\* The session drawer shows another tab, or is closed, and shows this one again.
Reopen ==
    /\ rows' = None /\ busyIds' = {} /\ load' = Asked /\ snapshot' = None
    /\ calls' = [i \in Slots |-> IF i \in Flying THEN [calls[i] EXCEPT !.by = "nobody", !.before = None]
                                 ELSE None]
    /\ excused' = {calls[i].booking : i \in Flying} /\ shared' = {}
    /\ UNCHANGED <<server, presses, meant>>

LoadRead == /\ load.state = "asked"
            /\ \/ load' = [state |-> "read", rows |-> server]
               \/ load' = [Asked EXCEPT !.state = "failed"]
            /\ UNCHANGED <<server, rows, busyIds, calls, snapshot, presses, meant, excused, shared>>

\* There is no catch: a load that failed leaves the placeholder.
LoadArrives == /\ load.state = "read"
               /\ rows' = load.rows /\ load' = Idle
               /\ UNCHANGED <<server, busyIds, calls, snapshot, presses, meant, excused, shared>>

-----------------------------------------------------------------------------
(* The operator. *)

Request(b, m, by, before) ==
    [booking |-> b, mark |-> m, by |-> by, before |-> before, answer |-> "none"]

Pressed(bs, m) == /\ presses < MaxPresses /\ presses' = presses + 1
                  /\ meant' = [b \in Bookings |-> IF b \in bs THEN m ELSE meant[b]]

\* The row of a busy booking takes no clicks, but it still has the keyboard.
Update(b, m) ==
    /\ rows # None /\ Pressed({b}, m)
    /\ \E i \in Slots \ Flying :
         calls' = [calls EXCEPT ![i] = Request(b, m, "row", rows)]
    /\ rows' = [rows EXCEPT ![b] = m]
    /\ busyIds' = busyIds \cup {b}
    /\ excused' = IF b \in busyIds THEN excused \cup {b} ELSE excused
    /\ UNCHANGED <<server, load, snapshot, shared>>

Unmarked == {b \in Bookings : rows[b] = None}

MarkAllPresent ==
    /\ rows # None /\ busyIds = {} /\ Unmarked # {} /\ Pressed(Unmarked, Present)
    /\ \E free \in kSubset(Cardinality(Unmarked), Slots \ Flying) :
         \E f \in Bijection(free, Unmarked) :
           calls' = [i \in Slots |-> IF i \in free THEN Request(f[i], Present, "all", None)
                                     ELSE calls[i]]
    /\ rows' = [b \in Bookings |-> IF rows[b] = None THEN Present ELSE rows[b]]
    /\ snapshot' = rows
    /\ busyIds' = Unmarked
    /\ UNCHANGED <<server, load, excused, shared>>

-----------------------------------------------------------------------------
(* The server. *)

\* setBookingAttendance: a completed booking can be marked again.  The answer may
\* get lost.
Serve(i) ==
    /\ i \in Flying /\ calls[i].answer = "none"
    /\ server' = [server EXCEPT ![calls[i].booking] = calls[i].mark]
    /\ \E a \in {"ok", "failed"} :
         /\ calls' = [calls EXCEPT ![i].answer = a]
         /\ excused' = IF a = "failed" THEN excused \cup {calls[i].booking} ELSE excused
    /\ UNCHANGED <<rows, busyIds, load, snapshot, presses, meant, shared>>

\* The booking was cancelled, or nothing got through.
Refuse(i) ==
    /\ i \in Flying /\ calls[i].answer = "none"
    /\ calls' = [calls EXCEPT ![i].answer = "failed"]
    /\ UNCHANGED <<server, rows, busyIds, load, snapshot, presses, meant, excused, shared>>

-----------------------------------------------------------------------------
(* The answers. *)

KeptRows(c) == rows

\* A row goes back to all the rows that were there before its mark.
RolledBack(c) == c.before

\* The rows of others that this changes.
Touched(to) == {b \in Bookings : to[b] # rows[b]}

RowSettles(i) ==
    /\ i \in Of("row") /\ calls[i].answer # "none"
    /\ LET c == calls[i]
           failed == c.answer = "failed" IN
         /\ rows' = IF failed THEN RolledBack(c) ELSE rows
         /\ shared' = IF failed THEN shared \cup (Touched(c.before) \ {c.booking}) ELSE shared
         /\ busyIds' = busyIds \ {c.booking}
    /\ calls' = [calls EXCEPT ![i] = None]
    /\ UNCHANGED <<server, load, snapshot, presses, meant, excused>>

\* The `finally` of "mark all" clears every busy row.
AllDone ==
    /\ Of("all") # {} /\ \A i \in Of("all") : calls[i].answer = "ok"
    /\ busyIds' = {} /\ snapshot' = None
    /\ calls' = [i \in Slots |-> IF i \in Of("all") THEN None ELSE calls[i]]
    /\ shared' = shared \cup Waiting("row")
    /\ UNCHANGED <<server, rows, load, presses, meant, excused>>

\* Promise.all rejects with the first failure; the others are still on their way.
AllFailed ==
    /\ \E i \in Of("all") :
         /\ calls[i].answer = "failed"
         /\ shared' = shared \cup (Touched(snapshot) \ {calls[i].booking}) \cup Waiting("row")
    /\ rows' = snapshot /\ snapshot' = None /\ busyIds' = {}
    /\ calls' = [i \in Slots |-> CASE i \notin Of("all") -> calls[i]
                                   [] calls[i].answer = "none" -> [calls[i] EXCEPT !.by = "nobody"]
                                   [] OTHER -> None]
    /\ UNCHANGED <<server, load, presses, meant, excused>>

Unheard(i) == /\ i \in Of("nobody") /\ calls[i].answer # "none"
              /\ calls' = [calls EXCEPT ![i] = None]
              /\ UNCHANGED <<server, rows, busyIds, load, snapshot, presses, meant, excused, shared>>

-----------------------------------------------------------------------------

Operator == \/ Reopen \/ MarkAllPresent
            \/ \E b \in Bookings, m \in Marks : Update(b, m)
Network == \/ LoadRead
           \/ \E i \in Slots : Serve(i) \/ Refuse(i)
Answer == \/ LoadArrives \/ AllDone \/ AllFailed
          \/ \E i \in Slots : RowSettles(i) \/ Unheard(i)
Next == Operator \/ Network \/ Answer

Spec == Init /\ [][Next]_vars

\* Requests settle and their continuations run.
FairSpec == /\ Spec /\ WF_vars(LoadRead) /\ WF_vars(LoadArrives)
            /\ WF_vars(AllDone) /\ WF_vars(AllFailed)
            /\ \A i \in Slots : WF_vars(Serve(i) \/ Refuse(i)) /\ WF_vars(RowSettles(i)) /\ WF_vars(Unheard(i))

Quiet == rows # None /\ Flying = {}

\* Once everything has settled, a row shows the mark that is recorded, however the requests
\* were interleaved: all but the excused, and those that another row's roll-back changed or
\* whose own request "mark all" stopped waiting for.
RowsFollowServer == Quiet => \A b \in Bookings \ (excused \cup shared) : rows[b] = server[b]

\* What is recorded of any other row changes only to the mark chosen last for it: no older
\* request of the tab comes through after a newer mark.
OnlyTheNewestStep ==
    \A b \in Bookings \ (excused \cup shared) : server'[b] # server[b] => server'[b] = meant[b]

\* AttendanceTab.tsx:193, "Attendance is recorded per attendee and saved as you mark each
\* row": also when the request of another row fails, a row keeps the mark that was recorded.
RowsKeepRecorded ==
    Quiet => \A b \in Bookings \ excused : server[b] # None => rows[b] = server[b]

\* The same line of the tab, of the marks themselves: no request of a "mark all" that
\* has failed, or of a row it has freed, saves an older mark over the one chosen last.
SavedAsMarked ==
    [][\A b \in Bookings \ excused : server'[b] # server[b] => server'[b] = meant[b]]_vars
=============================================================================
