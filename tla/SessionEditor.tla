--------------------------- MODULE SessionEditor ---------------------------
(***************************************************************************)
(* The calendar page of the web client and the drawer that shows, edits,   *)
(* creates and cancels a session (web/src: components/drawers/             *)
(* SessionDrawer, components/admin/calendar/CalendarView,                  *)
(* services/sessions.service, lib/use-loading, lib/use-reset-on-open).        *)
(*                                                                         *)
(* A start stands for a stretch of the calendar: two sessions clash when   *)
(* they have the same one.  Capacity, place, service and recurrence go the *)
(* way of the start and are left out; so are the drawer's tabs, its        *)
(* closing animation and the demo's branches.                              *)
(***************************************************************************)
EXTENDS Naturals, FiniteSets

CONSTANTS Ids,        \* the sessions there can be
          Starts,     \* the stretches a session can take
          Notes,      \* the internal notes
          MaxNotes,   \* bound: saves of a note alone
          MaxEvents,  \* bound: changes made elsewhere
          None        \* no session, no drawer, no request

EditorAssumption == MaxNotes \in Nat /\ MaxEvents \in Nat /\ None \notin Ids \cup Starts \cup Notes

Session == [start: Starts, status: {"scheduled", "cancelled"}, note: Notes]

VARIABLES server,    \* the sessions
          late,      \* the services and the time zone have yet to arrive
          board,     \* the calendar's copy of the sessions
          loading,   \* the calendar is loading its sessions
          drawer,    \* the drawer: its session and the copy it was opened with
          form,      \* what the drawer's fields hold
          confirm,   \* the dialog that asks whether to cancel is open
          check,     \* the check for a clash; an older one is ignored
          conflict,  \* the warning: the start it was answered for
          op,        \* the create, save or cancel that keeps the drawer busy
          noting,    \* the save of the note alone
          seen,      \* what has happened in this drawer, see Seen
          noted,     \* saves of a note alone so far
          behind,    \* the sessions changed since the calendar read them, and it was not told
          events     \* changes made elsewhere so far

vars == <<server, late, board, loading, drawer, form, confirm, check, conflict, op, noting,
          seen, noted, behind, events>>

Drawer == [id: Ids \cup {"new"}, mode: {"view", "edit"}, was: Session]
Seen == [asked: BOOLEAN,    \* its cancel button was pressed
         reset: BOOLEAN,    \* the services or the time zone arrived
         deaf: BOOLEAN,     \* the newest check failed
         kept: BOOLEAN,     \* the note in the form is the one saved last, and nobody else wrote it
         made: 0..2,        \* sessions created from it
         lost: BOOLEAN]     \* an answer to it was lost
Check == [stage: {"idle", "asked"}, start: Starts \cup {None}, hit: BOOLEAN]
Answers == {"none", "ok", "failed"}
Op == [kind: {"create", "save", "cancel"}, id: Ids \cup {"new"}, to: Session,
       knew: {"scheduled", "cancelled"},   \* the status in the copy the drawer was opened with
       own: BOOLEAN,                       \* its drawer is still open
       answer: Answers]
Noting == [id: Ids, note: Notes, own: BOOLEAN, answer: Answers]

TypeOK == /\ server \in [Ids -> Session \cup {None}] /\ late \in BOOLEAN
          /\ board \in [Ids -> Session \cup {None}] \cup {None}
          /\ loading \in BOOLEAN
          /\ drawer \in Drawer \cup {None} /\ form \in Session \cup {None}
          /\ drawer = None <=> form = None
          /\ confirm \in BOOLEAN /\ check \in Check
          /\ conflict \in Starts \cup {None}
          /\ op \in Op \cup {None} /\ noting \in Noting \cup {None}
          /\ confirm \/ ~seen.asked
          /\ noted \in 0..MaxNotes
          /\ seen \in Seen /\ behind \in BOOLEAN
          /\ events \in 0..MaxEvents

NoCheck == [stage |-> "idle", start |-> None, hit |-> FALSE]
Unseen == [asked |-> FALSE, reset |-> FALSE, deaf |-> FALSE, kept |-> FALSE, made |-> 0, lost |-> FALSE]

Clash(s, t) == \E i \in Ids : i # s /\ server[i] # None
                              /\ server[i].start = t /\ server[i].status = "scheduled"

Init == /\ server \in [Ids -> Session \cup {None}]
        /\ \A s \in Ids : server[s] # None /\ server[s].status = "scheduled"
                              => ~Clash(s, server[s].start)
        /\ late \in BOOLEAN
        /\ board = None /\ loading = TRUE
        /\ drawer = None /\ form = None /\ confirm = FALSE
        /\ check = NoCheck /\ conflict = None /\ op = None /\ noting = None
        /\ seen = Unseen /\ noted = 0
        /\ behind = FALSE /\ events = 0

-----------------------------------------------------------------------------
(* The calendar. *)

\* useLoad: only the newest load counts, so one that runs is started anew.
Loaded ==
    /\ loading /\ loading' = FALSE
    /\ board' = server /\ behind' = FALSE
    /\ UNCHANGED <<server, late, drawer, form, confirm, check, conflict, op, noting,
                   seen, noted, events>>

LoadFailed ==
    /\ loading /\ loading' = FALSE
    /\ behind' = TRUE
    /\ UNCHANGED <<server, late, board, drawer, form, confirm, check, conflict, op, noting,
                   seen, noted, events>>

Retry ==
    /\ ~loading /\ behind
    /\ loading' = TRUE
    /\ UNCHANGED <<server, late, board, drawer, form, confirm, check, conflict, op, noting,
                   seen, noted, behind, events>>

-----------------------------------------------------------------------------
(* The drawer. *)

\* A variant of ToForm: the form starts as scheduled.
ToFormScheduled(d) == [d.was EXCEPT !.status = "scheduled"]

\* What the fields hold for the session the drawer was opened with.
ToForm(d) == d.was

\* The form of a new session: free of notes, at a start proposed by the clock.
EmptyForm(t) == [start |-> t, status |-> "scheduled", note |-> CHOOSE n \in Notes : TRUE]

\* The effect that looks for a clash whenever the time of an open drawer changes.
CheckFor(t) == check' = [stage |-> "asked", start |-> t, hit |-> FALSE]

Open(d) ==
    /\ drawer = None
    /\ drawer' = d /\ form' = ToForm(d)
    /\ conflict' = None /\ CheckFor(ToForm(d).start)
    /\ seen' = Unseen
    /\ UNCHANGED <<server, late, board, loading, confirm, op, noting, noted, behind, events>>

OpenSession ==
    /\ board # None
    /\ \E s \in Ids : /\ board[s] # None
                      /\ Open([id |-> s, mode |-> "view", was |-> board[s]])

\* openSessionDrawer without a session: the form it starts from stands in for the copy.
OpenNew == \E t \in Starts : Open([id |-> "new", mode |-> "edit", was |-> EmptyForm(t)])

\* The services or the time zone arrive: an open drawer starts over.
ListsArrive ==
    /\ late /\ late' = FALSE
    /\ IF drawer = None
       THEN UNCHANGED <<form, conflict, check, seen>>
       ELSE /\ form' = ToForm(drawer) /\ conflict' = None
            /\ IF form.start = ToForm(drawer).start THEN UNCHANGED check
               ELSE CheckFor(ToForm(drawer).start)
            /\ seen' = [seen EXCEPT !.reset = TRUE]
    /\ UNCHANGED <<server, board, loading, drawer, confirm, op, noting, noted, behind, events>>

Edit == /\ drawer # None /\ drawer.mode = "view"
        /\ drawer' = [drawer EXCEPT !.mode = "edit"]
        /\ UNCHANGED <<server, late, board, loading, form, confirm, check, conflict, op, noting,
                       seen, noted, behind, events>>

TypeStart ==
    /\ drawer # None /\ drawer.mode = "edit" /\ ~confirm
    /\ \E t \in Starts \ {form.start} :
         /\ form' = [form EXCEPT !.start = t]
         /\ CheckFor(t)
    /\ seen' = [seen EXCEPT !.deaf = FALSE]
    /\ UNCHANGED <<server, late, board, loading, drawer, confirm, conflict, op, noting,
                   noted, behind, events>>

TypeNote ==
    /\ drawer # None /\ ~confirm
    /\ \E n \in Notes \ {form.note} : form' = [form EXCEPT !.note = n]
    /\ seen' = [seen EXCEPT !.kept = FALSE]
    /\ UNCHANGED <<server, late, board, loading, drawer, confirm, check, conflict, op, noting,
                   noted, behind, events>>

AskCancel ==
    /\ drawer # None /\ drawer.mode = "edit" /\ drawer.id # "new"
    /\ op = None /\ ~confirm
    /\ confirm' = TRUE /\ seen' = [seen EXCEPT !.asked = TRUE]
    /\ UNCHANGED <<server, late, board, loading, drawer, form, check, conflict, op, noting,
                   noted, behind, events>>

\* Also while a closed drawer moves out.
KeepSession ==
    /\ confirm /\ op = None
    /\ confirm' = FALSE
    /\ seen' = [seen EXCEPT !.asked = FALSE]
    /\ UNCHANGED <<server, late, board, loading, drawer, form, check, conflict, op, noting,
                   noted, behind, events>>

\* What becomes of the requests of a drawer that closes: they go on without it.
Orphaned(c) == IF c = None THEN None ELSE [c EXCEPT !.own = FALSE]

\* The drawer is gone: nothing of it is left but an open dialog.
Shut == /\ drawer' = None /\ form' = None
        /\ check' = NoCheck /\ conflict' = None /\ seen' = Unseen

\* The cross, or Escape, which is all that reaches a drawer behind its dialog.  Of the
\* two the one opened first hears it first, and React renders before the other's turn:
\* a drawer that closes takes its dialog's listener along, and the dialog stays asked.
Close ==
    /\ drawer # None
    /\ Shut
    /\ confirm' \in IF seen.asked \/ op # None THEN {confirm} ELSE {confirm, FALSE}
    /\ op' = Orphaned(op) /\ noting' = Orphaned(noting)
    /\ UNCHANGED <<server, late, board, loading, noted, behind, events>>

-----------------------------------------------------------------------------
(* The check for a clash. *)

CheckAnswered ==
    /\ check.stage = "asked"
    /\ LET hit == Clash(drawer.id, check.start) IN
         /\ check' = [check EXCEPT !.stage = "idle", !.hit = hit]
         /\ conflict' = IF hit THEN check.start ELSE None
    /\ seen' = [seen EXCEPT !.deaf = FALSE]
    /\ UNCHANGED <<server, late, board, loading, drawer, form, confirm, op, noting,
                   noted, behind, events>>

CheckFailed ==
    /\ check.stage # "idle"
    /\ check' = [check EXCEPT !.stage = "idle", !.hit = FALSE]
    /\ seen' = [seen EXCEPT !.deaf = TRUE]
    /\ UNCHANGED <<server, late, board, loading, drawer, form, confirm, conflict, op, noting,
                   noted, behind, events>>

-----------------------------------------------------------------------------
(* Create, save, cancel. *)

\* What a save sends: every field, the status among them.
Sent(d, f) == f

Ask(kind) == op' = [kind |-> kind, id |-> drawer.id, to |-> Sent(drawer, form),
                    knew |-> drawer.was.status, own |-> TRUE, answer |-> "none"]

\* A new session needs a service, which the form has once the services are there.
Save ==
    /\ drawer # None /\ drawer.mode = "edit" /\ ~confirm /\ op = None
    /\ drawer.id = "new" => ~late
    /\ Ask(IF drawer.id = "new" THEN "create" ELSE "save")
    /\ UNCHANGED <<server, late, board, loading, drawer, form, confirm, check, conflict, noting,
                   seen, noted, behind, events>>

\* The dialog acts on the session of the drawer that is open.
Cancel ==
    /\ drawer # None /\ confirm /\ op = None /\ drawer.id # "new"
    /\ Ask("cancel")
    /\ UNCHANGED <<server, late, board, loading, drawer, form, confirm, check, conflict, noting,
                   seen, noted, behind, events>>

SaveNote ==
    /\ drawer # None /\ drawer.id # "new" /\ ~confirm /\ noting = None
    /\ noted < MaxNotes /\ noted' = noted + 1
    /\ noting' = [id |-> drawer.id, note |-> form.note, own |-> TRUE, answer |-> "none"]
    /\ UNCHANGED <<server, late, board, loading, drawer, form, confirm, check, conflict, op,
                   seen, behind, events>>

\* The session a request leaves behind at the server.
Patched(c) == IF c.kind = "cancel" THEN [server[c.id] EXCEPT !.status = "cancelled"] ELSE c.to

\* The database excludes sessions that overlap and are not cancelled.
Accepts(c) == LET n == IF c.kind = "create" THEN c.to ELSE Patched(c) IN
              n.status = "scheduled" => ~Clash(c.id, n.start)

\* The server does what op asks; its answer arrives later or is lost.
Serve ==
    /\ op # None /\ op.answer = "none" /\ Accepts(op)
    /\ IF op.kind = "create"
       THEN \E s \in Ids : server[s] = None /\ server' = [server EXCEPT ![s] = op.to]
       ELSE server' = [server EXCEPT ![op.id] = Patched(op)]
    /\ \E a \in {"ok", "failed"} :
         /\ op' = [op EXCEPT !.answer = a]
         /\ seen' = IF ~op.own THEN seen
                    ELSE [seen EXCEPT !.lost = @ \/ (a = "failed" /\ op.kind = "create"),
                                      !.made = IF op.kind = "create" /\ @ < 2 THEN @ + 1 ELSE @]
         /\ behind' = (behind \/ a = "failed")
    /\ UNCHANGED <<late, board, loading, drawer, form, confirm, check, conflict, noting,
                   noted, events>>

Refuse ==
    /\ op # None /\ op.answer = "none"
    /\ op' = [op EXCEPT !.answer = "failed"]
    /\ UNCHANGED <<server, late, board, loading, drawer, form, confirm, check, conflict, noting,
                   seen, noted, behind, events>>

\* It succeeded: the calendar is loaded again and the drawer that is open closes,
\* whichever it is; a cancel also closes its dialog.
Succeeded ==
    /\ op # None /\ op.answer = "ok"
    /\ loading' = TRUE /\ op' = None
    /\ confirm' = (confirm /\ op.kind # "cancel")
    /\ Shut /\ noting' = Orphaned(noting)
    /\ UNCHANGED <<server, late, board, noted, behind, events>>

Failed ==
    /\ op # None /\ op.answer = "failed"
    /\ op' = None
    /\ UNCHANGED <<server, late, board, loading, drawer, form, confirm, check, conflict, noting,
                   seen, noted, behind, events>>

-----------------------------------------------------------------------------
(* The note alone. *)

ServeNote ==
    /\ noting # None /\ noting.answer = "none"
    /\ server' = [server EXCEPT ![noting.id].note = noting.note]
    /\ \E a \in {"ok", "failed"} : /\ noting' = [noting EXCEPT !.answer = a]
                                   /\ behind' = (behind \/ a = "failed")
    /\ UNCHANGED <<late, board, loading, drawer, form, confirm, check, conflict, op,
                   seen, noted, events>>

RefuseNote ==
    /\ noting # None /\ noting.answer = "none"
    /\ noting' = [noting EXCEPT !.answer = "failed"]
    /\ UNCHANGED <<server, late, board, loading, drawer, form, confirm, check, conflict, op,
                   seen, noted, behind, events>>

NoteSaved ==
    /\ noting # None /\ noting.answer # "none"
    /\ noting' = None
    /\ IF noting.answer = "ok"
       THEN /\ loading' = TRUE
            /\ seen' = IF noting.own /\ op = None
                       THEN [seen EXCEPT !.kept = form.note = noting.note
                                                  /\ server[noting.id].note = noting.note]
                       ELSE seen
       ELSE UNCHANGED <<loading, seen>>
    /\ UNCHANGED <<server, late, board, drawer, form, confirm, check, conflict, op,
                   noted, behind, events>>

-----------------------------------------------------------------------------
\* Another tab or another member cancels, moves or annotates a session.
Elsewhere ==
    /\ events < MaxEvents /\ events' = events + 1
    /\ \E s \in Ids, n \in Session :
         /\ server[s] # None /\ n # server[s]
         /\ n.status = "scheduled" => server[s].status = "scheduled" /\ ~Clash(s, n.start)
         /\ server' = [server EXCEPT ![s] = n]
    /\ behind' = TRUE /\ seen' = [seen EXCEPT !.kept = FALSE]
    /\ UNCHANGED <<late, board, loading, drawer, form, confirm, check, conflict, op, noting,
                   noted>>

Next == \/ Loaded \/ LoadFailed \/ Retry
        \/ OpenSession \/ OpenNew \/ ListsArrive \/ Edit \/ TypeStart \/ TypeNote
        \/ AskCancel \/ KeepSession \/ Close
        \/ CheckAnswered \/ CheckFailed
        \/ Save \/ Cancel \/ SaveNote
        \/ Serve \/ Refuse \/ Succeeded \/ Failed
        \/ ServeNote \/ RefuseNote \/ NoteSaved
        \/ Elsewhere

Spec == Init /\ [][Next]_vars

\* Every request is answered or fails in the end, and its answer is handled.
Fairness == /\ WF_vars(Serve \/ Refuse) /\ WF_vars(Succeeded) /\ WF_vars(Failed)
            /\ WF_vars(ServeNote \/ RefuseNote) /\ WF_vars(NoteSaved)

FairSpec == Spec /\ Fairness

-----------------------------------------------------------------------------
(* Properties. *)

\* The calendar shows the sessions as the server has them once nothing is under way,
\* unless something changed without it being told.
BoardFollows == ~loading /\ op = None /\ noting = None /\ ~behind => board = server

\* When the newest check was answered, the warning is its answer for the time in the
\* form: no late answer for an earlier time hides or raises it.
WarningIsForThisTime ==
    drawer # None /\ check.stage = "idle" /\ ~seen.deaf /\ ~seen.reset
        => conflict = IF check.hit THEN form.start ELSE None

\* What a comment in HISTORY says: "The session drawer warns about a clash".  An
\* answered check that found one leaves its warning on the drawer.
ClashIsShown == drawer # None /\ check.stage = "idle" /\ check.hit => conflict # None

\* A cancelled session comes back only through a drawer that was opened on a copy from
\* before: the status is a field of every save, though the form has no field for it.
RevivedUnseenStep ==
    \A s \in Ids : server[s] # None /\ server'[s] # None
                   /\ server[s].status = "cancelled" /\ server'[s].status = "scheduled"
                       => op.kind = "save" /\ op.knew = "scheduled"
\* What the dialog's title says: "Cancel this session?".  It asks in the drawer where it
\* was asked for, or waits for an answer.
DialogIsThisDrawers == drawer # None /\ confirm /\ op = None => seen.asked

\* One form makes one session, unless the answer to a create was lost.
CreatedOnce == seen.made > 1 => seen.lost

\* A note saved from the drawer stays in its form until it is typed anew, unless the
\* form starts over because the services or the time zone arrive.
NoteStays == drawer # None /\ seen.kept /\ ~seen.reset => form.note = server[drawer.id].note

\* A save of the details leaves alone a note that was saved from its drawer and not typed
\* since, unless the form started over or somebody else wrote it.
SaveKeepsNoteStep ==
    seen.kept /\ ~seen.reset /\ drawer # None /\ op # None /\ op.kind = "save" /\ op.own
    /\ events' = events
        => server'[drawer.id].note = server[drawer.id].note

\* What the comment above saveNote says: "the main Details "Save" stays consistent with
\* this", also with the note in a form that started over.
SaveKeepsNote ==
    [][seen.kept /\ drawer # None /\ op # None /\ op.kind = "save" /\ op.own
       /\ events' = events
          => server'[drawer.id].note = server[drawer.id].note]_vars

\* No answer and no reload of the calendar changes what the open drawer's fields hold.
TypedStaysStep ==
    drawer # None /\ drawer' # None /\ form' # form
       => UNCHANGED <<server, board, loading, op, noting>>
\* The buttons of the drawer come back whatever becomes of a request.
Awaited == (IF op # None THEN {"save"} ELSE {}) \cup (IF noting # None THEN {"note"} ELSE {})
=============================================================================
