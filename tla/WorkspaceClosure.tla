-------------------------- MODULE WorkspaceClosure --------------------------
(***************************************************************************)
(* Suspending, closing, reopening and deleting a workspace: the operator's *)
(* card (web/src: components/admin/settings/WorkspaceDataCard), the pages  *)
(* of Slotera's staff (components/superadmin/WorkspaceDetailView), and the *)
(* server between them (api/platform, api/workspace_data, the functions of *)
(* migrations 0017 and 0033).                                              *)
(*                                                                         *)
(* Each request of the staff looks the workspace up in one transaction and *)
(* writes in another.  The operator's sign-in looks at the status before   *)
(* it writes the session.  The 30 days after a closure pass as one step.   *)
(***************************************************************************)
EXTENDS Naturals, FiniteSets

CONSTANTS Tabs,   \* the staff's open pages
          None    \* nothing shown, nothing asked

VARIABLES ws,        \* status, closing ("no", "young", "due"), purged
          cause,     \* who suspended the workspace
          spared,    \* its closure was cancelled and not asked for again
          session,   \* the operator has a session that is not revoked
          signing,   \* a sign-in has found the workspace active
          card,      \* the operator's page, dialog, busy and request
          tab        \* the staff's pages

vars == <<ws, cause, spared, session, signing, card, tab>>
operator == <<session, signing, card>>

Statuses == {"active", "suspended"}
Shown == [status: Statuses, closing: BOOLEAN]
StatusOps == [want: Statuses, stage: {"sent", "seen", "seenClosing", "written", "failed"}]
CardOps == {"export", "close", "allowed", "closed", "refused"}

TypeOK == /\ ws \in [status: Statuses, closing: {"no", "young", "due"}, purged: BOOLEAN]
          /\ cause \in {"staff", "operator", None} /\ spared \in BOOLEAN
          /\ session \in BOOLEAN /\ signing \in BOOLEAN
          /\ card \in [page: {"settings", "login"}, confirming: BOOLEAN, busy: BOOLEAN,
                       op: CardOps \cup {None}]
          /\ tab \in [Tabs -> [shown: Shown \cup {None}, dialog: BOOLEAN, busy: BOOLEAN,
                               op: StatusOps \cup {None}]]
          /\ card.busy <=> card.op # None
          /\ card.page = "login" => card.op = None /\ ~card.confirming
          /\ \A t \in Tabs : (tab[t].busy <=> tab[t].op # None) /\ (tab[t].dialog => tab[t].shown # None)

Login == [page |-> "login", confirming |-> FALSE, busy |-> FALSE, op |-> None]
Blank == [shown |-> None, dialog |-> FALSE, busy |-> FALSE, op |-> None]

Init == /\ ws \in [status: Statuses, closing: {"no"}, purged: {FALSE}]
        /\ cause = IF ws.status = "suspended" THEN "staff" ELSE None
        /\ spared = FALSE
        /\ session = FALSE /\ signing = FALSE /\ card = Login
        /\ tab = [t \in Tabs |-> Blank]

-----------------------------------------------------------------------------
(* The operator. *)

create_session_checks ==
    /\ card.page = "login" /\ ~signing
    /\ ws.status = "active" /\ ~ws.purged
    /\ signing' = TRUE
    /\ UNCHANGED <<ws, cause, spared, session, card, tab>>

\* The session is written, whatever has become of the workspace, and works while it is active.
create_session_writes ==
    /\ signing
    /\ signing' = FALSE
    /\ session' = ~ws.purged
    /\ card' = IF ws.status = "active" /\ ~ws.purged THEN [card EXCEPT !.page = "settings"] ELSE card
    /\ UNCHANGED <<ws, cause, spared, tab>>

\* A page with a session that works again, or never ceased to.
ComeBack ==
    /\ card.page = "login" /\ session /\ ws.status = "active"
    /\ card' = [card EXCEPT !.page = "settings"]
    /\ UNCHANGED <<ws, cause, spared, session, signing, tab>>

download ==
    /\ card.page = "settings" /\ ~card.busy /\ ~card.confirming
    /\ card' = [card EXCEPT !.busy = TRUE, !.op = "export"]
    /\ UNCHANGED <<ws, cause, spared, session, signing, tab>>

AskClose ==
    /\ card.page = "settings" /\ ~card.busy /\ ~card.confirming
    /\ card' = [card EXCEPT !.confirming = TRUE]
    /\ UNCHANGED <<ws, cause, spared, session, signing, tab>>

\* The dialog does not close while its request is under way.
Keep ==
    /\ card.confirming /\ ~card.busy
    /\ card' = [card EXCEPT !.confirming = FALSE]
    /\ UNCHANGED <<ws, cause, spared, session, signing, tab>>

\* The address of the booking page has been typed.
close ==
    /\ card.confirming /\ ~card.busy
    /\ card' = [card EXCEPT !.busy = TRUE, !.op = "close"]
    /\ UNCHANGED <<ws, cause, spared, session, signing, tab>>

\* The request's session is looked up before the closure is written.
close_workspace ==
    /\ card.op = "close"
    /\ card' = [card EXCEPT !.op = IF session /\ ws.status = "active" THEN "allowed" ELSE "refused"]
    /\ UNCHANGED <<ws, cause, spared, session, signing, tab>>

\* The workspace goes offline and its sessions are revoked; one that is closing cannot be closed.
request_closure ==
    /\ card.op = "allowed"
    /\ IF ws.closing = "no" /\ ~ws.purged
       THEN /\ ws' = [ws EXCEPT !.status = "suspended", !.closing = "young"]
            /\ cause' = "operator" /\ spared' = FALSE /\ session' = FALSE
            /\ card' = [card EXCEPT !.op = "closed"]
       ELSE /\ card' = [card EXCEPT !.op = "refused"]
            /\ UNCHANGED <<ws, cause, spared, session>>
    /\ UNCHANGED <<signing, tab>>

Closed ==
    /\ card.op = "closed"
    /\ card' = Login
    /\ UNCHANGED <<ws, cause, spared, session, signing, tab>>

\* The request was refused, or it or its answer was lost; or an export ends, one way or the other.
Refused ==
    /\ card.op # None
    /\ card' = [card EXCEPT !.busy = FALSE, !.op = None]
    /\ UNCHANGED <<ws, cause, spared, session, signing, tab>>

\* The first request that is refused for want of a session leads to the sign-in.
Expired ==
    /\ card.page = "settings" /\ ~card.busy
    /\ ~session \/ ws.status # "active"
    /\ card' = Login
    /\ UNCHANGED <<ws, cause, spared, session, signing, tab>>

-----------------------------------------------------------------------------
(* The staff. *)

getWorkspace(t) ==
    /\ tab[t].shown = None /\ ~ws.purged
    /\ tab' = [tab EXCEPT ![t].shown = [status |-> ws.status, closing |-> ws.closing # "no"]]
    /\ UNCHANGED <<ws, cause, spared, operator>>

\* The button suspends or reactivates, by what the page shows.
AskStatus(t) ==
    /\ tab[t].shown # None /\ ~tab[t].dialog /\ ~tab[t].busy
    /\ tab' = [tab EXCEPT ![t].dialog = TRUE]
    /\ UNCHANGED <<ws, cause, spared, operator>>

\* Only the dialog's own button is disabled while the request is under way.
CloseDialog(t) ==
    /\ tab[t].dialog
    /\ tab' = [tab EXCEPT ![t].dialog = FALSE]
    /\ UNCHANGED <<ws, cause, spared, operator>>

handleSuspend(t) ==
    /\ tab[t].dialog /\ ~tab[t].busy
    /\ tab' = [tab EXCEPT ![t].busy = TRUE,
                 ![t].op = [want |-> IF tab[t].shown.status = "suspended" THEN "active" ELSE "suspended",
                            stage |-> "sent"]]
    /\ UNCHANGED <<ws, cause, spared, operator>>

At(t, stage) == tab[t].op # None /\ tab[t].op.stage = stage
Move(t, stage) == tab' = [tab EXCEPT ![t].op.stage = stage]

\* Whether a closure is under way is read first.
Look(t) ==
    /\ At(t, "sent")
    /\ Move(t, IF ws.closing = "no" \/ ws.purged THEN "seen" ELSE "seenClosing")
    /\ UNCHANGED <<ws, cause, spared, operator>>

set_operational_status(t) ==
    /\ At(t, "seen") \/ (At(t, "seenClosing") /\ tab[t].op.want = "suspended")
    /\ IF ws.purged THEN Move(t, "failed") /\ UNCHANGED <<ws, cause, session>>
       ELSE IF ws.status = tab[t].op.want THEN Move(t, "written") /\ UNCHANGED <<ws, cause, session>>
       ELSE /\ ws' = [ws EXCEPT !.status = tab[t].op.want]
            /\ cause' = IF tab[t].op.want = "suspended" THEN "staff" ELSE None
            /\ session' = (session /\ tab[t].op.want = "active")
            /\ Move(t, "written")
    /\ UNCHANGED <<spared, signing, card>>

\* Reactivating a closing workspace cancels the closure; when another has, it fails.
cancel_closure(t) ==
    /\ At(t, "seenClosing") /\ tab[t].op.want = "active"
    /\ IF ws.closing # "no" /\ ~ws.purged
       THEN /\ ws' = [ws EXCEPT !.status = "active", !.closing = "no"]
            /\ cause' = None /\ spared' = TRUE
            /\ Move(t, "written")
       ELSE Move(t, "failed") /\ UNCHANGED <<ws, cause, spared>>
    /\ UNCHANGED operator

\* The page shows the workspace as it is read back, and the dialog closes.
Answered(t) ==
    /\ At(t, "written") /\ ~ws.purged
    /\ tab' = [tab EXCEPT ![t] = [shown |-> [status |-> ws.status, closing |-> ws.closing # "no"],
                                  dialog |-> FALSE, busy |-> FALSE, op |-> None]]
    /\ UNCHANGED <<ws, cause, spared, operator>>

\* The request or its answer is lost, or the server has failed: only a message is shown.
Failed(t) ==
    /\ tab[t].op # None
    /\ tab' = [tab EXCEPT ![t].busy = FALSE, ![t].op = None]
    /\ UNCHANGED <<ws, cause, spared, operator>>

\* Back to the list; the next page reads the workspace anew.
LeavePage(t) ==
    /\ tab[t].shown # None /\ tab[t].op = None
    /\ tab' = [tab EXCEPT ![t] = Blank]
    /\ UNCHANGED <<ws, cause, spared, operator>>

-----------------------------------------------------------------------------
(* Time. *)

ThirtyDays ==
    /\ ws.closing = "young"
    /\ ws' = [ws EXCEPT !.closing = "due"]
    /\ UNCHANGED <<cause, spared, operator, tab>>

\* A variant of purge_closed: the days are compared the wrong way round.
purge_closedYoung ==
    /\ ws.closing = "young" /\ ws.status = "suspended" /\ ~ws.purged
    /\ ws' = [ws EXCEPT !.purged = TRUE]
    /\ session' = FALSE
    /\ UNCHANGED <<cause, spared, signing, card, tab>>

\* The maintenance job deletes what is still suspended then.
purge_closed ==
    /\ ws.closing = "due" /\ ws.status = "suspended" /\ ~ws.purged
    /\ ws' = [ws EXCEPT !.purged = TRUE]
    /\ session' = FALSE
    /\ UNCHANGED <<cause, spared, signing, card, tab>>

Operator == \/ create_session_checks \/ create_session_writes \/ ComeBack \/ download \/ AskClose \/ Keep
            \/ close \/ close_workspace \/ request_closure \/ Closed \/ Refused \/ Expired
Staff(t) == \/ getWorkspace(t) \/ AskStatus(t) \/ CloseDialog(t) \/ handleSuspend(t) \/ Look(t)
            \/ set_operational_status(t) \/ cancel_closure(t) \/ Answered(t) \/ Failed(t) \/ LeavePage(t)

Next == Operator \/ ThirtyDays \/ purge_closed \/ \E t \in Tabs : Staff(t)

Spec == Init /\ [][Next]_vars

-----------------------------------------------------------------------------
(* Properties. *)

\* A workspace whose closure was cancelled is not deleted, whoever suspends it afterwards, until
\* the operator closes it again.
CancelledIsKept == ws.purged => ~spared

\* A closed workspace is deleted in the end, unless it was reactivated.
Expected == ws.closing # "no"
Fulfilled == ws.purged \/ ws.status = "active"
\* The buttons come back, on the card and on every page of the staff.
Awaited == (IF card.busy THEN {"save"} ELSE {}) \cup {t \in Tabs : tab[t].busy}
\* What the staff suspend is retained: only a suspension by the operator's closure ends in deletion.
SuspendedIsRetained == [][ws.purged' /\ ~ws.purged => cause = "operator"]_vars

\* Suspension revokes the operator's sessions.
SuspensionRevokes == ws.status = "suspended" => ~session

=============================================================================
