---------------------------- MODULE Notifications ----------------------------
(***************************************************************************)
(* The bell of the operator's pages (web/src: components/layout/           *)
(* NotificationsButton.tsx, services/notifications.service.ts;             *)
(* slotera_api: operator_resources/notifications_repository.py).           *)
(*                                                                         *)
(* A bell reads the newest notifications once, when its page is opened,    *)
(* and every page and tab has its own.  What each notification says is     *)
(* left out, and who makes it is BookingMail's.                            *)
(***************************************************************************)
EXTENDS Naturals, FiniteSets

CONSTANTS Tabs,
          MaxNotices, \* notifications ever made
          Limit,      \* of the list
          MaxCalls    \* requests under way

BellAssumption == MaxNotices \in Nat /\ Limit \in Nat \ {0} /\ MaxCalls \in Nat

VARIABLES made,   \* notifications are numbered as they occur
          read,   \* those with a read_at
          bell,   \* of every tab
          calls,  \* requests under way
          crossed \* tabs where two requests to mark were under way

vars == <<made, read, bell, calls, crossed>>

Bells == [open: BOOLEAN, items: SUBSET (1 .. MaxNotices), unread: SUBSET (1 .. MaxNotices), error: BOOLEAN]
Calls == [tab: Tabs, kind: {"list", "mark"}, served: BOOLEAN, items: SUBSET (1 .. MaxNotices),
          unread: SUBSET (1 .. MaxNotices), n: {1, 2}, gone: BOOLEAN]

Mounted == [open |-> FALSE, items |-> {}, unread |-> {}, error |-> FALSE]
Request(t, kind, n) == [tab |-> t, kind |-> kind, served |-> FALSE, items |-> {}, unread |-> {},
                     n |-> n, gone |-> FALSE]

TypeOK == /\ made \in 0 .. MaxNotices /\ read \subseteq 1 .. made
          /\ bell \in [Tabs -> Bells] /\ calls \subseteq Calls /\ Cardinality(calls) <= MaxCalls
          /\ crossed \subseteq Tabs
          \* a bell shows the newest of what there was
          /\ \A t \in Tabs : /\ bell[t].unread \subseteq bell[t].items
                             /\ bell[t].items \subseteq 1 .. made
                             /\ Cardinality(bell[t].items) <= Limit

Init == /\ made = 0 /\ read = {} /\ crossed = {}
        /\ bell = [t \in Tabs |-> Mounted]
        /\ calls = {Request(t, "list", 1) : t \in Tabs}

-----------------------------------------------------------------------------
(* The bell. *)

\* Another page: its own bell, and the answers to the last one are dropped.
Navigate(t) ==
    /\ bell' = [bell EXCEPT ![t] = Mounted]
    /\ calls' = {c \in calls : c.tab # t} \cup {Request(t, "list", 1)} \cup
                    {[c EXCEPT !.gone = TRUE] : c \in {d \in calls : d.tab = t /\ d.kind = "mark" /\ ~d.served}}
    /\ Cardinality(calls') <= MaxCalls
    /\ crossed' = crossed \ {t}
    /\ UNCHANGED <<made, read>>

\* The button, or a press outside the open list.
setOpen(t) ==
    /\ bell' = [bell EXCEPT ![t].open = ~@]
    /\ UNCHANGED <<made, read, calls, crossed>>

\* The button is there while anything is unread, also after a click.
handleMarkAll(t) ==
    /\ bell[t].open /\ bell[t].unread # {}
    /\ Cardinality(calls) < MaxCalls
    /\ \E n \in {1, 2} : /\ Request(t, "mark", n) \notin calls
                         /\ calls' = calls \cup {Request(t, "mark", n)}
    /\ crossed' = IF \E c \in calls : c.tab = t /\ c.kind = "mark" /\ ~c.gone
                  THEN crossed \cup {t} ELSE crossed
    /\ UNCHANGED <<made, read, bell>>

-----------------------------------------------------------------------------
(* The server. *)

Notify ==
    /\ made < MaxNotices
    /\ made' = made + 1
    /\ UNCHANGED <<read, bell, calls, crossed>>

Newest == {n \in 1 .. made : made - n < Limit}

list_for_principal(c) ==
    /\ c.kind = "list" /\ ~c.served
    /\ calls' = (calls \ {c}) \cup {[c EXCEPT !.served = TRUE, !.items = Newest, !.unread = Newest \ read]}
    /\ UNCHANGED <<made, read, bell, crossed>>

\* All of them, shown or not.
mark_all_read(c) ==
    /\ c.kind = "mark" /\ ~c.served
    /\ read' = 1 .. made
    /\ calls' = (calls \ {c}) \cup (IF c.gone THEN {} ELSE {[c EXCEPT !.served = TRUE]})
    /\ UNCHANGED <<made, bell, crossed>>

-----------------------------------------------------------------------------
(* The answers. *)

Answered(c) ==
    /\ c.served
    /\ calls' = calls \ {c}
    /\ bell' = [bell EXCEPT ![c.tab] =
                   IF c.kind = "list" THEN [@ EXCEPT !.items = c.items, !.unread = c.unread]
                                      ELSE [@ EXCEPT !.unread = {}, !.error = FALSE]]
    /\ UNCHANGED <<made, read, crossed>>

\* The error takes the place of the list.
Failed(c) ==
    /\ ~c.gone
    /\ calls' = calls \ {c}
    /\ bell' = [bell EXCEPT ![c.tab].error = TRUE]
    /\ UNCHANGED <<made, read, crossed>>

Next == \/ Notify
        \/ \E t \in Tabs : Navigate(t) \/ setOpen(t) \/ handleMarkAll(t)
        \/ \E c \in calls : list_for_principal(c) \/ mark_all_read(c) \/ Answered(c) \/ Failed(c)

Spec == Init /\ [][Next]_vars

-----------------------------------------------------------------------------
(* What a bell shows as read is read, with bells of other tabs and pages,  *)
(* notifications that arrive and requests that fail half-way.              *)
ReadIsRead == \A t \in Tabs : bell[t].items \ bell[t].unread \subseteq read

(* An error in place of the list leaves the button that clears it, unless  *)
(* the button was pressed again before it was answered.                    *)
ErrorCanBeCleared ==
    \A t \in Tabs : bell[t].error /\ bell[t].items # {} /\ t \notin crossed => bell[t].unread # {}

=============================================================================
