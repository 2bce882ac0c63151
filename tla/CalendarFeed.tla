---------------------------- MODULE CalendarFeed ----------------------------
(***************************************************************************)
(* The private link of an operator's calendar (web/src: components/admin/  *)
(* settings/CalendarFeedCard.tsx, services/settings.service.ts;            *)
(* slotera_api: calendar_feed.py, api/calendar_feed.py).                   *)
(*                                                                         *)
(* Several tabs of one operator show the card.  A new link is made by one  *)
(* transaction that revokes the live ones it sees and inserts its own; at  *)
(* READ COMMITTED it sees what was committed when its UPDATE began.        *)
(***************************************************************************)
EXTENDS Naturals, FiniteSets

CONSTANTS Tabs,
          Links,    \* tokens; each is issued once
          MaxCalls, \* requests under way
          None

FeedAssumption == MaxCalls \in Nat /\ None \notin Links

VARIABLES card,    \* what each tab shows
          calls,   \* requests under way, with what the server has done of them
          live,    \* links whose calendar_feed_tokens row is not revoked
          issued,  \* links ever made
          crossed  \* the live links that were made while another one was being made

vars == <<card, calls, live, issued, crossed>>

Kinds == {"load", "create", "look", "revoke"}
Cards == [status: {"unknown", "none", "active"}, url: Links \cup {None}, busy: BOOLEAN,
          confirm: {None, "regenerate", "revoke"}, fresh: BOOLEAN, freshUrl: BOOLEAN]
Calls == [tab: Tabs, kind: Kinds, phase: {"sent", "running", "served"}, seen: SUBSET Links,
          link: Links \cup {None}, active: BOOLEAN, fresh: BOOLEAN, gone: BOOLEAN,
          beside: BOOLEAN]  \* a link is made while another one is

Mounted == [status |-> "unknown", url |-> None, busy |-> FALSE, confirm |-> None,
            fresh |-> FALSE, freshUrl |-> FALSE]
Request(t, kind) == [tab |-> t, kind |-> kind, phase |-> "sent", seen |-> {}, link |-> None,
                     active |-> FALSE, fresh |-> FALSE, gone |-> FALSE, beside |-> FALSE]
Of(t) == {c \in calls : c.tab = t /\ ~c.gone}

TypeOK == /\ card \in [Tabs -> Cards] /\ live \subseteq issued /\ issued \subseteq Links
          /\ calls \subseteq Calls /\ Cardinality(calls) <= MaxCalls
          /\ crossed \subseteq live
          \* a card awaits one answer at a time, and a busy one awaits one
          /\ \A t \in Tabs : /\ Cardinality(Of(t)) <= 1
                             /\ card[t].busy <=> \E c \in Of(t) : c.kind # "load"

Init == /\ live \in {{}} \cup {{l} : l \in Links}
        /\ issued = live
        /\ card = [t \in Tabs |-> Mounted]
        /\ calls = {Request(t, "load") : t \in Tabs}
        /\ crossed = {}

-----------------------------------------------------------------------------
(* The card. *)

\* Another section of the settings and back: the card starts again, what it
\* awaited goes on without it.
Remount(t) ==
    /\ Cardinality(calls) < MaxCalls
    /\ card' = [card EXCEPT ![t] = Mounted]
    /\ calls' = {IF c \in Of(t) THEN [c EXCEPT !.gone = TRUE] ELSE c : c \in calls}
                    \cup {Request(t, "load")}
    /\ UNCHANGED <<live, issued, crossed>>

Submit(t, kind) ==
    /\ Cardinality(calls) < MaxCalls
    /\ card' = [card EXCEPT ![t].busy = TRUE]
    /\ calls' = calls \cup {Request(t, kind)}
    /\ UNCHANGED <<live, issued, crossed>>

\* "Create calendar link": at once where the card knows of no link.
create(t) == card[t].status = "none" /\ ~card[t].busy /\ card[t].confirm = None /\ Submit(t, "create")

Ask(t, what) ==
    /\ card[t].status = "active" /\ ~card[t].busy /\ card[t].confirm = None
    /\ card' = [card EXCEPT ![t].confirm = what]
    /\ UNCHANGED <<calls, live, issued, crossed>>

\* Also while the card is busy, by Escape and the backdrop.
onClose(t) ==
    /\ card[t].confirm # None
    /\ card' = [card EXCEPT ![t].confirm = None]
    /\ UNCHANGED <<calls, live, issued, crossed>>

onConfirm(t) ==
    /\ card[t].confirm # None /\ ~card[t].busy
    /\ Submit(t, IF card[t].confirm = "revoke" THEN "revoke" ELSE "create")

-----------------------------------------------------------------------------
(* The server. *)

\* What becomes of a request the server has dealt with.
Reply(c, r) == (calls \ {c}) \cup (IF c.gone THEN {} ELSE {r})

created_at(c) ==
    /\ c.phase = "sent" /\ c.kind \in {"load", "look"}
    /\ calls' = Reply(c, [c EXCEPT !.phase = "served", !.active = live # {}, !.fresh = TRUE])
    /\ UNCHANGED <<card, live, issued, crossed>>

\* The UPDATE begins.
beginRevoke(c) ==
    /\ c.phase = "sent" /\ c.kind \in {"create", "revoke"}
    /\ LET others == IF c.kind = "create" THEN {d \in calls : d.kind = "create" /\ d.phase = "running"} ELSE {}
       IN  calls' = (calls \ ({c} \cup others)) \cup {[d EXCEPT !.beside = TRUE] : d \in others}
                        \cup {[c EXCEPT !.phase = "running", !.seen = live, !.beside = others # {}]}
    /\ UNCHANGED <<card, live, issued, crossed>>

\* What was known before a change is not fresh after it.
Changed(c, r) ==
    /\ calls' = {[d EXCEPT !.fresh = FALSE] : d \in calls \ {c}} \cup (IF c.gone THEN {} ELSE {r})
    /\ card' = [t \in Tabs |-> [card[t] EXCEPT !.fresh = FALSE, !.freshUrl = FALSE]]

rotate(c, l) ==
    /\ c.phase = "running" /\ c.kind = "create" /\ l \notin issued
    /\ live' = (live \ c.seen) \cup {l}
    /\ issued' = issued \cup {l}
    /\ crossed' = (crossed \cup (IF c.beside THEN {l} ELSE {})) \cap live'
    /\ Changed(c, [c EXCEPT !.phase = "served", !.seen = {}, !.link = l, !.fresh = TRUE, !.beside = FALSE])

\* A link made since the UPDATE began stays, and the answer does not tell.
revoke(c) ==
    /\ c.phase = "running" /\ c.kind = "revoke"
    /\ live' = live \ c.seen
    /\ crossed' = crossed \cap live' /\ UNCHANGED issued
    /\ Changed(c, [c EXCEPT !.phase = "served", !.seen = {}, !.fresh = (live \ c.seen) = {}])

-----------------------------------------------------------------------------
(* The answers. *)

Answered(c, k) == c.phase = "served" /\ ~c.gone /\ card' = [card EXCEPT ![c.tab] = k]
                  /\ UNCHANGED <<live, issued, crossed>>

\* The status, on mount and after a link was made.
Looked(c) ==
    LET k == card[c.tab]
        n == [k EXCEPT !.status = IF c.active THEN "active" ELSE "none", !.fresh = c.fresh]
    IN  /\ c.kind \in {"load", "look"}
        /\ Answered(c, IF c.kind = "load" THEN n ELSE [n EXCEPT !.confirm = None, !.busy = FALSE])
        /\ calls' = calls \ {c}

\* The link is shown before its status is asked for.
Created(c) ==
    /\ c.kind = "create"
    /\ Answered(c, [card[c.tab] EXCEPT !.url = c.link, !.freshUrl = c.fresh])
    /\ calls' = (calls \ {c}) \cup {Request(c.tab, "look")}

Revoked(c) ==
    /\ c.kind = "revoke"
    /\ Answered(c, [card[c.tab] EXCEPT !.url = None, !.status = "none", !.confirm = None,
                                       !.busy = FALSE, !.fresh = c.fresh, !.freshUrl = c.fresh])
    /\ calls' = calls \ {c}

\* The request or its answer is lost, or it is refused; the server may still
\* be at it.  On mount nothing tells, and the card keeps its first state.
Failed(c) ==
    /\ ~c.gone
    /\ card' = [card EXCEPT ![c.tab].busy = IF c.kind = "load" THEN @ ELSE FALSE]
    /\ \/ calls' = calls \ {c}  /\ c.phase # "running"
       \/ calls' = (calls \ {c}) \cup {[c EXCEPT !.gone = TRUE]} /\ c.phase # "served"
    /\ UNCHANGED <<live, issued, crossed>>

Answer(c) == Looked(c) \/ Created(c) \/ Revoked(c) \/ Failed(c)

Next == \/ \E t \in Tabs : \/ Remount(t) \/ create(t) \/ onClose(t) \/ onConfirm(t)
                           \/ \E what \in {"regenerate", "revoke"} : Ask(t, what)
        \/ \E c \in calls : \/ created_at(c) \/ beginRevoke(c) \/ revoke(c) \/ Answer(c)
                            \/ \E l \in Links : rotate(c, l)

Spec == Init /\ [][Next]_vars

\* What a card awaits is answered or fails in the end.
FairSpec == Spec /\ \A t \in Tabs : WF_vars(\E c \in Of(t) : Answer(c))

-----------------------------------------------------------------------------
(* The link a card shows opens the calendar and its status is the server's *)
(* as long as nothing was made or revoked since what it was told: with     *)
(* lost answers, cards that start again and requests that outlive theirs.  *)
CardIsTrue ==
    \A t \in Tabs :
        /\ card[t].freshUrl /\ card[t].url # None => card[t].url \in live
        /\ card[t].fresh => (card[t].status = "active" <=> live # {})

(* Two links open the calendar only where each was made while another one  *)
(* was being made: a link made alone leaves no other, whatever crossed     *)
(* before it.                                                              *)
TwoOnlyByCrossing == Cardinality(live) > 1 => live \subseteq crossed

(* A busy card is ready again, whatever becomes of its two requests.       *)
Awaited == {t \in Tabs : card[t].busy}
(* "Creates a new subscribe link (revoking any earlier one)".              *)
OneLink == Cardinality(live) <= 1

(* "revocable, and replaced when regenerated": a card can turn off the     *)
(* link it shows.                                                          *)
ShownIsRevocable ==
    \A t \in Tabs : card[t].url # None /\ ~card[t].busy => card[t].status = "active"

=============================================================================
