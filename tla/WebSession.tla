----------------------------- MODULE WebSession -----------------------------
(***************************************************************************)
(* Who the web client takes its user for: the session cookie and the copy  *)
(* of the session in localStorage, both shared by the tabs of a browser,   *)
(* and the guard of the protected pages (web/src: services/auth.service,   *)
(* lib/session, lib/nav, AuthGuard, Sidebar, the sign-in and reset pages,  *)
(* Settings -> Account), against the sessions that the server keeps.       *)
(*                                                                         *)
(* A request is sent with the cookie of that moment, served at another and *)
(* its answer handled at a third.  It may fail before or after the server  *)
(* acted.  Abstracted: contents of forms, the lifetime of a session (one   *)
(* may end at any moment), and pages other than a listed and an unlisted   *)
(* one of the workspace, one of the platform, and the open ones.           *)
(***************************************************************************)
EXTENDS Naturals, FiniteSets

CONSTANTS Users,
          Staff,         \* the users of the platform, the others are operators
          Tabs,
          MaxSessions,   \* bound: sign-ins
          Forms,         \* bound: of "reset", "change", "close", those that are used
          Slots,         \* bound: requests in flight at a time
          None           \* no cookie, no stored session, no request

WebAssumption == /\ Staff \subseteq Users
                 /\ MaxSessions \in Nat
                 /\ None \notin Users \cup (1..MaxSessions)

VARIABLES cookie,    \* the browser's session cookie
          stored,    \* localStorage: the user of slotera.session
          owner,     \* server: the user of each session that lives
          tab,       \* the page of each tab
          calls,     \* the requests in flight
          resting    \* the users have left the browser alone (for GuardSettles)

vars == <<cookie, stored, owner, tab, calls, resting>>

SessionIds == 1..MaxSessions

Operators == Users \ Staff
RoleOf(u) == IF u \in Staff THEN "superadmin" ELSE "operator_admin"

Guarded == {"dashboard", "unlisted", "overview"}
Pages == Guarded \cup {"login", "reset", "onboarding"}
RequiredRole(p) == IF p = "overview" THEN "superadmin" ELSE "operator_admin"
NavForRole(r) == IF r = "superadmin" THEN {"overview"} ELSE {"dashboard"}
IsNavRoute(r, p) == p \in NavForRole(r)
HomePathForRole(r) == IF r = "superadmin" THEN "overview" ELSE "dashboard"

Tab == [page: Pages,
        ready: BOOLEAN,                        \* AuthGuard renders its children
        busy: BOOLEAN,                         \* the page's form is being sent
        next: Guarded \cup {None}]             \* ?next= of the sign-in page

\* A call is live until its component is cleaned up (its continuation still runs,
\* but the page no longer shows it) or the document it was made in is left.
Call == [tab: Tabs,
         kind: {"restore", "login", "settings", "logout", "close", "reset", "change"},
         page: Guarded \cup {None},            \* the page a check is for
         user: Users \cup {None},              \* who signs in, or who answered
         sent: SessionIds \cup {None},           \* the cookie it is served with
         got: SessionIds \cup {None},            \* the cookie it brings
         live: {"yes", "cleaned", "gone"},
         reply: {"none", "ok", "todo", "refused", "failed"}]

TypeOK == /\ cookie \in SessionIds \cup {None}
          /\ stored \in Users \cup {None}
          /\ owner \in [SessionIds -> Users \cup {None, "ended"}]
          /\ tab \in [Tabs -> Tab]
          /\ calls \in [Slots -> Call \cup {None}]
          /\ resting \in BOOLEAN

Fresh(p, n) == [page |-> p, ready |-> FALSE, busy |-> FALSE, next |-> n]

Init == /\ cookie = None
        /\ stored = None
        /\ owner = [s \in SessionIds |-> None]
        /\ tab = [t \in Tabs |-> Fresh("login", None)]
        /\ calls = [i \in Slots |-> None]
        /\ resting = FALSE

-----------------------------------------------------------------------------
(* Sending. *)

\* It carries the cookie of its moment: after an answer, the one the answer set.
\* A sign-in and a reset are served without one.
Request(t, k, u) == [tab |-> t, kind |-> k, page |-> None, user |-> u,
                     sent |-> IF k \in {"login", "reset"} THEN None ELSE cookie',
                     got |-> None, live |-> "yes", reply |-> "none"]

Restore(t, p) == [Request(t, "restore", None) EXCEPT !.page = p]

Send(cs, c) == \E i \in Slots : cs[i] = None /\ calls' = [cs EXCEPT ![i] = c]

\* The router goes to page p.  React cleans up the guard's effect, which cancels
\* its check, and unmounts the form of a page that is left.  The guard of a layout
\* keeps its state while the page stays in the layout.
CleanUp(cs, t, p) ==
    LET stays == p = tab[t].page /\ p \notin Guarded
        left(c) == c # None /\ c.tab = t /\ c.live = "yes" /\ (c.kind = "restore" \/ ~stays)
    IN  [i \in Slots |-> IF left(cs[i]) THEN [cs[i] EXCEPT !.live = "cleaned"] ELSE cs[i]]

SameLayout(p, q) == p \in Guarded /\ q \in Guarded /\ RequiredRole(p) = RequiredRole(q)

Opened(t, p, n) == [page |-> p,
                    ready |-> SameLayout(tab[t].page, p) /\ tab[t].ready,
                    busy |-> p = tab[t].page /\ p \notin Guarded /\ tab[t].busy,
                    next |-> n]

Go(cs, t, p, n) ==
    /\ tab' = [tab EXCEPT ![t] = Opened(t, p, n)]
    /\ IF p \in Guarded THEN Send(CleanUp(cs, t, p), Restore(t, p))
                        ELSE calls' = CleanUp(cs, t, p)

\* A link of the sidebar: only of a page that is shown.
Navigate(t, p) ==
    /\ tab[t].ready
    /\ UNCHANGED <<cookie, stored, owner>>
    /\ p \in NavForRole(RequiredRole(tab[t].page))
    /\ Go(calls, t, p, None)

\* An address is typed or the page reloaded: the document's requests lose their
\* reader, and those that only ask have no effect any more.
Leave(t) ==
    LET left(c) == CASE c = None \/ c.tab # t -> c
                     [] c.kind \in {"restore", "settings"} -> None
                     [] OTHER -> [c EXCEPT !.live = "gone"]
    IN  [i \in Slots |-> left(calls[i])]

Load(t, p) ==
    /\ UNCHANGED <<cookie, stored, owner>>
    /\ tab' = [tab EXCEPT ![t] = Fresh(p, None)]
    /\ IF p \in Guarded THEN Send(Leave(t), Restore(t, p)) ELSE calls' = Leave(t)

\* The submit button is disabled while its request runs.
Submit(t, k, u) ==
    /\ k \in Forms \cup {"login"}
    /\ ~tab[t].busy
    /\ UNCHANGED <<cookie, stored, owner>>
    /\ tab' = [tab EXCEPT ![t].busy = TRUE]
    /\ Send(calls, Request(t, k, u))

Login(t, u) == tab[t].page = "login" /\ Submit(t, "login", u)
ResetPassword(t, u) == tab[t].page = "reset" /\ Submit(t, "reset", u)

OnSettings(t) == tab[t].page = "dashboard" /\ tab[t].ready
ChangePassword(t) == OnSettings(t) /\ cookie # None /\ Submit(t, "change", None)
CloseWorkspace(t) == OnSettings(t) /\ stored # None /\ cookie # None /\ Submit(t, "close", None)

\* Without the CSRF cookie apiRequest throws before it sends anything; logout's
\* `finally` clears the copy all the same and the sidebar goes to the login page.
Logout(t) ==
    /\ tab[t].page \in Guarded /\ tab[t].ready
    /\ UNCHANGED <<cookie, owner>>
    /\ IF cookie # None
       THEN Send(calls, Request(t, "logout", None)) /\ UNCHANGED <<stored, tab>>
       ELSE stored' = None /\ Go(calls, t, "login", None)

-----------------------------------------------------------------------------
(* The server. *)

Signed(s) == s # None /\ owner[s] \in Users

\* The sessions of user u end, except those in `keep`.
EndedFor(u, keep) == [s \in SessionIds |-> IF owner[s] = u /\ s \notin keep THEN "ended" ELSE owner[s]]

\* The answer of call i, which may be lost on its way back: a network error.
Reply(i, r, u, g) ==
    \E lost \in BOOLEAN :
        calls' = [calls EXCEPT ![i].reply = IF lost THEN "failed" ELSE r,
                               ![i].user = IF lost THEN @ ELSE u,
                               ![i].got = IF lost THEN None ELSE g]

Refuses(i) ==
    LET c == calls[i] IN
    /\ c.kind \in {"restore", "settings", "logout"} => ~Signed(c.sent)
    /\ Reply(i, "refused", c.user, None)
    /\ UNCHANGED owner

SignsIn(i) ==
    /\ calls[i].kind = "login"
    /\ \E s \in SessionIds :
         /\ owner[s] = None /\ \A r \in 1..(s - 1) : owner[r] # None
         /\ owner' = [owner EXCEPT ![s] = calls[i].user]
         /\ Reply(i, "ok", calls[i].user, s)

TellsSession(i) ==
    LET c == calls[i] IN
    /\ Signed(c.sent)
    /\ \/ c.kind = "restore" /\ Reply(i, "ok", owner[c.sent], None)
       \/ c.kind = "settings" /\ \E r \in {"ok", "todo"} : Reply(i, r, c.user, None)
    /\ UNCHANGED owner

EndsSessions(i) ==
    LET c == calls[i] IN
    /\ c.kind = "reset" \/ Signed(c.sent)
    /\ \/ c.kind = "logout" /\ owner' = [owner EXCEPT ![c.sent] = "ended"]
       \/ c.kind = "change" /\ owner' = EndedFor(owner[c.sent], {c.sent})
       \/ c.kind = "close" /\ owner[c.sent] \in Operators /\ owner' = EndedFor(owner[c.sent], {})
       \/ c.kind = "reset" /\ owner' = EndedFor(c.user, {})
    /\ Reply(i, "ok", c.user, None)

Serve(i) ==
    /\ calls[i] # None /\ calls[i].reply = "none"
    /\ Refuses(i) \/ SignsIn(i) \/ TellsSession(i) \/ EndsSessions(i)
    /\ UNCHANGED <<cookie, stored, tab>>

\* The request never reaches it.
Lose(i) ==
    /\ calls[i] # None /\ calls[i].reply = "none"
    /\ calls' = [calls EXCEPT ![i].reply = "failed"]
    /\ UNCHANGED <<cookie, stored, owner, tab>>

\* A session ends on its own: it expires, or is revoked from elsewhere.
Expire(s) ==
    /\ Signed(s)
    /\ owner' = [owner EXCEPT ![s] = "ended"]
    /\ UNCHANGED <<cookie, stored, tab, calls>>

-----------------------------------------------------------------------------
(* The answers.  c is the call, cs the calls without it.                   *)

\* Set-Cookie takes effect whatever became of the page that asked.
CookieAfter(c) == CASE c.reply # "ok" -> cookie
                    [] c.kind = "login" -> c.got
                    [] c.kind \in {"logout", "close"} -> None
                    [] OTHER -> cookie

Stay(cs) == tab' = tab /\ calls' = cs
Idle(c, cs) == /\ tab' = IF c.live = "yes" THEN [tab EXCEPT ![c.tab].busy = FALSE] ELSE tab
               /\ calls' = cs

\* restoreSession keeps the answer even when the guard was cleaned up; the guard
\* shows the page, or goes to the sign-in page, or to the user's own home.
Restored(c, cs) ==
    LET t == c.tab
        role == RequiredRole(c.page)
    IN  /\ stored' = CASE c.reply = "ok" -> c.user
                       [] c.reply = "refused" -> None
                       [] OTHER -> stored
        /\ CASE c.live = "cleaned" -> Stay(cs)
             [] c.reply = "failed" -> Go(cs, t, "login", None)
             [] c.reply = "refused" -> Go(cs, t, "login", c.page)
             [] RoleOf(c.user) # role -> Go(cs, t, HomePathForRole(RoleOf(c.user)), None)
             [] ~IsNavRoute(role, c.page) -> Go(cs, t, HomePathForRole(role), None)
             [] OTHER -> tab' = [tab EXCEPT ![t].ready = TRUE] /\ calls' = cs

LoggedInUnwritten(c, cs) ==
    UNCHANGED stored /\ IF c.reply = "ok" THEN Go(cs, c.tab, "dashboard", None) ELSE Idle(c, cs)

\* An operator without a page to go back to is asked to finish onboarding: one
\* more request, for which the button stays disabled.
LoggedIn(c, cs) ==
    LET t == c.tab IN
    IF c.reply # "ok" THEN Idle(c, cs) /\ UNCHANGED stored
    ELSE /\ stored' = c.user
         /\ CASE tab[t].next # None -> Go(cs, t, tab[t].next, None)
              [] RoleOf(c.user) = "superadmin" -> Go(cs, t, "overview", None)
              [] OTHER -> tab' = tab /\ Send(cs, Request(t, "settings", c.user))

NeedsOnboarding(c, cs) ==
    /\ UNCHANGED stored
    /\ Go(cs, c.tab, IF c.reply = "todo" THEN "onboarding" ELSE "dashboard", None)

LoggedOut(c, cs) == stored' = None /\ Go(cs, c.tab, "login", None)

Closed(c, cs) ==
    IF c.reply = "ok" THEN stored' = None /\ Go(cs, c.tab, "login", None)
    ELSE Idle(c, cs) /\ UNCHANGED stored

PasswordReset(c, cs) ==
    /\ stored' = IF c.reply = "ok" THEN None ELSE stored
    /\ Idle(c, cs)

PasswordChanged(c, cs) == Idle(c, cs) /\ UNCHANGED stored

Arrive(i) ==
    /\ calls[i] # None /\ calls[i].reply # "none"
    /\ LET c == calls[i]
           cs == [calls EXCEPT ![i] = None]
       IN /\ cookie' = CookieAfter(c)
          /\ \/ c.live = "gone" /\ Stay(cs) /\ UNCHANGED stored
             \/ /\ c.live # "gone"
                /\ \/ c.kind = "restore" /\ Restored(c, cs)
                   \/ c.kind = "login" /\ LoggedIn(c, cs)
                   \/ c.kind = "settings" /\ NeedsOnboarding(c, cs)
                   \/ c.kind = "logout" /\ LoggedOut(c, cs)
                   \/ c.kind = "close" /\ Closed(c, cs)
                   \/ c.kind = "reset" /\ PasswordReset(c, cs)
                   \/ c.kind = "change" /\ PasswordChanged(c, cs)
    /\ UNCHANGED owner

-----------------------------------------------------------------------------

UserMoves == \E t \in Tabs :
    \/ \E p \in Pages : Navigate(t, p)
    \/ \E p \in Guarded \cup {"login", "reset"} : Load(t, p)
    \/ \E u \in Users : Login(t, u) \/ ResetPassword(t, u)
    \/ ChangePassword(t)
    \/ CloseWorkspace(t)
    \/ Logout(t)

Network == \E i \in Slots : Serve(i) \/ Lose(i) \/ Arrive(i)

Next == /\ (~resting /\ UserMoves) \/ Network \/ \E s \in SessionIds : Expire(s)
        /\ UNCHANGED resting

\* The users rest from some moment on.
Rest == resting' = TRUE /\ UNCHANGED <<cookie, stored, owner, tab, calls>>

Spec == Init /\ [][Next]_vars

\* fetch settles with an answer or a network error, and its continuation runs.
Fairness == \A i \in Slots : WF_vars((Serve(i) \/ Lose(i)) /\ UNCHANGED resting)
                            /\ WF_vars(Arrive(i) /\ UNCHANGED resting)

FairSpec == Init /\ [][Next \/ Rest]_vars /\ Fairness

-----------------------------------------------------------------------------

\* A page is opened by a check made for that very page, never by the late answer
\* of one made for a page that was left (AuthGuard's `cancelled`).
OpenedByItsOwnCheckStep ==
    \A t \in Tabs : ~tab[t].ready /\ tab[t]'.ready =>
      \E i \in Slots : /\ calls[i] # None /\ calls'[i] # calls[i]
                      /\ calls[i].tab = t /\ calls[i].live = "yes" /\ calls[i].kind = "restore"
                      /\ calls[i].page = tab[t].page /\ tab[t]'.page = tab[t].page
\* The pages show one user while the server answers for another.
Mixed == Signed(cookie) /\ stored # None /\ stored # owner[cookie]

\* The copy and the cookie come apart only by crossing answers: a check answered
\* for the cookie of another moment, or a sign-in whose page was left before its
\* answer; never by signing in, out, or resetting a password in one go.
MixedOnlyByCrossingStep ==
    ~Mixed /\ Mixed' =>
      \E i \in Slots : /\ calls[i] # None /\ calls'[i] # calls[i]
                      /\ \/ calls[i].kind = "restore" /\ calls[i].sent # cookie
                         \/ calls[i].kind = "login" /\ calls[i].live = "gone"
\* Once the users rest, every guarded page is shown or left for an open one: the
\* redirects between the homes, the unlisted pages and the sign-in page end.
Fulfilled == \A t \in Tabs : tab[t].page \in Guarded => tab[t].ready
=============================================================================
