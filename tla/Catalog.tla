------------------------------ MODULE Catalog ------------------------------
(***************************************************************************)
(* The catalog pages of the web client: services, packages and forms       *)
(* (web/src: components/admin/{services,packages,forms},                   *)
(* components/drawers/{Service,Package,Form}Drawer,                        *)
(* services/{services,packages,forms}.service).                            *)
(*                                                                         *)
(* The three pages have one shape: a list that is loaded again after every *)
(* change, and a drawer that creates, edits, switches and removes.  Kind   *)
(* says which page it is and where it differs.  Of an item only its name   *)
(* and whether it is active are kept; packages live in the browser.        *)
(***************************************************************************)
EXTENDS Naturals, FiniteSets, Sequences

CONSTANTS Kind,       \* the page: "service", "package" or "form"
          Ids,        \* the items there can be
          Names,      \* their names
          Blank,      \* what the name field holds before a name is typed
          MaxLoads,   \* bound: lists under way at once
          MaxEvents,  \* bound: changes made elsewhere
          None        \* no item, no drawer, no request, nothing loaded

CatalogAssumption ==
    /\ Kind \in {"service", "package", "form"}
    /\ Blank \notin Names /\ None \notin Ids \cup Names
    /\ MaxLoads \in Nat \ {0} /\ MaxEvents \in Nat

VARIABLES server,   \* the items
          used,     \* the items a session or an attachment refers to
          list,     \* the page's copy of the items
          error,    \* the page shows an error instead of its list
          filter,   \* the status the page is narrowed to
          loads,    \* the lists under way, in the order they were asked for
          drawer,   \* the drawer: its item and the copy it was opened with
          form,     \* what the drawer's fields hold
          confirm,  \* the dialog that asks whether to remove is open
          op,       \* the request that keeps the drawer busy
          seen,     \* what has happened in this drawer, see Seen
          order,    \* how the last lists were answered: alone, in order, or an older one last
          behind,   \* the items changed and the page was not told, or its load failed
          events    \* changes made elsewhere so far

vars == <<server, used, list, error, filter, loads, drawer, form, confirm, op, seen,
          order, behind, events>>

Item == [name: Names, active: BOOLEAN]
Fields == [name: Names \cup {Blank}, active: BOOLEAN]
Copies == [Ids -> Item \cup {None}]
Nothing == [i \in Ids |-> None]
Load == [stage: {"asked", "read", "failed"}, copy: Copies \cup {None},
         passed: BOOLEAN]     \* a list asked for later was answered before
Drawer == [id: Ids \cup {"new"}, was: Fields]
Seen == [asked: BOOLEAN,      \* its remove button was pressed
         set: BOOLEAN,        \* active was switched in it
         crossed: BOOLEAN]    \* another drawer's answer set active
Op == [kind: {"create", "save", "switch", "remove"}, id: Ids \cup {"new"}, to: Fields,
       keys: SUBSET {"form", "stamps"},    \* what the body holds: the fields, the record's stamps
       said: BOOLEAN,                      \* the label promised to make it active
       knew: BOOLEAN,                      \* active in the copy the drawer was opened with
       set: BOOLEAN,                       \* active was switched, by the operator or by an answer
       own: BOOLEAN,                       \* its drawer is still open
       answer: {"none", "ok", "failed", "invalid"}]

TypeOK == /\ server \in Copies /\ used \subseteq Ids
          /\ list \in Copies \cup {None} /\ error \in BOOLEAN
          /\ filter \in {"all", "active", "inactive"}
          /\ loads \in Seq(Load) /\ Len(loads) <= MaxLoads
          /\ drawer \in Drawer \cup {None} /\ form \in Fields \cup {None}
          /\ drawer = None <=> form = None
          /\ confirm \in BOOLEAN /\ op \in Op \cup {None}
          /\ seen \in Seen
          /\ confirm \/ ~seen.asked
          /\ order \in {"alone", "overlap", "older"} /\ behind \in BOOLEAN /\ events \in 0..MaxEvents

Unseen == [asked |-> FALSE, set |-> FALSE, crossed |-> FALSE]
Asked == [stage |-> "asked", copy |-> None, passed |-> FALSE]

Init == /\ server \in Copies
        /\ used \in SUBSET {i \in Ids : Kind = "service" /\ server[i] # None}
        /\ list = None /\ error = FALSE /\ filter = "all" /\ loads = <<Asked>>
        /\ drawer = None /\ form = None /\ confirm = FALSE /\ op = None
        /\ seen = Unseen /\ order = "alone" /\ behind = FALSE /\ events = 0

page == <<list, error, filter, loads, order>>
panel == <<drawer, form, confirm, seen>>

-----------------------------------------------------------------------------
(* The list. *)

\* The server reads the items.
ReadList ==
    /\ \E k \in DOMAIN loads :
         /\ loads[k].stage = "asked"
         /\ loads' = [loads EXCEPT ![k].stage = "read", ![k].copy = server]
    /\ UNCHANGED <<server, used, list, error, filter, order, panel, op, behind, events>>

LoseList ==
    /\ Kind # "package"
    /\ \E k \in DOMAIN loads :
         /\ loads[k].stage = "asked"
         /\ loads' = [loads EXCEPT ![k].stage = "failed"]
    /\ UNCHANGED <<server, used, list, error, filter, order, panel, op, behind, events>>

\* The loads that are left when the k-th is answered; the ones before it are passed.
Without(k) == [n \in 1..Len(loads) - 1 |-> IF n < k THEN [loads[n] EXCEPT !.passed = TRUE]
                                                    ELSE loads[n + 1]]

\* An answer is shown whenever it arrives, and an error stays beside it.
Shows(l) ==
    IF l.stage = "read" THEN list' = l.copy /\ UNCHANGED error
    ELSE IF Kind = "service" THEN list' = Nothing /\ error' = TRUE
    ELSE UNCHANGED <<list, error>>

ListArrives ==
    /\ \E k \in DOMAIN loads :
         /\ loads[k].stage # "asked"
         /\ Shows(loads[k])
         /\ loads' = Without(k)
         /\ order' = IF loads[k].passed THEN "older" ELSE IF order = "older" THEN "overlap" ELSE order
         /\ behind' = (behind \/ loads[k].stage = "failed")
    /\ UNCHANGED <<server, used, filter, panel, op, events>>

Refresh == /\ loads' = Append(loads, Asked)
           /\ error' = FALSE
           /\ order' = IF loads = <<>> THEN "alone" ELSE "overlap"

Narrow ==
    /\ Kind # "service" /\ list # None
    /\ filter' \in {"all", "active", "inactive"} \ {filter}
    /\ UNCHANGED <<server, used, list, error, loads, order, panel, op, behind, events>>

\* The cards on the page.
Shown == IF list = None \/ error THEN {}
         ELSE {i \in Ids : /\ list[i] # None
                           /\ filter = "all" \/ list[i].active = (filter = "active")}

-----------------------------------------------------------------------------
(* The drawer. *)

\* What the fields start with: the copy it was opened with, or the defaults.
ToForm(d) == d.was

Open(d) ==
    /\ drawer = None
    /\ drawer' = d /\ form' = ToForm(d) /\ seen' = Unseen
    /\ UNCHANGED <<server, used, page, confirm, op, behind, events>>

OpenItem == \E i \in Shown : Open([id |-> i, was |-> list[i]])

\* An error or a first load hides the cards but not the button above them.
OpenNew == Open([id |-> "new", was |-> [name |-> Blank, active |-> TRUE]])

\* The fields are disabled while a request is under way.
TypeName ==
    /\ drawer # None /\ op = None /\ ~confirm
    /\ \E n \in (Names \cup {Blank}) \ {form.name} : form' = [form EXCEPT !.name = n]
    /\ UNCHANGED <<server, used, page, drawer, confirm, seen, op, behind, events>>

SetActive ==
    /\ drawer # None /\ op = None /\ ~confirm
    /\ form' = [form EXCEPT !.active = ~@]
    /\ seen' = [seen EXCEPT !.set = TRUE]
    /\ UNCHANGED <<server, used, page, drawer, confirm, op, behind, events>>

AskRemove ==
    /\ drawer # None /\ drawer.id # "new" /\ op = None /\ ~confirm
    /\ confirm' = TRUE /\ seen' = [seen EXCEPT !.asked = TRUE]
    /\ UNCHANGED <<server, used, page, drawer, form, op, behind, events>>

\* Also while a closed drawer moves out.
Keep ==
    /\ confirm /\ op = None
    /\ confirm' = FALSE /\ seen' = [seen EXCEPT !.asked = FALSE]
    /\ UNCHANGED <<server, used, page, drawer, form, op, behind, events>>

\* The drawer is gone; its state stays with the component, the dialog's too.
Shut == drawer' = None /\ form' = None /\ seen' = Unseen

\* The cross, or Escape, which no request disables: heard by the drawer first, it leaves
\* the dialog asked, see SessionEditor.
Close ==
    /\ drawer # None /\ Shut
    /\ confirm' \in IF seen.asked \/ op # None THEN {confirm} ELSE {confirm, FALSE}
    /\ op' = IF op = None THEN None ELSE [op EXCEPT !.own = FALSE]
    /\ UNCHANGED <<server, used, page, behind, events>>

-----------------------------------------------------------------------------
(* Requests. *)

\* The body of a request: services and packages take the fields out, a form is sent as
\* its record was read.
Sent(kind, id) ==
    IF kind \in {"switch", "remove"} \/ id = "new" \/ Kind # "form" THEN {"form"}
    ELSE {"form", "stamps"}

Ask(kind, to, said) ==
    op' = [kind |-> kind, id |-> drawer.id, to |-> to, keys |-> Sent(kind, drawer.id), said |-> said,
           knew |-> drawer.was.active, set |-> seen.set \/ seen.crossed, own |-> TRUE, answer |-> "none"]

\* Packages and forms ask for a name first; a service without one is refused by the server.
Save ==
    /\ drawer # None /\ op = None /\ ~confirm
    /\ Kind # "service" => form.name # Blank
    /\ Ask(IF drawer.id = "new" THEN "create" ELSE "save", form, form.active)
    /\ UNCHANGED <<server, used, page, panel, behind, events>>

\* Which way it switches is read from the copy, the label from the fields.
ToggleActive ==
    /\ drawer # None /\ drawer.id # "new" /\ op = None /\ ~confirm
    /\ Ask("switch", [drawer.was EXCEPT !.active = ~@], ~form.active)
    /\ UNCHANGED <<server, used, page, panel, behind, events>>

Remove ==
    /\ drawer # None /\ drawer.id # "new" /\ op = None /\ confirm
    /\ Ask("remove", drawer.was, FALSE)
    /\ UNCHANGED <<server, used, page, panel, behind, events>>

\* What the server has after a request, when it does what it is asked.
After(c) == CASE c.kind = "remove" -> None
              [] c.kind = "switch" -> [server[c.id] EXCEPT !.active = c.to.active]
              [] OTHER             -> c.to

\* A strict schema refuses a blank name and every key it does not know; a foreign key
\* keeps a service that is referred to.
Valid(c) == /\ c.keys = {"form"}
            /\ c.kind \in {"create", "save"} => c.to.name # Blank
            /\ c.kind = "remove" => c.id \notin used

\* The server does what it is asked; its answer arrives or, off the browser, is lost.
Serve ==
    /\ op # None /\ op.answer = "none" /\ Valid(op)
    /\ IF op.kind = "create"
       THEN \E i \in Ids : server[i] = None /\ server' = [server EXCEPT ![i] = op.to]
       ELSE server[op.id] # None /\ server' = [server EXCEPT ![op.id] = After(op)]
    /\ \E a \in {"ok", "failed"} :
         /\ a = "failed" => Kind # "package"
         /\ op' = [op EXCEPT !.answer = a]
         /\ behind' = (behind \/ a = "failed")
    /\ UNCHANGED <<used, page, panel, events>>

Refuse ==
    /\ op # None /\ op.answer = "none"
    /\ \/ ~Valid(op) /\ op' = [op EXCEPT !.answer = "invalid"]
       \/ /\ Kind # "package" \/ (op.id # "new" /\ server[op.id] = None)
          /\ op' = [op EXCEPT !.answer = "failed"]
    /\ UNCHANGED <<server, used, page, panel, behind, events>>

\* A switch: the list is loaded again and whichever form is open takes the answer.
Switched ==
    /\ op # None /\ op.answer = "ok" /\ op.kind = "switch"
    /\ Len(loads) < MaxLoads /\ Refresh
    /\ IF drawer = None THEN UNCHANGED <<form, seen>>
       ELSE /\ form' = [form EXCEPT !.active = op.to.active]
            /\ seen' = [seen EXCEPT !.set = @ \/ op.own, !.crossed = @ \/ ~op.own]
    /\ op' = None
    /\ UNCHANGED <<server, used, list, filter, drawer, confirm, behind, events>>

\* A variant of Succeeded: the list is not loaded again.
SucceededUnloaded ==
    /\ op # None /\ op.answer = "ok" /\ op.kind # "switch"
    /\ UNCHANGED <<loads, error, order>>
    /\ Shut /\ op' = None
    /\ confirm' = (confirm /\ op.kind # "remove")
    /\ UNCHANGED <<server, used, list, filter, behind, events>>

\* A save or a removal: the list is loaded again and whichever drawer is open closes.
Succeeded ==
    /\ op # None /\ op.answer = "ok" /\ op.kind # "switch"
    /\ Len(loads) < MaxLoads /\ Refresh
    /\ Shut /\ op' = None
    /\ confirm' = (confirm /\ op.kind # "remove")
    /\ UNCHANGED <<server, used, list, filter, behind, events>>

Failed ==
    /\ op # None /\ op.answer \in {"failed", "invalid"}
    /\ op' = None
    /\ UNCHANGED <<server, used, page, drawer, form, confirm, seen, behind, events>>

-----------------------------------------------------------------------------
\* Another tab or another member changes an item, and a session may come to refer to it.
Elsewhere ==
    /\ Kind # "package" /\ events < MaxEvents /\ events' = events + 1
    /\ \/ /\ \E i \in Ids, n \in Item \cup {None} :
               /\ n # server[i] /\ (n = None => i \notin used)
               /\ server' = [server EXCEPT ![i] = n]
          /\ UNCHANGED used
       \/ /\ Kind = "service"
          /\ \E i \in Ids \ used : server[i] # None /\ used' = used \cup {i}
          /\ UNCHANGED server
    /\ behind' = TRUE
    /\ UNCHANGED <<page, panel, op>>

Next == \/ ReadList \/ LoseList \/ ListArrives \/ Narrow
        \/ OpenItem \/ OpenNew \/ TypeName \/ SetActive \/ AskRemove \/ Keep \/ Close
        \/ Save \/ ToggleActive \/ Remove \/ Serve \/ Refuse
        \/ Switched \/ Succeeded \/ Failed
        \/ Elsewhere

Spec == Init /\ [][Next]_vars

\* Every request is answered or fails in the end, and its answer is handled.
Fairness == /\ WF_vars(Serve \/ Refuse) /\ WF_vars(Switched \/ Succeeded \/ Failed)
            /\ WF_vars(ReadList \/ LoseList) /\ WF_vars(ListArrives)

FairSpec == Spec /\ Fairness

-----------------------------------------------------------------------------
(* Properties. *)

\* Once nothing is under way the page shows the items as the server has them, unless it
\* was not told of a change or an older list was answered last.
ListFollows ==
    loads = <<>> /\ op = None /\ ~behind /\ order # "older" => list = server

\* An error never stands in front of items that were loaded after it, unless lists
\* overlapped: only asking again clears it.
ErrorHidesNothing == loads = <<>> /\ error /\ order = "alone" => list = Nothing

\* A save changes whether an item is active only when the operator, or the answer to a
\* switch, set it in its drawer, or when the copy it was opened with was no longer true.
ActiveIsSetStep ==
    \A i \in Ids : server[i] # None /\ server'[i] # None /\ events' = events
                   /\ server'[i].active # server[i].active
                       => /\ op.id = i
                          /\ op.kind = "save" => op.set \/ op.knew # server[i].active
\* What the button says, "Activate" or "Deactivate", is what it does.
ToggleDoesWhatItSays == op # None /\ op.kind = "switch" => op.to.active = op.said

\* The server takes the shape of every edit the drawer sends.
EditsAreTaken == op # None /\ op.kind = "save" => op.answer # "invalid"

\* What the dialog says: "This permanently removes the service.  Existing sessions and
\* bookings stay on your calendar".
RemovesWhatIsUsed == op # None /\ op.kind = "remove" => op.answer # "invalid"

\* The drawer's buttons come back, and the first list of services ends its skeleton.
Awaited == (IF op # None THEN {"save"} ELSE {}) \cup (IF Kind = "service" /\ list = None THEN {"list"} ELSE {})
=============================================================================
