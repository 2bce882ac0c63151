--------------------------- MODULE SettingsPanels ---------------------------
(***************************************************************************)
(* The settings page of the web client: its copy of the workspace's        *)
(* settings, the drafts of its panels, and the requests that save them     *)
(* (web/src: components/admin/settings, services/settings.service).        *)
(*                                                                         *)
(* Several panels save parts of one record, and the card of the locations  *)
(* writes back the record it saw when it sent its request.  A setting is a *)
(* number that tells one edit from another; the wording of the fields, the *)
(* demo's in-memory settings and the panels that only it shows are left    *)
(* out.                                                                    *)
(***************************************************************************)
EXTENDS Naturals, FiniteSets

CONSTANTS Locations,     \* the ids a location can get
          MaxEdits,      \* bound: edits typed into panels
          Slots,         \* bound: saves and loads in flight at a time
          None           \* no location, no answer, no copy yet

SettingsAssumption == MaxEdits \in Nat /\ None \notin Nat /\ None \notin Locations

Values == 0..MaxEdits
Places == [Locations -> Values \cup {None}]
Business == [profile: Values, notify: Values, locations: Places]
Settings == [business: Business, availability: Values, payments: Values]

Sections == {"business", "payments", "calendar", "emails"}
PartOf(s) == CASE s = "business" -> "profile" [] s = "emails" -> "notify"
               [] s = "calendar" -> "availability" [] s = "payments" -> "payments"
Parts == {"profile", "notify", "locations", "availability", "payments"}

VARIABLES server,    \* the settings of the workspace
          page,      \* SettingsView: its section and its copy
          draft,     \* the value in the panel of the section
          saving,    \* the panel waits for its save
          card,      \* LocationsCard
          calls,     \* the requests in flight
          edits,     \* edits typed so far
          stale      \* what the server is ahead of: parts of the copy, the "draft" and the
                     \* card's "label"

vars == <<server, page, draft, saving, card, calls, edits, stale>>

Ops == {"load", "profile", "notify", "availability", "payments", "create", "update", "delete"}
Answers == {"none", "ok", "failed"}
OfCard(op) == op \in {"create", "update", "delete"}

\* The part that an operation saves, and those that its answer puts into the copy.
Saves(op) == CASE OfCard(op) -> {"locations"} [] op = "load" -> {} [] OTHER -> {op}
Brings(op) == CASE op = "load" -> Parts
                [] op \in {"availability", "payments"} -> {op}
                [] OTHER -> {"profile", "notify", "locations"}

\* A save of the business record also lists the locations; so does the load.
Lists(op) == op \in {"load", "profile", "notify"}

Call == [op: Ops, value: Values, place: Locations \cup {None},
         base: Business \cup {None},           \* the copy that a location's save closes over
         shown: BOOLEAN,                       \* the settings page is still mounted
         live: BOOLEAN,                        \* so is the panel that sent it
         main: Answers, got: Settings \cup {None},
         list: Answers, places: Places \cup {None},
         old: SUBSET Parts,                    \* of what it brings, the parts saved since it had them
         late: BOOLEAN,                        \* its value was older than a save that came first
         after: SUBSET Slots]                  \* the saves of its part under way when it was sent

TypeOK == /\ server \in Settings
          /\ page \in [section: Sections, state: {"loading", "error", "shown"}, copy: Settings \cup {None}]
          /\ draft \in Values /\ saving \in BOOLEAN /\ edits \in Values
          /\ stale \subseteq Parts \cup {"draft", "label"}
          /\ card \in [mode: {"idle", "new", "edit", "delete"}, place: Locations \cup {None},
                       label: Values, busy: BOOLEAN]
          /\ calls \in [Slots -> Call \cup {None}]

Flying == {i \in Slots : calls[i] # None}
\* One slot is like another.
Free == CHOOSE i \in Slots : i \notin Flying
IdleCard == [mode |-> "idle", place |-> None, label |-> 0, busy |-> FALSE]
Loading == [section |-> "business", state |-> "loading", copy |-> None]

\* The saves of part p that the server has not done yet.
Pending(p) == {i \in Flying : calls[i].main = "none" /\ p \in Saves(calls[i].op)}

\* What x, taken from part p of the copy, adds to stale.
Taken(x, p) == IF p \in stale \/ Pending(p) # {} THEN {x} ELSE {}

Request(op, v, p, base) ==
    [op |-> op, value |-> v, place |-> p, base |-> base, shown |-> TRUE, live |-> TRUE,
     main |-> "none", got |-> None,
     list |-> IF Lists(op) THEN "none" ELSE "ok", places |-> None,
     old |-> IF OfCard(op) THEN stale \cap Brings(op) ELSE {},
     late |-> (IF OfCard(op) THEN "label" ELSE "draft") \in stale,
     after |-> UNION {Pending(q) : q \in Saves(op)}]

FirstLoad == [op |-> "load", value |-> 0, place |-> None, base |-> None, shown |-> TRUE, live |-> TRUE,
              main |-> "none", got |-> None, list |-> "none", places |-> None,
              old |-> {}, late |-> FALSE, after |-> {}]

Init == /\ server = [business |-> [profile |-> 0, notify |-> 0, locations |-> [l \in Locations |-> None]],
                     availability |-> 0, payments |-> 0]
        /\ page = Loading
        /\ LET i == CHOOSE j \in Slots : TRUE IN calls = [j \in Slots |-> IF j = i THEN FirstLoad ELSE None]
        /\ draft = 0 /\ saving = FALSE /\ card = IdleCard /\ edits = 0 /\ stale = {}

-----------------------------------------------------------------------------
(* The operator. *)

\* A panel starts from the page's copy.
Draft(copy, s) == IF s \in {"business", "emails"} THEN copy.business[PartOf(s)] ELSE copy[PartOf(s)]

Unmounted(cs) == [i \in Slots |-> IF cs[i] = None THEN None ELSE [cs[i] EXCEPT !.live = FALSE]]

SelectSection(s) ==
    /\ page.state = "shown" /\ s # page.section
    /\ page' = [page EXCEPT !.section = s]
    /\ draft' = Draft(page.copy, s)
    /\ saving' = FALSE /\ card' = IdleCard
    /\ calls' = Unmounted(calls)
    /\ stale' = (stale \cap Parts) \cup Taken("draft", PartOf(s))
    /\ UNCHANGED <<server, edits>>

\* What is left of a call when its page is: the request itself.
Orphan(c) == [c EXCEPT !.shown = FALSE, !.live = FALSE, !.base = None, !.got = None,
                       !.list = "ok", !.places = None, !.old = {}]

\* The page is left and opened again: it loads anew.
Reopen ==
    /\ page' = Loading /\ draft' = 0 /\ saving' = FALSE /\ card' = IdleCard
    /\ stale' = {}
    /\ Flying # Slots
    /\ calls' = [j \in Slots |-> CASE j \in Flying -> Orphan(calls[j])
                                   [] j = Free -> FirstLoad
                                   [] OTHER -> None]
    /\ UNCHANGED <<server, edits>>

\* Working hours are disabled while they are saved, the panel's other fields are not.
Type ==
    /\ page.state = "shown" /\ edits < MaxEdits
    /\ edits' = edits + 1 /\ draft' = edits + 1 /\ stale' = stale \ {"draft"}
    /\ UNCHANGED <<server, page, saving, card, calls>>

Send(c) == Flying # Slots /\ calls' = [calls EXCEPT ![Free] = c]

\* The business and e-mail panels have no busy state: they may save again at once.
Save ==
    /\ page.state = "shown" /\ ~saving
    /\ Send(Request(PartOf(page.section), draft, None, None))
    /\ saving' = (page.section \in {"calendar", "payments"})
    /\ UNCHANGED <<server, page, draft, card, edits, stale>>

OnCard == page.state = "shown" /\ page.section = "business" /\ ~card.busy
CardStep(c, taken) == /\ card' = c /\ stale' = (stale \ {"label"}) \cup taken
                      /\ UNCHANGED <<server, page, draft, saving, calls>>

StartNew == OnCard /\ card.mode = "idle" /\ CardStep([card EXCEPT !.mode = "new"], {}) /\ UNCHANGED edits

Known(l) == page.copy.business.locations[l] # None
StartEdit(l) == /\ OnCard /\ card.mode = "idle" /\ Known(l) /\ UNCHANGED edits
                /\ CardStep([card EXCEPT !.mode = "edit", !.place = l,
                                         !.label = page.copy.business.locations[l]],
                            Taken("label", "locations"))
AskDelete(l) == /\ OnCard /\ card.mode = "idle" /\ Known(l) /\ UNCHANGED edits
                /\ CardStep([card EXCEPT !.mode = "delete", !.place = l], {})
CancelEdit == OnCard /\ card.mode # "idle" /\ CardStep(IdleCard, {}) /\ UNCHANGED edits
TypeLocation == /\ OnCard /\ card.mode \in {"new", "edit"} /\ edits < MaxEdits
                /\ edits' = edits + 1 /\ CardStep([card EXCEPT !.label = edits + 1], {})

\* A location needs a name and a street: something was typed.
SaveLocation ==
    /\ OnCard
    /\ \/ card.mode = "new" /\ card.label > 0 /\ Send(Request("create", card.label, None, page.copy.business))
       \/ card.mode = "edit" /\ Send(Request("update", card.label, card.place, page.copy.business))
       \/ card.mode = "delete" /\ Send(Request("delete", 0, card.place, page.copy.business))
    /\ card' = [card EXCEPT !.busy = TRUE]
    /\ UNCHANGED <<server, page, draft, saving, edits, stale>>

-----------------------------------------------------------------------------
(* The server. *)

\* The settings after the request of call c, when the server accepts it; a new
\* location gets the id l.
Applied(c, l) ==
    CASE c.op \in {"profile", "notify"} -> [server EXCEPT !.business[c.op] = c.value]
      [] c.op \in {"availability", "payments"} -> [server EXCEPT ![c.op] = c.value]
      [] c.op = "create" -> [server EXCEPT !.business.locations[l] = c.value]
      [] c.op = "update" -> [server EXCEPT !.business.locations[l] = c.value]
      [] c.op = "delete" -> [server EXCEPT !.business.locations[l] = None]
      [] OTHER -> server

\* A location's save is answered by that location alone.
Reads(c) == c.shown /\ ~OfCard(c.op)

Accepts(c, l) == CASE c.op = "create" -> l # None /\ server.business.locations[l] = None
                   [] c.op \in {"update", "delete"} -> l = c.place /\ server.business.locations[l] # None
                   [] OTHER -> l = None

\* Of a call that was served its answer counts, and one that failed brings nothing.
Tidy(c) == LET d == IF c.main = "none" THEN c
                    ELSE [c EXCEPT !.late = FALSE, !.after = {}, !.value = IF OfCard(c.op) THEN @ ELSE 0] IN
           IF "failed" \in {c.main, c.list} THEN [d EXCEPT !.got = None, !.places = None, !.old = {}] ELSE d

\* What another call c has of the parts ps is old once they are saved; a save of them that
\* was sent before is late.
Overtaken(c, ps, earlier) ==
    [c EXCEPT !.old = IF c.shown /\ "failed" \notin {c.main, c.list} THEN @ \cup (ps \cap Brings(c.op)) ELSE @,
              !.late = @ \/ earlier]

\* The answer to a create names the id; it may be lost after the server acted.
Serve(i) ==
    /\ i \in Flying /\ calls[i].main = "none"
    /\ \E l \in Locations \cup {None}, lost \in BOOLEAN :
         /\ Accepts(calls[i], l)
         /\ server' = Applied(calls[i], l)
         /\ LET saved == IF server' = server THEN {} ELSE Saves(calls[i].op) IN
              /\ calls' = [j \in Slots |->
                   CASE j = i -> Tidy([calls[i] EXCEPT !.main = IF lost THEN "failed" ELSE "ok",
                                                       !.place = l,
                                                       !.got = IF Reads(calls[i]) THEN server' ELSE None,
                                                       !.old = IF Reads(calls[i]) THEN @ \cap {"locations"} ELSE @])
                     [] j \in Flying \ {i} -> Overtaken(calls[j], saved, j \in calls[i].after)
                     [] OTHER -> None]
              /\ stale' = stale \cup saved
    /\ UNCHANGED <<page, draft, saving, card, edits>>

\* Slot i holds c then, and nothing waits for what it held.
Without(i, c) == [j \in Slots |-> CASE j = i -> c
                                     [] j \in Flying \ {i} -> [calls[j] EXCEPT !.after = @ \ {i}]
                                     [] OTHER -> None]

Refuse(i) ==
    /\ i \in Flying /\ calls[i].main = "none"
    /\ calls' = Without(i, Tidy([calls[i] EXCEPT !.main = "failed"]))
    /\ UNCHANGED <<server, page, draft, saving, card, edits, stale>>

\* listWorkspaceLocations runs beside the other request of its Promise.all.
ServeList(i) ==
    /\ i \in Flying /\ calls[i].list = "none"
    /\ \E r \in {"ok", "failed"} :
         calls' = [calls EXCEPT ![i] = Tidy([@ EXCEPT !.list = r, !.places = server.business.locations,
                                                      !.old = @ \ {"locations"}])]
    /\ UNCHANGED <<server, page, draft, saving, card, edits, stale>>

-----------------------------------------------------------------------------
(* The answers. *)

Settled(c) == c.main # "none" /\ c.list # "none"
Succeeded(c) == c.main = "ok" /\ c.list = "ok"

\* mapBusiness of an answer and the list that came with it.
MapBusiness(c) == [c.got.business EXCEPT !.locations = c.places]

\* handleBusinessChange: the whole record is replaced.
WithBusiness(b) == [page EXCEPT !.copy.business = b]

ShownUnreplaced(c) ==
    IF c.op = "load" THEN [page EXCEPT !.state = "shown", !.copy = [c.got EXCEPT !.business = MapBusiness(c)]]
    ELSE page

\* The page once call c has succeeded.
Shown(c) ==
    CASE c.op = "load" -> [page EXCEPT !.state = "shown", !.copy = [c.got EXCEPT !.business = MapBusiness(c)]]
      [] c.op \in {"profile", "notify"} -> WithBusiness(MapBusiness(c))
      [] c.op \in {"availability", "payments"} -> [page EXCEPT !.copy[c.op] = c.got[c.op]]
      [] c.op \in {"create", "update"} -> WithBusiness([c.base EXCEPT !.locations[c.place] = c.value])
      [] c.op = "delete" -> WithBusiness([c.base EXCEPT !.locations[c.place] = None])

PageAfter(c) == CASE Succeeded(c) -> Shown(c)
                  [] c.op = "load" -> [page EXCEPT !.state = "error"]
                  [] OTHER -> page

CardAfter(c) == IF OfCard(c.op) THEN IF Succeeded(c) THEN IdleCard ELSE [card EXCEPT !.busy = FALSE] ELSE card

\* The calendar and payment panels show what the server kept.
DraftAfter(c) == CASE c.op = "load" /\ Succeeded(c) -> c.got.business.profile
                   [] c.op \in {"availability", "payments"} /\ Succeeded(c) -> c.got[c.op]
                   [] OTHER -> draft

SavingAfter(c) == saving /\ c.op \notin {"availability", "payments"}

\* What stays stale: a rejected Promise.all brings nothing, though the save was done.
StaleAfter(c) ==
    LET takes == c.live /\ Succeeded(c) /\ c.op \in {"load", "availability", "payments"}
        p == IF c.op = "load" THEN "profile" ELSE c.op
        copy == IF c.shown /\ Succeeded(c) THEN (stale \ Brings(c.op)) \cup c.old ELSE stale
    IN  (copy \ ((IF takes THEN {"draft"} ELSE {}) \cup (IF c.live /\ OfCard(c.op) /\ Succeeded(c)
                                                        THEN {"label"} ELSE {})))
        \cup (IF takes /\ (p \in c.old \/ Pending(p) # {}) THEN {"draft"} ELSE {})

Arrive(i) ==
    /\ i \in Flying /\ Settled(calls[i])
    /\ LET c == calls[i] IN
         /\ stale' = StaleAfter(c)
         /\ page' = IF c.shown THEN PageAfter(c) ELSE page
         /\ draft' = IF c.live THEN DraftAfter(c) ELSE draft
         /\ saving' = IF c.live THEN SavingAfter(c) ELSE saving
         /\ card' = IF c.live THEN CardAfter(c) ELSE card
    /\ calls' = Without(i, None)
    /\ UNCHANGED <<server, edits>>

-----------------------------------------------------------------------------

Operator == \/ \E s \in Sections : SelectSection(s)
            \/ Reopen \/ Type \/ Save \/ StartNew \/ CancelEdit \/ TypeLocation \/ SaveLocation
            \/ \E l \in Locations : StartEdit(l) \/ AskDelete(l)
Network == \E i \in Slots : Serve(i) \/ Refuse(i) \/ ServeList(i) \/ Arrive(i)
Next == Operator \/ Network

Spec == Init /\ [][Next]_vars

\* Requests settle and their continuations run.
FairSpec == Spec /\ \A i \in Slots : /\ WF_vars(Serve(i) \/ Refuse(i))
                                     /\ WF_vars(ServeList(i))
                                     /\ WF_vars(Arrive(i))

Part(s, p) == IF p \in {"availability", "payments"} THEN s[p] ELSE s.business[p]

\* A part of the copy is what the server has, though saves of other parts and of itself
\* overlap: until the answer of a save of it arrives, which may be lost; or unless an answer
\* brought it that had it from before the save, as the locations card's has all of the business.
CopyFollowsServer ==
    page.state = "shown" => \A p \in Parts \ stale : Part(page.copy, p) = Part(server, p)

\* An edit is replaced by an earlier one.
Lowered(old, new, p) ==
    IF p = "locations" THEN \E l \in Locations : old[l] # None /\ new[l] # None /\ new[l] < old[l]
                       ELSE new < old

\* A save puts back nothing that the server has already replaced: no other part at all, and its
\* own only where it was sent before another save of it that came first, or from a draft that was
\* taken from a copy the server was ahead of.
NothingBroughtBackStep ==
    \A p \in Parts :
       Lowered(Part(server, p), Part(server', p), p) =>
           \E i \in Flying : /\ calls[i].main = "none" /\ calls[i].late /\ p \in Saves(calls[i].op)
                             /\ calls'[i] # None /\ calls'[i].main # "none"

\* A save button that went busy becomes usable again, also when the save fails.
Awaited == IF saving \/ card.busy THEN {"save"} ELSE {}
=============================================================================
