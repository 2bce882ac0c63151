--------------------------- MODULE ClientRecord ---------------------------
(***************************************************************************)
(* The directory of clients, a client's page, the drawer that edits one    *)
(* and the requests for data protection (web/src: components/admin/clients *)
(* ClientsView.tsx, ClientPrivacyActions.tsx; app clients/[id]/page.tsx;   *)
(* components/drawers/ClientDrawer.tsx; services/clients.service.ts) with  *)
(* the server's clients (slotera_api: clients/repository.py).              *)
(*                                                                         *)
(* The drawer belongs to the layout, so it outlives the page it was opened *)
(* from.  Everything personal but the address is one value; an erased      *)
(* client's address is a placeholder that no client can be given.          *)
(***************************************************************************)
EXTENDS Naturals, FiniteSets

CONSTANTS Clients, Emails, Details,
          MaxOps,  \* requests under way, those of pages that were left included
          None     \* no client; of an address, the placeholder; erased details

ClientsAssumption == "list" \notin Clients /\ None \notin Clients \cup Emails \cup Details

VARIABLES row,    \* the server's clients
          page,   \* the page: where it is, what it shows and asks
          drawer, \* the drawer
          dialog, \* the data-protection requests of a client's page
          ops,    \* requests under way
          behind  \* the clients that changed without the page that is open being told

vars == <<row, page, drawer, dialog, ops, behind>>

Forms == [email: Emails \cup {None}, details: Details \cup {None}]
Erased == [email |-> None, details |-> None]
RowSets == [Clients -> Forms \cup {None}]
Blank == [email |-> None, details |-> None]
Shut == [open |-> FALSE, of |-> None, was |-> None, form |-> Blank, here |-> FALSE]
NoDialog == [confirming |-> FALSE, typed |-> None, busy |-> FALSE]
NoLoad == [asked |-> FALSE, view |-> None]
Ops == [kind: {"save", "download", "erase"}, of: Clients \cup {None}, was: Forms \cup {None},
        form: Forms, served: BOOLEAN, here: BOOLEAN]

saving == \E o \in ops : o.kind = "save"

TypeOK == /\ row \in RowSets
          /\ page.at \in Clients \cup {"list"} /\ page.shown \in RowSets \cup {None} /\ page.error \in BOOLEAN
          /\ page.load.asked \in BOOLEAN /\ page.load.view \in RowSets \cup {None}
          /\ drawer.open \in BOOLEAN /\ drawer.of \in Clients \cup {None} /\ drawer.form \in Forms
          /\ (~drawer.open => drawer = Shut)
          /\ dialog \in [confirming: BOOLEAN, typed: Emails \cup {None}, busy: BOOLEAN]
          /\ (dialog # NoDialog => page.at # "list" /\ page.shown # None)
          /\ behind \subseteq Clients
          /\ ops \subseteq Ops /\ Cardinality(ops) <= MaxOps
          \* one save of the drawer, one request of the page that is open
          /\ \A o, p \in ops : (o.kind = "save" /\ p.kind = "save") => o = p
          /\ dialog.busy <=> \E o \in ops : o.kind # "save" /\ o.here

EmailsApart == \A c, d \in Clients : (row[c] # None /\ row[d] # None /\ c # d) =>
                   (row[c].email # row[d].email \/ row[c].email = None)

Init == /\ row \in [Clients -> [email: Emails, details: Details] \cup {None}] /\ EmailsApart
        /\ page = [at |-> "list", shown |-> None, error |-> FALSE, load |-> [asked |-> TRUE, view |-> None]]
        /\ drawer = Shut /\ dialog = NoDialog /\ ops = {} /\ behind = {}

-----------------------------------------------------------------------------
(* The pages' loads. *)

Asked(p) == [p EXCEPT !.load = [asked |-> TRUE, view |-> None], !.error = FALSE]

\* Another page is mounted: what the earlier one asked for finds nothing to change.
At(x) == /\ page' = [at |-> x, shown |-> None, error |-> FALSE, load |-> [asked |-> TRUE, view |-> None]]
         /\ dialog' = NoDialog
         /\ ops' = {[o EXCEPT !.here = FALSE] : o \in ops}
         /\ drawer' = [drawer EXCEPT !.here = FALSE]
         /\ behind' = {}

loadDetail ==
    /\ page.load.asked /\ page.load.view = None
    /\ page' = [page EXCEPT !.load.view = [c \in Clients |-> IF page.at \in {"list", c} THEN row[c] ELSE None]]
    /\ behind' = {}
    /\ UNCHANGED <<row, drawer, dialog, ops>>

Loaded ==
    /\ page.load.view # None
    /\ page' = [page EXCEPT !.shown = page.load.view, !.load = NoLoad]
    /\ UNCHANGED <<row, drawer, dialog, ops, behind>>

\* The message replaces the page, and the requests' dialog with it.
LoadFailed ==
    /\ page.load.asked
    /\ page' = [page EXCEPT !.error = TRUE, !.load = NoLoad]
    /\ dialog' = NoDialog
    /\ ops' = {[o EXCEPT !.here = o.here /\ o.kind = "save"] : o \in ops}
    /\ UNCHANGED <<row, drawer, behind>>

Uncovered == ~drawer.open /\ ~dialog.confirming

Retry ==
    /\ Uncovered /\ page.error
    /\ page' = Asked(page)
    /\ UNCHANGED <<row, drawer, dialog, ops, behind>>

\* The search box narrows the list to what it finds in an address or a name.
filtered(query) == {c \in Clients : page.shown # None /\ page.shown[c] # None
                                    /\ query \in {None, page.shown[c].email, page.shown[c].details}}

OpenClient(c, query) ==
    /\ page.at = "list" /\ ~page.error /\ Uncovered /\ c \in filtered(query)
    /\ At(c)
    /\ UNCHANGED row

\* The link, or the browser's way back, which nothing covers.
ToList ==
    /\ page.at # "list"
    /\ At("list")
    /\ UNCHANGED row

-----------------------------------------------------------------------------
(* The drawer. *)

Client == IF page.at = "list" \/ page.shown = None \/ page.error THEN None ELSE page.shown[page.at]

AddClient ==
    /\ page.at = "list" /\ Uncovered
    /\ drawer' = [Shut EXCEPT !.open = TRUE, !.here = TRUE]
    /\ UNCHANGED <<row, page, dialog, ops, behind>>

EditClient ==
    /\ Client # None /\ Uncovered
    /\ drawer' = [open |-> TRUE, of |-> page.at, was |-> Client, form |-> Client, here |-> TRUE]
    /\ UNCHANGED <<row, page, dialog, ops, behind>>

\* The fields are closed while a save is under way, another drawer's too.
Set(f) ==
    /\ drawer.open /\ ~saving /\ drawer.form # f
    /\ drawer' = [drawer EXCEPT !.form = f]
    /\ UNCHANGED <<row, page, dialog, ops, behind>>

Close ==
    /\ drawer.open
    /\ drawer' = Shut
    /\ UNCHANGED <<row, page, dialog, ops, behind>>

\* A name and an address: those of an erased client count.
MaySave == /\ drawer.open /\ ~saving
           /\ drawer.was = Erased \/ (drawer.form.email # None /\ drawer.form.details # None)

save ==
    /\ MaySave /\ Cardinality(ops) < MaxOps
    /\ ops' = ops \cup {[kind |-> "save", of |-> drawer.of, was |-> drawer.was, form |-> drawer.form,
                         served |-> FALSE, here |-> drawer.here]}
    /\ UNCHANGED <<row, page, drawer, dialog, behind>>

-----------------------------------------------------------------------------
(* Data-protection requests. *)

Requests(kind) == ops' = ops \cup {[kind |-> kind, of |-> page.at, was |-> Client,
                                    form |-> [Blank EXCEPT !.email = dialog.typed],
                                    served |-> FALSE, here |-> TRUE]}

download ==
    /\ Client # None /\ Uncovered /\ ~dialog.busy /\ Cardinality(ops) < MaxOps
    /\ dialog' = [dialog EXCEPT !.busy = TRUE]
    /\ Requests("download")
    /\ UNCHANGED <<row, page, drawer, behind>>

AskErase ==
    /\ Client # None /\ Uncovered /\ ~dialog.busy
    /\ dialog' = [dialog EXCEPT !.confirming = TRUE, !.typed = None]
    /\ UNCHANGED <<row, page, drawer, ops, behind>>

TypeEmail(x) ==
    /\ dialog.confirming /\ dialog.typed # x
    /\ dialog' = [dialog EXCEPT !.typed = x]
    /\ UNCHANGED <<row, page, drawer, ops, behind>>

KeepClient ==
    /\ dialog.confirming /\ ~dialog.busy
    /\ dialog' = [dialog EXCEPT !.confirming = FALSE, !.typed = None]
    /\ UNCHANGED <<row, page, drawer, ops, behind>>

\* What was typed is compared with the client as it is shown.
erase ==
    /\ dialog.confirming /\ ~dialog.busy /\ Client # None /\ dialog.typed = Client.email
    /\ Cardinality(ops) < MaxOps
    /\ dialog' = [dialog EXCEPT !.busy = TRUE]
    /\ Requests("erase")
    /\ UNCHANGED <<row, page, drawer, behind>>

-----------------------------------------------------------------------------
(* The server. *)

\* Client c has what request o asked for; a page that was opened since is not told.
Serves(o, c) == /\ ops' = (ops \ {o}) \cup {[o EXCEPT !.served = TRUE, !.of = c]}
                /\ behind' = IF o.here \/ o.kind = "download" THEN behind ELSE behind \cup {c}

\* A valid address that no other client of the workspace has.
Accepts(c, f) == f.email # None /\ \A d \in Clients \ {c} : row[d] # None => row[d].email # f.email

create_client(o) ==
    /\ o.kind = "save" /\ o.of = None /\ ~o.served
    /\ \E c \in Clients : row[c] = None /\ Accepts(c, o.form) /\ row' = [row EXCEPT ![c] = o.form]
                       /\ Serves(o, c)
    /\ UNCHANGED <<page, drawer, dialog>>

update_client(o) ==
    /\ o.kind = "save" /\ o.of # None /\ ~o.served
    /\ Accepts(o.of, o.form)
    /\ row' = [row EXCEPT ![o.of] = o.form]
    /\ Serves(o, o.of)
    /\ UNCHANGED <<page, drawer, dialog>>

export_client(o) ==
    /\ o.kind = "download" /\ ~o.served
    /\ Serves(o, o.of)
    /\ UNCHANGED <<row, page, drawer, dialog>>

Confirmed(o) == o.kind = "erase" /\ o.form.email = row[o.of].email

erase_client(o) ==
    /\ Confirmed(o) /\ ~o.served
    /\ row' = [row EXCEPT ![o.of] = Erased]
    /\ Serves(o, o.of)
    /\ UNCHANGED <<page, drawer, dialog>>

-----------------------------------------------------------------------------
(* The answers. *)

\* The page's reload, if the page is still there; the drawer closes, whichever
\* it is by now.
Saved(o) ==
    /\ o.kind = "save" /\ o.served
    /\ page' = IF o.here THEN Asked(page) ELSE page
    /\ drawer' = Shut
    /\ ops' = ops \ {o}
    /\ UNCHANGED <<row, dialog, behind>>

Reloads(o) == o.kind = "erase"

Answered(o) ==
    /\ o.kind # "save" /\ o.served
    /\ IF o.here THEN /\ dialog' = [dialog EXCEPT !.busy = FALSE, !.confirming = @ /\ o.kind # "erase",
                                                  !.typed = IF o.kind = "erase" THEN None ELSE @]
                      /\ page' = IF Reloads(o) THEN Asked(page) ELSE page
                 ELSE UNCHANGED <<dialog, page>>
    /\ ops' = ops \ {o}
    /\ UNCHANGED <<row, drawer, behind>>

\* Refused, or lost before or after it was served.
Failed(o) ==
    /\ ops' = ops \ {o}
    /\ dialog' = IF o.kind # "save" /\ o.here THEN [dialog EXCEPT !.busy = FALSE] ELSE dialog
    /\ behind' = IF o.served /\ o.kind # "download" THEN behind \cup {o.of} ELSE behind
    /\ UNCHANGED <<row, page, drawer>>

\* A colleague, or the client's own booking.
OtherSaves(c, f) ==
    /\ row[c] # None /\ row[c] # Erased /\ Accepts(c, f) /\ f.details # None /\ row[c] # f
    /\ row' = [row EXCEPT ![c] = f]
    /\ behind' = behind \cup {c}
    /\ UNCHANGED <<page, drawer, dialog, ops>>

-----------------------------------------------------------------------------

Next == \/ loadDetail \/ Loaded \/ LoadFailed \/ Retry \/ ToList
        \/ (\E c \in Clients, q \in Emails \cup Details \cup {None} : OpenClient(c, q))
        \/ AddClient \/ EditClient \/ Close \/ save
        \/ (\E f \in Forms : Set(f))
        \/ download \/ AskErase \/ KeepClient \/ erase
        \/ (\E x \in Emails \cup {None} : TypeEmail(x))
        \/ \E o \in ops : \/ create_client(o) \/ update_client(o) \/ export_client(o) \/ erase_client(o)
                          \/ Saved(o) \/ Answered(o) \/ Failed(o)
        \/ \E c \in Clients, f \in Forms : OtherSaves(c, f)

Spec == Init /\ [][Next]_vars

\* Every request ends: those of the drawer and those of the page that is open apart.
FairSpec == /\ Spec /\ WF_vars(loadDetail) /\ WF_vars(Loaded)
            /\ WF_vars(\E o \in ops : o.kind = "save" /\ (Saved(o) \/ Failed(o)))
            /\ WF_vars(\E o \in ops : o.kind # "save" /\ o.here /\ (Answered(o) \/ Failed(o)))

-----------------------------------------------------------------------------
(* A client is erased by the address it has then, whatever the page showed *)
(* when it was typed.                                                      *)
ErasedByItsEmailStep ==
    \A c \in Clients : (row[c] # None /\ row[c] # Erased /\ row'[c] = Erased) =>
        \E o \in ops : o.kind = "erase" /\ o.of = c /\ o.form.email = row[c].email
(* Once its requests are answered, the page shows what the server has of   *)
(* every client, after an erasure too, but of those whose change nobody    *)
(* told it of: another's, one whose answer was lost, and one that was sent *)
(* from a page left since.                                                 *)
SettledIsCurrent ==
    (ops = {} /\ ~page.load.asked /\ ~page.error) =>
        \A c \in Clients \ behind : page.shown[c] = IF page.at \in {"list", c} THEN row[c] ELSE None

(* The drawer's fields open again and the page's buttons come back.        *)
Awaited == (IF saving THEN {"save"} ELSE {}) \cup (IF dialog.busy THEN {"remove"} ELSE {})
(* "Removed for good": what was known of a client before its erasure is    *)
(* not written back by a form that was opened before.                      *)
ErasedForGood ==
    [][\A c \in Clients : (row[c] = Erased /\ row'[c] # Erased) =>
           \E o \in ops : o.kind = "save" /\ o.of = c /\ o.was = Erased]_vars

=============================================================================
