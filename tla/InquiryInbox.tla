--------------------------- MODULE InquiryInbox ---------------------------
(***************************************************************************)
(* The staff's inbox of inquiries and the drawer that makes a workspace of *)
(* one (web/src: components/superadmin/InquiriesView.tsx,                  *)
(* NewWorkspaceDrawer.tsx; services/platform.service.ts) with the server's *)
(* inquiries and workspaces.                                               *)
(*                                                                         *)
(* Marking an inquiry is a request and then the list again, of which the   *)
(* one inquiry is taken; making a workspace is followed by both.  The      *)
(* drawer's first values are an object made anew with every rendering of   *)
(* the inbox.  A form is named by the inquiry it was filled from.          *)
(***************************************************************************)
EXTENDS Naturals, FiniteSets

CONSTANTS Inquiries,
          Business, \* those that can be promoted
          Typed,    \* forms as edited by hand
          MaxOps,   \* requests under way
          CanLose,  \* requests may be lost
          None      \* no inquiry, no list

InboxAssumption == Business \subseteq Inquiries /\ Inquiries \cap Typed = {} /\ CanLose \in BOOLEAN

VARIABLES read,       \* the server's marks
          workspaces, \* the server's workspaces, by the form they were made of
          items,      \* the list as shown
          openId,     \* the preview
          promoting,  \* the drawer's inquiry
          form,       \* the drawer's fields
          busy,       \* the drawer's button
          ops         \* requests under way

vars == <<read, workspaces, items, openId, promoting, form, busy, ops>>

Marks == [Inquiries -> BOOLEAN]
Forms == Business \cup Typed
Ops == [kind: {"mark", "provision", "list", "created"}, id: Inquiries \cup {None}, to: BOOLEAN,
        form: Forms \cup {None}, stage: {"sent", "made", "marking", "marked", "listed"},
        rows: Marks \cup {None}]

TypeOK == /\ read \in Marks /\ workspaces \subseteq Forms /\ items \in Marks \cup {None}
          /\ openId \in Inquiries \cup {None} /\ promoting \in Business \cup {None}
          /\ form \in Forms \cup {None} /\ busy \in BOOLEAN
          /\ ops \subseteq Ops /\ Cardinality(ops) <= MaxOps
          \* the button is busy with the one workspace that is being made
          /\ busy <=> \E o \in ops : o.kind = "provision"
          /\ \A o, p \in ops : (o.kind = "provision" /\ p.kind = "provision") => o = p
          /\ promoting # None => openId = None

Op(kind, i, to) == [kind |-> kind, id |-> i, to |-> to, form |-> None,
                    stage |-> IF kind \in {"list", "created"} THEN "marked" ELSE "sent", rows |-> None]

Init == /\ read \in Marks /\ workspaces = {}
        /\ items = None /\ openId = None /\ promoting = None /\ form = None /\ busy = FALSE
        /\ ops = {Op("list", None, FALSE)}

Sends(o) == /\ o \notin ops /\ Cardinality(ops) < MaxOps
            /\ ops' = ops \cup {o}

-----------------------------------------------------------------------------
(* The inbox.  The preview and the drawer cover it, and each other. *)

Uncovered == openId = None /\ promoting = None

\* By the text of the search box, the type and the mark.
filtered(ids, marks) == {i \in ids : items # None /\ items[i] \in marks}

handleOpen(i) ==
    /\ Uncovered /\ i \in filtered(Inquiries, BOOLEAN)
    /\ openId' = i
    /\ IF items[i] THEN UNCHANGED ops ELSE Sends(Op("mark", i, TRUE))
    /\ UNCHANGED <<read, workspaces, items, promoting, form, busy>>

\* The preview stays until it is answered, and the button can be pressed again.
handleMarkUnread ==
    /\ openId # None
    /\ Sends(Op("mark", openId, FALSE))
    /\ UNCHANGED <<read, workspaces, items, openId, promoting, form, busy>>

ClosePreview ==
    /\ openId # None
    /\ openId' = None
    /\ UNCHANGED <<read, workspaces, items, promoting, form, busy, ops>>

Promote ==
    /\ openId \in Business
    /\ openId' = None /\ promoting' = openId /\ form' = openId
    /\ UNCHANGED <<read, workspaces, items, busy, ops>>

-----------------------------------------------------------------------------
(* The drawer. *)

Edit(f) ==
    /\ promoting # None /\ ~busy /\ form # f
    /\ form' = f
    /\ UNCHANGED <<read, workspaces, items, openId, promoting, busy, ops>>

\* The cross, Escape and the backdrop, while it is busy too.  Its fields stay behind it.
CloseDrawer ==
    /\ promoting # None
    /\ promoting' = None
    /\ UNCHANGED <<read, workspaces, items, openId, form, busy, ops>>

MaySave == promoting # None /\ ~busy

save ==
    /\ MaySave
    /\ busy' = TRUE
    /\ Sends([Op("provision", promoting, TRUE) EXCEPT !.form = form])
    /\ UNCHANGED <<read, workspaces, items, openId, promoting, form>>

-----------------------------------------------------------------------------
(* The server, and what the browser asks next. *)

Moves(o, p) == ops' = (ops \ {o}) \cup {p}

\* Neither its address nor its owner's is taken.
provision_workspace(o) ==
    /\ o.kind = "provision" /\ o.stage = "sent" /\ o.form \notin workspaces
    /\ workspaces' = workspaces \cup {o.form}
    /\ Moves(o, [o EXCEPT !.stage = "made"])
    /\ UNCHANGED <<read, items, openId, promoting, form, busy>>

ThenMark(o) ==
    /\ o.stage = "made"
    /\ Moves(o, [o EXCEPT !.stage = "marking"])
    /\ UNCHANGED <<read, workspaces, items, openId, promoting, form, busy>>

Marking(o) == o.stage = "marking" \/ (o.kind = "mark" /\ o.stage = "sent")

mark_inquiry_read(o) ==
    /\ Marking(o)
    /\ read' = [read EXCEPT ![o.id] = o.to]
    /\ Moves(o, [o EXCEPT !.stage = "marked"])
    /\ UNCHANGED <<workspaces, items, openId, promoting, form, busy>>

listInquiries(o) ==
    /\ o.stage = "marked"
    /\ Moves(o, [o EXCEPT !.stage = "listed", !.rows = read])
    /\ UNCHANGED <<read, workspaces, items, openId, promoting, form, busy>>

\* Rendering the inbox hands an open drawer other first values, equal as they are.
Rendered == form' = IF promoting # None THEN promoting ELSE form

\* Answers in the order in which they come.
Listed(o) ==
    /\ o.kind = "list" /\ o.stage = "listed"
    /\ items' = o.rows /\ ops' = ops \ {o} /\ Rendered
    /\ UNCHANGED <<read, workspaces, openId, promoting, busy>>

Marked(o) ==
    /\ o.kind = "mark" /\ o.stage = "listed"
    /\ items' = IF items = None THEN None ELSE [items EXCEPT ![o.id] = o.rows[o.id]]
    /\ openId' = IF o.to THEN openId ELSE None
    /\ ops' = ops \ {o} /\ Rendered
    /\ UNCHANGED <<read, workspaces, promoting, busy>>

\* The success is told, the list asked for, the drawer closed whatever it holds.
Provisioned(o) ==
    /\ o.kind = "provision" /\ o.stage = "listed"
    /\ promoting' = None /\ busy' = FALSE
    /\ Moves(o, Op("created", None, FALSE))
    /\ UNCHANGED <<read, workspaces, items, openId, form>>

\* The new workspace's page; coming back mounts the inbox anew.  Marks that were
\* sent are served all the same, which the bound leaves out.
Leave(o) ==
    /\ o.kind = "created" /\ o.stage = "listed" /\ ops = {o}
    /\ items' = None /\ openId' = None /\ promoting' = None /\ form' = None
    /\ ops' = {Op("list", None, FALSE)}
    /\ UNCHANGED <<read, workspaces, busy>>

\* Refused, or lost at any of its steps.  Only the drawer's is caught and told.
Failed(o) ==
    /\ CanLose \/ (o.stage = "sent" /\ o.form \in workspaces)
    /\ ops' = ops \ {o}
    /\ busy' = (busy /\ o.kind # "provision")
    /\ UNCHANGED <<read, workspaces, items, openId, promoting, form>>

-----------------------------------------------------------------------------

Serves(o) == provision_workspace(o) \/ ThenMark(o) \/ mark_inquiry_read(o) \/ listInquiries(o)
Answers(o) == Listed(o) \/ Marked(o) \/ Provisioned(o) \/ Leave(o) \/ Failed(o)

Next == \/ \E i \in Inquiries : handleOpen(i)
        \/ handleMarkUnread \/ ClosePreview \/ Promote \/ CloseDrawer \/ save
        \/ \E f \in Typed : Edit(f)
        \/ \E o \in ops : Serves(o) \/ Answers(o)

Spec == Init /\ [][Next]_vars

\* The workspace's request is served step by step, or fails.
FairSpec == Spec /\ WF_vars(\E o \in ops : o.kind = "provision" /\ (Serves(o) \/ Answers(o)))

-----------------------------------------------------------------------------
(* An untouched drawer holds the inquiry it was opened from, and the       *)
(* inquiry that is marked with a workspace is the one it was made of.      *)
FormIsThePromoted == /\ promoting # None => form \in Typed \cup {promoting}
                     /\ \A o \in ops : o.kind = "provision" => o.form \in Typed \cup {o.id}

(* The drawer's button comes back, whichever of its requests fails.        *)
Awaited == IF busy THEN {"save"} ELSE {}

(* What was typed into the drawer stays while it is open.                  *)
TypedIsKept == [][(promoting # None /\ promoting' = promoting /\ form \in Typed) => form' \in Typed]_vars

(* "Couldn't create workspace" is not said of one whose creation was       *)
(* answered.                                                               *)
ErrorMeansNone ==
    [][\A o \in ops : (o.kind = "provision" /\ o \notin ops' /\ ops' \subseteq ops)
         => o.stage \in {"sent", "made"}]_vars

=============================================================================
