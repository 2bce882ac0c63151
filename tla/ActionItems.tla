---------------------------- MODULE ActionItems ----------------------------
(***************************************************************************)
(* The action items of a session (web/src: components/drawers/             *)
(* SessionActionItems.tsx in SessionDrawer.tsx; services/                  *)
(* session-action-items.service.ts) with the server's items (slotera_api:  *)
(* session_action_items/repository.py).                                    *)
(*                                                                         *)
(* The drawer keeps the list, tagged with its session, beyond the panel's  *)
(* life; each operation ends by giving the drawer the list as it was when  *)
(* the operation began, changed.  A text stands for title, description and *)
(* due date, and items are added hidden from the client; two requests      *)
(* alike are not under way at once, which is a bound.                      *)
(***************************************************************************)
EXTENDS Naturals, FiniteSets

CONSTANTS Sessions, Items,
          Texts,   \* what may be typed; "" has no title
          Visible, \* values of an item's "Visible to client"
          MaxOps,  \* requests of the panel under way
          None

ItemsAssumption == "" \in Texts /\ FALSE \in Visible /\ Visible \subseteq BOOLEAN
                    /\ MaxOps \in Nat

VARIABLES row,     \* the server's items
          open,    \* the session the drawer shows
          loaded,  \* the drawer's items and the session they are tagged with
          load,    \* the list request whose answer still counts
          panel,   \* the panel is shown: the second tab of the drawer
          draft,   \* the form below the list
          edit,    \* the item edited in its place
          asking,  \* the item in the question before a deletion
          busy,
          ops,     \* requests of this panel and of earlier ones
          outdated \* the items of which the drawer's list cannot know: an answer was lost, two
                   \* requests were under way, or another operation put back what it had seen

form == <<panel, draft, edit, asking, busy>>
vars == <<row, open, loaded, load, panel, draft, edit, asking, busy, ops, outdated>>

Row == [of: Sessions, done: BOOLEAN, visible: Visible, text: Texts \ {""}]
Rows == [Items -> Row \cup {None}]
Empty == [i \in Items |-> None]
Draft == [text: Texts, visible: Visible]
NotEditing == [of |-> None, draft |-> [text |-> "", visible |-> FALSE]]
NoLoad == [asked |-> FALSE, rows |-> None]
Asked == [asked |-> TRUE, rows |-> None]

SetsBusy == {"add", "edit", "delete"}

TypeOK == /\ row \in Rows /\ open \in Sessions \cup {None}
          /\ loaded = None \/ loaded \in [session: Sessions, items: Rows]
          /\ load \in [asked: BOOLEAN, rows: Rows \cup {None}]
          /\ panel \in BOOLEAN /\ draft \in Texts /\ busy \in BOOLEAN
          /\ edit \in [of: Items \cup {None}, draft: Draft] /\ asking \in Items \cup {None}
          /\ outdated \subseteq Items
          /\ \A o \in ops : /\ o.kind \in SetsBusy \cup {"done", "visible"}
                            /\ o.of \in Items \cup {None} /\ o.got \in Row \cup {None}
                            /\ o.session \in Sessions /\ o.snapshot \in Rows
                            /\ o.left \in {"no", "tab", "drawer"}
          \* a busy panel waits for a request of its own
          /\ busy => panel /\ \E o \in ops : o.left = "no" /\ o.kind \in SetsBusy

Init == /\ row \in Rows
        /\ open = None /\ loaded = None /\ load = NoLoad
        /\ panel = FALSE /\ draft = "" /\ edit = NotEditing /\ asking = None
        /\ busy = FALSE /\ ops = {} /\ outdated = {}

-----------------------------------------------------------------------------
(* The drawer. *)

Ready == open # None /\ loaded # None /\ loaded.session = open
actionItems == IF Ready THEN loaded.items ELSE Empty
Listed == {i \in Items : actionItems[i] # None}
Loading == open # None /\ ~Ready

Settled == ops = {} /\ ~load.asked

Unmounted(how) ==
    /\ panel' = FALSE /\ draft' = "" /\ edit' = NotEditing
    /\ asking' = None /\ busy' = FALSE
    /\ ops' = {[o EXCEPT !.left = IF @ = "drawer" THEN @ ELSE how] : o \in ops}

OpenDrawer(s) ==
    /\ open = None
    /\ open' = s /\ loaded' = None /\ load' = Asked /\ outdated' = {}
    /\ UNCHANGED <<row, form, ops>>

CloseDrawer ==
    /\ open # None
    /\ open' = None /\ load' = NoLoad /\ outdated' = {}
    /\ Unmounted("drawer")
    /\ UNCHANGED <<row, loaded>>

ShowPanel ==
    /\ open # None /\ ~panel
    /\ panel' = TRUE
    /\ UNCHANGED <<row, open, loaded, load, draft, edit, asking, busy, ops, outdated>>

ShowOtherTab ==
    /\ panel
    /\ Unmounted("tab")
    /\ UNCHANGED <<row, open, loaded, load, outdated>>

listActionItemsForSession ==
    /\ load = Asked
    /\ load' = [load EXCEPT !.rows =
                    [i \in Items |-> IF row[i] # None THEN IF row[i].of = open THEN row[i] ELSE None
                                                      ELSE None]]
    /\ UNCHANGED <<row, open, loaded, form, ops, outdated>>

\* What is under way meanwhile is not in the list yet, or not known to be.
ListArrives ==
    /\ load.rows # None
    /\ loaded' = [session |-> open, items |-> load.rows]
    /\ load' = NoLoad
    /\ outdated' = outdated \cup ({o.of : o \in ops} \ {None})
    /\ UNCHANGED <<row, open, form, ops>>

\* A failed list is shown as an empty one.
ListLost ==
    /\ load.asked
    /\ loaded' = [session |-> open, items |-> Empty]
    /\ load' = NoLoad /\ outdated' = Items
    /\ UNCHANGED <<row, open, form, ops>>

\* `initial` is the one of the rendering in which the operation began.
setActionItems(o, items) == loaded' = [session |-> o.session, items |-> items]

\* The items, but for its own, that operation o puts back as it saw them; those of the
\* session that is open are all gone when it was another's.
PutBack(o) == IF o.session # open THEN Items
              ELSE {i \in Items \ {o.of} : o.snapshot[i] # actionItems[i]}

\* A list that is asked for replaces what is put back before it arrives, but may have been
\* read before the operation was served.
Outdates(o, items) == CASE ~load.asked -> items
                        [] load.rows # None -> {o.of} \ {None}
                        [] OTHER -> {}

-----------------------------------------------------------------------------
(* The panel's operations.  The draft below the list is open at all times. *)

Type(x) ==
    /\ panel /\ draft # x
    /\ draft' = x
    /\ UNCHANGED <<row, open, loaded, load, panel, edit, asking, busy, ops, outdated>>

startEdit(i) ==
    /\ panel /\ asking = None /\ i \in Listed \ {edit.of}
    /\ edit' = [of |-> i, draft |-> [text |-> actionItems[i].text,
                                     visible |-> actionItems[i].visible]]
    /\ UNCHANGED <<row, open, loaded, load, panel, draft, asking, busy, ops, outdated>>

TypeEdit(d) ==
    /\ panel /\ edit.of \in Listed /\ edit.draft # d
    /\ edit' = [edit EXCEPT !.draft = d]
    /\ UNCHANGED <<row, open, loaded, load, panel, draft, asking, busy, ops, outdated>>

CancelEdit ==
    /\ panel /\ edit.of \in Listed /\ ~busy
    /\ edit' = [edit EXCEPT !.of = None]
    /\ UNCHANGED <<row, open, loaded, load, panel, draft, asking, busy, ops, outdated>>

AskRemove(i) ==
    /\ panel /\ asking = None /\ i \in Listed \ {edit.of}
    /\ asking' = i
    /\ UNCHANGED <<row, open, loaded, load, panel, draft, edit, busy, ops, outdated>>

Keep ==
    /\ asking # None /\ ~busy
    /\ asking' = None
    /\ UNCHANGED <<row, open, loaded, load, panel, draft, edit, busy, ops, outdated>>

Sends(kind, i, to) ==
    /\ panel /\ Cardinality(ops) < MaxOps
    /\ outdated' = IF i \in {o.of : o \in ops} \ {None} THEN outdated \cup {i} ELSE outdated
    /\ LET o == [kind |-> kind, of |-> i, to |-> to, snapshot |-> actionItems, session |-> open,
                 got |-> None, served |-> FALSE, left |-> "no"]
       IN  o \notin ops /\ ops' = ops \cup {o}

\* The button spins unless an item is edited; Enter in the field asks nothing.
add ==
    /\ asking = None /\ draft # ""
    /\ Sends("add", None, [text |-> draft])
    /\ busy' = TRUE
    /\ UNCHANGED <<row, open, loaded, load, panel, draft, edit, asking>>

\* The box and the eye of an item: the list is changed before the request is sent.
Flip(i, field, value) ==
    /\ asking = None /\ i \in Listed \ {edit.of} /\ value # actionItems[i][field]
    /\ Sends(field, i, [f \in {field} |-> value])
    /\ loaded' = [loaded EXCEPT !.items[i] = [actionItems[i] EXCEPT ![field] = value]]
    /\ UNCHANGED <<row, open, load, form>>

toggle(i, value) == Flip(i, "done", value)
toggleVisibility(i, value) == Flip(i, "visible", value)

saveEdit ==
    /\ ~busy /\ asking = None /\ edit.of \in Listed /\ edit.draft.text # ""
    /\ Sends("edit", edit.of, edit.draft)
    /\ busy' = TRUE
    /\ UNCHANGED <<row, open, loaded, load, panel, draft, edit, asking>>

confirmDelete ==
    /\ ~busy /\ asking # None
    /\ Sends("delete", asking, None)
    /\ busy' = TRUE
    /\ UNCHANGED <<row, open, loaded, load, panel, draft, edit, asking>>

-----------------------------------------------------------------------------
(* The server. *)

Serves(o, i, r) ==
    /\ row' = [row EXCEPT ![i] = r]
    /\ ops' = (ops \ {o}) \cup {[o EXCEPT !.served = TRUE, !.of = i, !.got = r]}
    /\ UNCHANGED <<open, loaded, load, form, outdated>>

\* An identifier is not given twice.
Unheard(i) == /\ row[i] = None /\ actionItems[i] = None /\ i \notin {edit.of, asking}
              /\ load.rows # None => load.rows[i] = None
              /\ \A o \in ops : o.of # i /\ o.snapshot[i] = None

create_item(o) ==
    /\ o.kind = "add" /\ ~o.served
    /\ \E i \in Items : /\ Unheard(i)
                        /\ Serves(o, i, [of |-> o.session, done |-> FALSE,
                                         visible |-> FALSE, text |-> o.to.text])

Patched(o, r) == [f \in DOMAIN r |-> IF f \in DOMAIN o.to THEN o.to[f] ELSE r[f]]

update_item(o) ==
    /\ o.kind \in {"done", "visible", "edit"} /\ ~o.served /\ row[o.of] # None
    /\ Serves(o, o.of, Patched(o, row[o.of]))

delete_item(o) ==
    /\ o.kind = "delete" /\ ~o.served /\ row[o.of] # None
    /\ Serves(o, o.of, None)

-----------------------------------------------------------------------------
(* The answers. *)

\* What a panel that is still there does with its fields.
Clears(o) ==
    /\ draft' = IF o.kind = "add" THEN "" ELSE draft
    /\ edit' = IF o.kind = "edit" THEN [edit EXCEPT !.of = None] ELSE edit
    /\ asking' = IF o.kind = "delete" THEN None ELSE asking
    /\ busy' = (busy /\ o.kind \notin SetsBusy)

Answered(o) ==
    /\ o.served
    /\ ops' = ops \ {o}
    /\ IF o.kind \in SetsBusy THEN setActionItems(o, [o.snapshot EXCEPT ![o.of] = o.got])
                              ELSE UNCHANGED loaded
    /\ outdated' = outdated \cup Outdates(o, IF o.kind \in SetsBusy THEN PutBack(o) ELSE {})
    /\ IF o.left # "no" THEN UNCHANGED <<draft, edit, asking, busy>> ELSE Clears(o)
    /\ UNCHANGED <<row, open, load, panel>>

\* Refused, or lost before or after it was served: a flip is rolled back.
Failed(o) ==
    /\ ops' = ops \ {o}
    /\ IF o.kind \in SetsBusy THEN UNCHANGED loaded ELSE setActionItems(o, o.snapshot)
    /\ outdated' = outdated \cup Outdates(o, (IF o.kind \in SetsBusy THEN {} ELSE PutBack(o))
                                             \cup (IF o.served THEN {o.of} ELSE {}))
    /\ busy' = (busy /\ (o.left # "no" \/ o.kind \notin SetsBusy))
    /\ UNCHANGED <<row, open, load, panel, draft, edit, asking>>

-----------------------------------------------------------------------------

Next == \/ CloseDrawer \/ ShowPanel \/ ShowOtherTab
        \/ listActionItemsForSession \/ ListArrives \/ ListLost
        \/ CancelEdit \/ Keep \/ add \/ saveEdit \/ confirmDelete
        \/ \E s \in Sessions : OpenDrawer(s)
        \/ \E x \in Texts : Type(x)
        \/ \E d \in Draft : TypeEdit(d)
        \/ \E i \in Items : \/ startEdit(i) \/ AskRemove(i)
                            \/ \E b \in BOOLEAN : toggle(i, b)
                            \/ \E b \in Visible : toggleVisibility(i, b)
        \/ \E o \in ops : \/ create_item(o) \/ update_item(o) \/ delete_item(o)
                          \/ Answered(o) \/ Failed(o)

Spec == Init /\ [][Next]_vars

\* Every request is answered or fails in the end.
FairSpec == /\ Spec /\ WF_vars(listActionItemsForSession) /\ WF_vars(ListArrives)
            /\ WF_vars(\E o \in ops : o.kind \in SetsBusy /\ o.left = "no" /\ (Answered(o) \/ Failed(o)))

-----------------------------------------------------------------------------
(* With nothing under way the drawer shows what the server has of every    *)
(* item that is not outdated, though operations overlap: one puts back no  *)
(* more than what had changed since it began.                              *)
SettledIsCurrent ==
    Settled /\ open # None /\ ~Loading
        => \A i \in Items \ outdated : actionItems[i] =
               (IF row[i] # None THEN IF row[i].of = open THEN row[i] ELSE None ELSE None)

(* Late answers of one session's panel never show its items in another     *)
(* session's drawer.                                                       *)
ItemsOfTheOpen ==
    open # None => \A i \in Listed : actionItems[i].of = open

(* The panel's buttons come back, whatever is lost and left.               *)
Awaited == IF busy THEN {"save"} ELSE {}
(* "none yet means loading": a drawer that shows its items as loading has  *)
(* asked for them.                                                         *)
LoadingIsAsked == Loading => load.asked

(* "Reopening refetches the action items instead of showing the last       *)
(* copy": an answer to the panel of an earlier opening does not change     *)
(* what a reopened drawer shows.                                           *)
NoLastCopy ==
    [][\A o \in ops : o \notin ops' /\ o.left = "drawer" /\ Ready => loaded' = loaded]_vars

=============================================================================
