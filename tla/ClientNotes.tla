---------------------------- MODULE ClientNotes ----------------------------
(***************************************************************************)
(* The notes tab of a client (web/src: components/admin/clients/           *)
(* ClientNotes.tsx, NoteEditor.tsx; services/client-notes.service.ts) with *)
(* the server's notes (slotera_api: notes/repository.py).                  *)
(*                                                                         *)
(* The dialog's Cancel works while a save is under way, and the answer of  *)
(* the save then acts on whatever the tab shows.  A text stands for a      *)
(* title with its formatted body; two requests alike are not under way at  *)
(* once, which is a bound.                                                 *)
(***************************************************************************)
EXTENDS Naturals, FiniteSets

CONSTANTS Notes,   \* identifiers of notes of the client
          Texts,   \* what may be typed; "" has no title or no body
          MaxOps,  \* requests under way
          None     \* no text, no list, no note

NotesAssumption == "" \in Texts /\ MaxOps \in Nat

VARIABLES row,     \* the server's notes of the client
          list,    \* what the tab shows; None before the first answer
          load,    \* the list request whose answer still counts
          form,    \* the dialog: what it edits, its text, its busy button
          confirm, \* the question before a deletion
          ops,     \* saves and deletions under way
          behind   \* the notes that changed without the tab being told since it last read them

vars == <<row, list, load, form, confirm, ops, behind>>

Rows == [Notes -> (Texts \ {""}) \cup {None}]
Ops == [kind: {"create", "update", "delete"}, of: Notes \cup {"new"}, text: Texts,
        served: BOOLEAN, gone: BOOLEAN]
NoLoad == [asked |-> FALSE, rows |-> None]
Asked == [asked |-> TRUE, rows |-> None]
Closed == [of |-> None, text |-> "", saving |-> FALSE]
NoQuestion == [of |-> None, deleting |-> FALSE]

TypeOK == /\ row \in Rows /\ list \in Rows \cup {None}
          /\ load \in [asked: BOOLEAN, rows: Rows \cup {None}]
          /\ load.rows # None => load.asked
          /\ form \in [of: Notes \cup {"new", None}, text: Texts, saving: BOOLEAN]
          /\ confirm \in [of: Notes \cup {None}, deleting: BOOLEAN]
          /\ behind \subseteq Notes
          /\ ops \subseteq Ops /\ Cardinality(ops) <= MaxOps
          \* a busy dialog waits for a request of this mount
          /\ form.saving => form.of # None /\ \E o \in ops : ~o.gone /\ o.kind # "delete"
          /\ confirm.deleting => \E o \in ops : ~o.gone /\ o.kind = "delete"

Init == /\ row \in [Notes -> Texts \ {""}] \cup {[n \in Notes |-> None]}
        /\ list = None /\ load = Asked
        /\ form = Closed /\ confirm = NoQuestion /\ ops = {} /\ behind = {}

-----------------------------------------------------------------------------
(* The list. *)

listClientNotes ==
    /\ load = Asked
    /\ load' = [load EXCEPT !.rows = row]
    /\ behind' = {}
    /\ UNCHANGED <<row, list, form, confirm, ops>>

ListArrives ==
    /\ load.rows # None
    /\ list' = load.rows /\ load' = NoLoad
    /\ UNCHANGED <<row, form, confirm, ops, behind>>

\* Nothing catches it.
ListLost ==
    /\ load.asked
    /\ load' = NoLoad
    /\ behind' = Notes
    /\ UNCHANGED <<row, list, form, confirm, ops>>

Listed == {n \in Notes : list # None /\ list[n] # None}

-----------------------------------------------------------------------------
(* The dialogs.  One that is open covers the tab. *)

Uncovered == form.of = None /\ confirm.of = None

openNew ==
    /\ Uncovered
    /\ form' = [form EXCEPT !.of = "new", !.text = ""]
    /\ UNCHANGED <<row, list, load, confirm, ops, behind>>

openEdit(n) ==
    /\ Uncovered /\ n \in Listed
    /\ form' = [form EXCEPT !.of = n, !.text = list[n]]
    /\ UNCHANGED <<row, list, load, confirm, ops, behind>>

closeModal == form' = Closed

Cancel ==
    /\ form.of # None
    /\ closeModal
    /\ UNCHANGED <<row, list, load, confirm, ops, behind>>

\* The fields stay open while a save is under way.
Type(x) ==
    /\ form.of # None /\ form.text # x
    /\ form' = [form EXCEPT !.text = x]
    /\ UNCHANGED <<row, list, load, confirm, ops, behind>>

Sends(o) == /\ o \notin ops /\ Cardinality(ops) < MaxOps
            /\ ops' = ops \cup {o}

Op(kind, n, x) == [kind |-> kind, of |-> n, text |-> x, served |-> FALSE, gone |-> FALSE]

canSave == form.text # ""

save ==
    /\ form.of # None /\ ~form.saving /\ canSave
    /\ form' = [form EXCEPT !.saving = TRUE]
    /\ Sends(Op(IF form.of = "new" THEN "create" ELSE "update", form.of, form.text))
    /\ UNCHANGED <<row, list, load, confirm, behind>>

AskDelete(n) ==
    /\ Uncovered /\ n \in Listed
    /\ confirm' = [confirm EXCEPT !.of = n]
    /\ UNCHANGED <<row, list, load, form, ops, behind>>

\* Escape and the backdrop close the question at any time.
KeepNote ==
    /\ confirm.of # None
    /\ confirm' = [confirm EXCEPT !.of = None]
    /\ UNCHANGED <<row, list, load, form, ops, behind>>

confirmDelete ==
    /\ confirm.of # None /\ ~confirm.deleting
    /\ confirm' = [confirm EXCEPT !.deleting = TRUE]
    /\ Sends(Op("delete", confirm.of, ""))
    /\ UNCHANGED <<row, list, load, form, behind>>

-----------------------------------------------------------------------------
(* The server, and the answers. *)

\* Note n is as request o asked for; a tab that was opened since is not told.
Serves(o, n) == /\ ops' = (ops \ {o}) \cup {[o EXCEPT !.served = TRUE, !.of = n]}
                /\ behind' = IF o.gone THEN behind \cup {n} ELSE behind

create_note(o) ==
    /\ o.kind = "create" /\ ~o.served
    /\ \E n \in Notes : row[n] = None /\ row' = [row EXCEPT ![n] = o.text] /\ Serves(o, n)
    /\ UNCHANGED <<list, load, form, confirm>>

update_note(o) ==
    /\ o.kind = "update" /\ ~o.served /\ row[o.of] # None
    /\ row' = [row EXCEPT ![o.of] = o.text]
    /\ Serves(o, o.of)
    /\ UNCHANGED <<list, load, form, confirm>>

delete_note(o) ==
    /\ o.kind = "delete" /\ ~o.served /\ row[o.of] # None
    /\ row' = [row EXCEPT ![o.of] = None]
    /\ Serves(o, o.of)
    /\ UNCHANGED <<list, load, form, confirm>>

\* The list is asked for anew, its earlier answer dropped; the dialog that is
\* open now is closed, whichever it is.
Done(o) ==
    /\ load' = Asked
    /\ IF o.kind = "delete" THEN confirm' = NoQuestion /\ UNCHANGED form
                            ELSE closeModal /\ UNCHANGED confirm

Answered(o) ==
    /\ o.served
    /\ ops' = ops \ {o}
    /\ IF o.gone THEN UNCHANGED <<load, form, confirm>> ELSE Done(o)
    /\ UNCHANGED <<row, list, behind>>

\* A variant of NotBusy: only the deletion's button comes back.
NotBusyDelete(o) ==
    /\ confirm' = [confirm EXCEPT !.deleting = FALSE]
    /\ UNCHANGED form

NotBusy(o) ==
    IF o.kind = "delete" THEN confirm' = [confirm EXCEPT !.deleting = FALSE] /\ UNCHANGED form
                         ELSE form' = [form EXCEPT !.saving = FALSE] /\ UNCHANGED confirm

\* Refused, or lost before or after it was served.
Failed(o) ==
    /\ ops' = ops \ {o}
    /\ IF o.gone THEN UNCHANGED <<form, confirm>> ELSE NotBusy(o)
    /\ behind' = IF o.served THEN behind \cup {o.of} ELSE behind
    /\ UNCHANGED <<row, list, load>>

-----------------------------------------------------------------------------
(* Around the tab. *)

\* The overview tab, or another page; and back.
LeaveTab ==
    /\ list' = None /\ load' = Asked /\ form' = Closed /\ confirm' = NoQuestion
    /\ ops' = {[o EXCEPT !.gone = TRUE] : o \in ops}
    /\ UNCHANGED <<row, behind>>

OtherDeletes(n) ==
    /\ row[n] # None
    /\ row' = [row EXCEPT ![n] = None]
    /\ behind' = behind \cup {n}
    /\ UNCHANGED <<list, load, form, confirm, ops>>

-----------------------------------------------------------------------------

Ends == \E o \in ops : Answered(o) \/ Failed(o)

Next == \/ listClientNotes \/ ListArrives \/ ListLost
        \/ openNew \/ Cancel \/ save \/ KeepNote \/ confirmDelete
        \/ \E n \in Notes : openEdit(n) \/ AskDelete(n) \/ OtherDeletes(n)
        \/ \E x \in Texts : Type(x)
        \/ \E o \in ops : create_note(o) \/ update_note(o) \/ delete_note(o)
        \/ Ends \/ LeaveTab

Spec == Init /\ [][Next]_vars

\* Every request is answered or fails in the end, and the list with it.
FairSpec == /\ Spec /\ WF_vars(listClientNotes) /\ WF_vars(ListArrives)
            /\ \A o \in Ops : WF_vars(o \in ops /\ (Answered(o) \/ Failed(o)))

-----------------------------------------------------------------------------
(* Once its requests are answered, the tab shows what the server has of    *)
(* every note: no answer of an older list comes after it, whatever was     *)
(* sent meanwhile.  It is not told of a note that another deletes, whose   *)
(* answer was lost or that was sent before the tab was left, and of none   *)
(* when a list is lost.                                                    *)
SettledIsCurrent ==
    ops = {} /\ ~load.asked => \A n \in Notes \ behind : list # None /\ list[n] = row[n]

(* A busy button comes back, though requests are lost and the tab is left. *)
Awaited == (IF form.saving THEN {"save"} ELSE {}) \cup (IF confirm.deleting THEN {"remove"} ELSE {})
(* "Note saved": the dialog that an answer closes holds what was saved.    *)
SavedIsWritten ==
    [][form.of # None /\ form'.of = None /\ ops' # ops /\ ops' \subseteq ops
         => \E o \in ops \ ops' : o.text = form.text]_vars

=============================================================================
