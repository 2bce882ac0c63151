---------------------------- MODULE FormBuilder ----------------------------
(***************************************************************************)
(* The two editors of the catalog that keep a list of rows (web/src:       *)
(* components/shared/forms/PackageForm and FormTemplateForm): the services  *)
(* a package bundles, in their order,                                      *)
(* and the questions of a form with the options of a choice.               *)
(*                                                                         *)
(* Editing says which one is open.  An option is what is left of a line    *)
(* when the editor has trimmed it; the text of all options is a sequence   *)
(* of keys, of which only the new line and the letters matter here.        *)
(***************************************************************************)
EXTENDS Naturals, Sequences, FiniteSets, SequencesExt

CONSTANTS Editing,    \* "package" or "form"
          Services,   \* the services there can be
          RowIds,     \* the identities makeId hands out
          Keys,       \* the letters that are typed
          NewLine,    \* the key between two options
          MaxRows,    \* bound: rows of the list
          MaxKeys,    \* bound: keys of a text
          None        \* no service

BuilderAssumption ==
    /\ Editing \in {"package", "form"}
    /\ NewLine \notin Keys /\ None \notin Services
    /\ MaxRows \in Nat \ {0} /\ MaxKeys \in Nat

VARIABLES catalog,    \* the services and whether they are active
          services,   \* the active services as the editor has loaded them
          rows,       \* the list that is edited
          attached,   \* the services the form is attached to
          others,     \* those that were attached when the editor opened and that it does not show
          saved       \* what the last save sent of the list

vars == <<catalog, services, rows, attached, others, saved>>

Items == [id: RowIds, service: Services, order: 0..MaxRows - 1]
Texts == UNION {[1..n -> Keys \cup {NewLine}] : n \in 0..MaxKeys}
Questions == [id: RowIds, choice: BOOLEAN, options: Texts,
              typed: Texts]     \* the keys pressed in the empty text, in their order

TypeOK == /\ catalog \in [Services -> {"active", "inactive", "removed"}]
          /\ services \subseteq Services
          /\ rows \in Seq(IF Editing = "package" THEN Items ELSE Questions) /\ Len(rows) <= MaxRows
          /\ attached \subseteq Services /\ others \subseteq Services
          /\ saved \in BOOLEAN

Ids(list) == {list[n].id : n \in DOMAIN list}
Active == {s \in Services : catalog[s] = "active"}

\* A package of the catalog has its items numbered; a form has one question or none.
Init == /\ catalog \in [Services -> {"active", "inactive"}]
        /\ services = {}
        /\ rows \in {<<>>} \cup
             IF Editing = "package"
             THEN {<<[id |-> i, service |-> s, order |-> 0]>> : i \in RowIds, s \in Services}
             ELSE {<<[id |-> i, choice |-> FALSE, options |-> <<>>, typed |-> <<>>]>> : i \in RowIds}
        /\ attached \in IF Editing = "form" THEN SUBSET Services ELSE {{}}
        /\ others = attached \ services
        /\ saved = FALSE

-----------------------------------------------------------------------------
(* The list. *)

\* The editor's services arrive, those that are active.
ServicesArrive ==
    /\ services = {} /\ Active # {}
    /\ services' = Active /\ others' = others \ Active
    /\ UNCHANGED <<catalog, rows, attached, saved>>

\* Every change of a package numbers its items by their position.
Reindex(list) ==
    IF Editing = "package" THEN [n \in DOMAIN list |-> [list[n] EXCEPT !.order = n - 1]] ELSE list

SetItems(list) == rows' = Reindex(list) /\ saved' = FALSE

\* A new item starts with the first active service, a new question as a short text.
NewRow(i, first) ==
    IF Editing = "package" THEN [id |-> i, service |-> first, order |-> Len(rows)]
    ELSE [id |-> i, choice |-> FALSE, options |-> <<>>, typed |-> <<>>]

\* A variant of Add: an identity may be handed out twice.
AddAgain ==
    /\ Editing = "package" => services # {}
    /\ Len(rows) < MaxRows
    /\ \E i \in RowIds, first \in IF services = {} THEN {None} ELSE services :
         SetItems(Append(rows, NewRow(i, first)))
    /\ UNCHANGED <<catalog, services, attached, others>>

\* makeId does not hand out an identity twice.
Add ==
    /\ Editing = "package" => services # {}
    /\ Len(rows) < MaxRows
    /\ \E i \in RowIds \ Ids(rows), first \in IF services = {} THEN {None} ELSE services :
         SetItems(Append(rows, NewRow(i, first)))
    /\ UNCHANGED <<catalog, services, attached, others>>

\* Without services a package hides its items.
Listed == Editing = "package" => services # {}

RemoveRow ==
    /\ Listed
    /\ \E n \in DOMAIN rows : SetItems(RemoveAt(rows, n))
    /\ UNCHANGED <<catalog, services, attached, others>>

MoveRow ==
    /\ Listed
    /\ \E n \in 1..Len(rows) - 1 :
         SetItems([rows EXCEPT ![n] = rows[n + 1], ![n + 1] = rows[n]])
    /\ UNCHANGED <<catalog, services, attached, others>>

\* The row with the identity of the n-th is changed.
Update(n, row) ==
    SetItems([m \in DOMAIN rows |-> IF rows[m].id = rows[n].id THEN row ELSE rows[m]])

PickService ==
    /\ Editing = "package" /\ Listed
    /\ \E n \in DOMAIN rows, s \in services :
         /\ s # rows[n].service
         /\ Update(n, [rows[n] EXCEPT !.service = s])
    /\ UNCHANGED <<catalog, services, attached, others>>

-----------------------------------------------------------------------------
(* The questions of a form. *)

\* A choice keeps its options, any other type drops them.
PickType ==
    /\ Editing = "form"
    /\ \E n \in DOMAIN rows :
         Update(n, [rows[n] EXCEPT !.choice = ~@, !.options = <<>>, !.typed = <<>>])
    /\ UNCHANGED <<catalog, services, attached, others>>

\* The text of the options of a text: its lines without the empty ones.
Options(text) ==
    LET kept == {k \in DOMAIN text :
                   text[k] = NewLine => /\ k > 1 /\ text[k - 1] # NewLine
                                        /\ \E l \in k + 1..Len(text) : text[l] # NewLine}
    IN  [n \in 1..Cardinality(kept) |-> text[SetToSortSeq(kept, <)[n]]]

\* A key at the end of the text: what is kept is shown, and typed on.
TypeOption ==
    /\ Editing = "form"
    /\ \E n \in DOMAIN rows, key \in Keys \cup {NewLine} :
         /\ rows[n].choice /\ Len(rows[n].typed) < MaxKeys
         /\ Update(n, [rows[n] EXCEPT !.options = Options(Append(@, key)), !.typed = Append(@, key)])
    /\ UNCHANGED <<catalog, services, attached, others>>

\* A text that is pasted over the old one.
PasteOptions ==
    /\ Editing = "form"
    /\ \E n \in DOMAIN rows, text \in Texts :
         /\ rows[n].choice
         /\ Update(n, [rows[n] EXCEPT !.options = Options(text), !.typed = Options(text)])
    /\ UNCHANGED <<catalog, services, attached, others>>

\* The boxes of the services the editor shows.
ToggleService ==
    /\ Editing = "form"
    /\ \E s \in services : attached' = IF s \in attached THEN attached \ {s} ELSE attached \cup {s}
    /\ saved' = FALSE
    /\ UNCHANGED <<catalog, services, rows, others>>

\* The drawer sends the list; the schema asks for distinct identities, for options of a
\* choice and for none of anything else.
Taken == /\ Cardinality(Ids(rows)) = Len(rows)
         /\ Editing = "form" => \A n \in DOMAIN rows : rows[n].choice <=> rows[n].options # <<>>

Save == /\ ~saved /\ Taken
        /\ saved' = TRUE
        /\ UNCHANGED <<catalog, services, rows, attached, others>>

-----------------------------------------------------------------------------
\* The catalog changes; the services of a package are not asked.
Elsewhere ==
    /\ \E s \in Services, to \in {"active", "inactive", "removed"} :
         /\ catalog[s] \notin {to, "removed"}
         /\ to = "removed" => Editing = "package" \/ s \notin attached
         /\ catalog' = [catalog EXCEPT ![s] = to]
    /\ UNCHANGED <<services, rows, attached, others, saved>>

Next == \/ ServicesArrive \/ Add \/ RemoveRow \/ MoveRow \/ PickService
        \/ PickType \/ TypeOption \/ PasteOptions \/ ToggleService \/ Save
        \/ Elsewhere

Spec == Init /\ [][Next]_vars

-----------------------------------------------------------------------------
(* Properties. *)

\* What the comment of PackageForm says: "the stored order always matches what the
\* operator sees".
OrderMatches == Editing = "package" => \A n \in DOMAIN rows : rows[n].order = n - 1

\* Rows have identities of their own: the schema refuses a form with two of one.
RowsDistinct == \A m, n \in DOMAIN rows : rows[m].id = rows[n].id => m = n

\* No row is changed or lost by what is done to another: a step adds or removes one row,
\* changes the content of one, or changes only the order.
Contents(list) == {[id |-> list[n].id,
                    content |-> IF Editing = "package" THEN list[n].service ELSE list[n].options] :
                       n \in DOMAIN list}
OthersStayStep ==
    /\ Cardinality(Contents(rows) \ Contents(rows')) <= 1
    /\ Cardinality(Contents(rows') \ Contents(rows)) <= 1
    /\ Len(rows') = Len(rows) => Ids(rows) = Ids(rows')
\* What a select of no type can hold never reaches the server: options belong to choices.
OptionsOfChoices == Editing = "form" => \A n \in DOMAIN rows : ~rows[n].choice => rows[n].options = <<>>

\* A service that the editor does not show stays attached, whatever is ticked.
UnseenStays == others \subseteq attached

\* What the hint says, "One per line": the options are the lines that were typed.
OneToALine ==
    Editing = "form" => \A n \in DOMAIN rows : rows[n].options = Options(rows[n].typed)

\* What the comment of PackageForm says: "A package is an ordered bundle of existing
\* services".
BundlesExisting ==
    saved /\ Editing = "package" => \A n \in DOMAIN rows : catalog[rows[n].service] # "removed"
=============================================================================
