-------------------------- MODULE WorkspaceSearch --------------------------
(***************************************************************************)
(* The search of the workspace (web/src: lib/search.ts, services/          *)
(* search.service.ts, components/admin/search) with the server's search    *)
(* (slotera_api: search/repository.py): the field in the navigation bar,   *)
(* or the palette.                                                         *)
(*                                                                         *)
(* How a query matches a thing is given, not computed from its text: in    *)
(* its title (equal, at the start, inside), in its subtitle, or in a field *)
(* that is searched and not returned.  The workspace does not change.      *)
(***************************************************************************)
EXTENDS Naturals, FiniteSets, SequencesExt

CONSTANTS Things,     \* what may be found, numbered as ties are broken
          KindOf,     \* [Things -> kind]
          Queries,    \* what may be typed; "" is blank
          Matches,    \* kinds of match that occur in this instance
          Limit,      \* shown of a kind
          Surface,    \* "navbar" or "palette"
          dataSource, \* "api" or "mock"
          None

GROUP_ORDER == <<"booking", "client", "service", "session", "navigation">>
Groups == 1 .. Len(GROUP_ORDER)

SearchAssumption ==
    /\ Things \subseteq Nat /\ KindOf \in [Things -> {GROUP_ORDER[g] : g \in Groups}]
    /\ "" \in Queries /\ Limit \in Nat \ {0}
    /\ Matches \subseteq {"equal", "starts", "title", "subtitle", "hidden", "none"}
    /\ Surface \in {"navbar", "palette"} /\ dataSource \in {"api", "mock"}

VARIABLES hit,     \* how each query matches each thing
          open,    \* the field has the focus, or the palette is open
          query,
          active,  \* the index under the keyboard
          request, \* the request whose answer still counts
          answer,  \* the last answer, tagged with its query
          index,   \* the demo's index
          went     \* what was opened last

vars == <<hit, open, query, active, request, answer, index, went>>

Lists == {<<>>} \cup {s \in SeqOf(Things, Cardinality(Things)) : IsInjective(s)}
NoRequest == [of |-> None, results |-> None]
To(q) == IF q = "" \/ dataSource = "mock" THEN NoRequest ELSE [of |-> q, results |-> None]

TypeOK == /\ hit \in [Things -> [Queries \ {""} -> Matches]]
          /\ open \in BOOLEAN /\ query \in Queries /\ active \in Nat
          \* a request is awaited for what is typed, and for nothing else
          /\ request.of \in {None, query} /\ request.of # ""
          /\ request.results = None \/ request.results \in Lists
          /\ answer = None \/ (answer.of \in Queries /\ answer.error \in BOOLEAN /\ answer.results \in Lists)
          /\ index = None \/ index \in Lists
          /\ went \in Things \cup {None}

Init == /\ hit \in [Things -> [Queries \ {""} -> Matches]]
        /\ open = FALSE /\ query = "" /\ active = 0
        /\ request = NoRequest /\ answer = None /\ index = None /\ went = None

-----------------------------------------------------------------------------
(* The server, and the demo's index. *)

rank(t, q) == CASE hit[t][q] = "equal" -> 0 [] hit[t][q] = "starts" -> 1 [] OTHER -> 2

Of(kind) == {t \in Things : KindOf[t] = kind}
InOrder(S) == SetToSortSeq(S, <)
FirstOf(n, s) == SubSeq(s, 1, IF n < Len(s) THEN n ELSE Len(s))

search(q) ==
    [g \in 1 .. Len(GROUP_ORDER) - 1 |->
        FirstOf(Limit, SetToSortSeq({t \in Of(GROUP_ORDER[g]) : hit[t][q] # "none"},
            LAMBDA s, t : rank(s, q) < rank(t, q) \/ (rank(s, q) = rank(t, q) /\ s < t)))]

navigationResults == InOrder(Of("navigation"))

Matched(q) == FlattenSeq(search(q)) \o navigationResults

buildIndex == FlattenSeq([g \in Groups |-> InOrder(Of(GROUP_ORDER[g]))])

-----------------------------------------------------------------------------
(* What is shown. *)

\* What the server does not return has no keywords to be found by.
scoreResult(t, q) ==
    CASE hit[t][q] = "equal" -> 1000 [] hit[t][q] = "starts" -> 500
      [] hit[t][q] = "title" -> 250 [] hit[t][q] = "subtitle" -> 120
      [] hit[t][q] = "hidden" /\ (dataSource = "mock" \/ KindOf[t] = "navigation") -> 80
      [] OTHER -> 0

\* The best of each group, those that score the same as they came.
groupAndRank(results, q) ==
    LET Before(i, j) == \/ scoreResult(results[i], q) > scoreResult(results[j], q)
                        \/ scoreResult(results[i], q) = scoreResult(results[j], q) /\ i < j
        Found(g) == SetToSortSeq({i \in DOMAIN results : /\ KindOf[results[i]] = GROUP_ORDER[g]
                                                   /\ scoreResult(results[i], q) > 0}, Before)
    IN  [g \in Groups |-> FirstOf(Limit, [k \in DOMAIN Found(g) |-> results[Found(g)[k]]])]

NoGroups == [g \in Groups |-> <<>>]

\* An answer to another query is none.
current == IF answer = None THEN None ELSE IF answer.of = query THEN answer ELSE None

loading == IF dataSource = "api" THEN query # "" /\ current = None ELSE index = None

groups == IF query = "" THEN NoGroups
          ELSE IF dataSource = "api" THEN IF current = None THEN NoGroups
                                          ELSE groupAndRank(current.results, query)
          ELSE IF index = None THEN NoGroups ELSE groupAndRank(index, query)

flattenGroups == FlattenSeq(groups)

\* The rows above a group.
Offset(g) == Len(FlattenSeq([h \in 1 .. g - 1 |-> groups[h]]))

isActive(g, k) == Offset(g) + k - 1 = active

Shown == open /\ query # "" /\ ~loading

-----------------------------------------------------------------------------
(* The field or the palette. *)

\* The effect drops the request of the query before.
changeQuery(q) ==
    /\ query' = q /\ active' = 0
    /\ request' = IF q = query THEN request ELSE To(q)

Focus ==
    /\ Surface = "navbar" /\ ~open
    /\ open' = TRUE
    /\ UNCHANGED <<hit, query, active, request, answer, index, went>>

\* Each opening starts from an empty search.
OpenPalette ==
    /\ Surface = "palette" /\ ~open
    /\ open' = TRUE
    /\ changeQuery("")
    /\ UNCHANGED <<hit, answer, index, went>>

\* Escape, a press elsewhere, the shortcut.
Close ==
    /\ open
    /\ open' = FALSE
    /\ UNCHANGED <<hit, query, active, request, answer, index, went>>

Type(q) ==
    /\ open /\ q # query
    /\ changeQuery(q)
    /\ UNCHANGED <<hit, open, answer, index, went>>

Moves(n) == /\ open /\ Len(flattenGroups) > 0
            /\ active' = n % Len(flattenGroups)
            /\ UNCHANGED <<hit, open, query, request, answer, index, went>>

ArrowDown == Moves(active + 1)
ArrowUp == Moves(active + Len(flattenGroups) - 1)

Hover(i) ==
    /\ Shown /\ i < Len(flattenGroups) /\ active # i
    /\ active' = i
    /\ UNCHANGED <<hit, open, query, request, answer, index, went>>

navigate(t) ==
    /\ open' = FALSE /\ went' = t
    /\ IF Surface = "navbar" THEN changeQuery("") ELSE UNCHANGED <<query, active, request>>
    /\ UNCHANGED <<hit, answer, index>>

Enter == /\ open /\ active < Len(flattenGroups)
         /\ navigate(flattenGroups[active + 1])

Select(g, k) ==
    /\ Shown /\ k \in DOMAIN groups[g]
    /\ navigate(groups[g][k])

-----------------------------------------------------------------------------
(* The answers. *)

getSearchIndex ==
    /\ dataSource = "mock" /\ index = None
    /\ index' = buildIndex
    /\ UNCHANGED <<hit, open, query, active, request, answer, went>>

getWorkspaceSearchMatches ==
    /\ request.of # None /\ request.results = None
    /\ request' = [request EXCEPT !.results = Matched(request.of)]
    /\ UNCHANGED <<hit, open, query, active, answer, index, went>>

Answered ==
    /\ request.results # None
    /\ answer' = [of |-> request.of, results |-> request.results, error |-> FALSE]
    /\ request' = NoRequest
    /\ UNCHANGED <<hit, open, query, active, index, went>>

Failed ==
    /\ request.of # None
    /\ answer' = [of |-> request.of, results |-> <<>>, error |-> TRUE]
    /\ request' = NoRequest
    /\ UNCHANGED <<hit, open, query, active, index, went>>

-----------------------------------------------------------------------------

Next == \/ Focus \/ OpenPalette \/ Close \/ ArrowDown \/ ArrowUp \/ Enter
        \/ \E q \in Queries : Type(q)
        \/ \E i \in 0 .. Cardinality(Things) : Hover(i)
        \/ \E g \in Groups, k \in 1 .. Limit : Select(g, k)
        \/ getSearchIndex \/ getWorkspaceSearchMatches \/ Answered \/ Failed

Spec == Init /\ [][Next]_vars

\* Every request is answered or fails.
FairSpec == Spec /\ WF_vars(getSearchIndex) /\ WF_vars(Answered \/ Failed)

-----------------------------------------------------------------------------
(* The keyboard is on a row whenever there are rows.                       *)
ActiveIsARow == flattenGroups # <<>> => active < Len(flattenGroups)

(* Enter opens the row that is drawn as active.                            *)
EnterOpensTheActiveStep ==
    went' # went /\ Enter
      => \E g \in Groups : \E k \in DOMAIN groups[g] : isActive(g, k) /\ went' = groups[g][k]
(* "Searching…" ends.                                                      *)
Awaited == IF loading THEN {"list"} ELSE {}
(* However late the answers to other queries come: what a searched field   *)
(* matches is shown, or as many of its kind as are shown at all.  With     *)
(* matches in fields that are not returned it is the claim of the product  *)
(* notes: "The API searches client contact fields, service                 *)
(* name/description/location".                                             *)
MatchedIsShown ==
    Shown /\ (current # None => ~current.error)
        => \A t \in Things : hit[t][query] # "none"
               => \E g \in Groups : /\ KindOf[t] = GROUP_ORDER[g]
                                    /\ \/ Len(groups[g]) = Limit
                                       \/ \E k \in DOMAIN groups[g] : groups[g][k] = t

=============================================================================
