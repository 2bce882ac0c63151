------------------------------ MODULE Dialogs ------------------------------
(***************************************************************************)
(* The layers over an operator's page: one drawer at a time, the dialog    *)
(* with which a drawer asks before it cancels or removes, and the search   *)
(* palette (web/src: components/ui/{DrawerShell,Modal,ConfirmDialog},      *)
(* components/drawers/DrawersProvider, lib/use-dialog-focus,               *)
(* components/admin/search/CommandPalette, components/layout/AppShell).    *)
(*                                                                         *)
(* A step is a commit of React: first the clean-ups of the effects that    *)
(* end or run again, then the effects, children before parents.  The       *)
(* listeners of one key are steps of their own, because React renders      *)
(* between them.  What the layers hold is the other modules'.              *)
(***************************************************************************)
EXTENDS Naturals, Sequences, SequencesExt, FiniteSets

CONSTANTS Drawers,              \* the drawers of DrawersProvider
          EnableCommandPalette, \* the operator's pages have the palette
          None                  \* no drawer

DialogsAssumption == /\ None \notin Drawers /\ IsFiniteSet(Drawers)
                     /\ EnableCommandPalette \in BOOLEAN

VARIABLES open,      \* the drawer that is open
          rendered,  \* drawers in the document, those moving out among them
          entered,   \* drawers that have moved in
          frames,    \* drawers about to move in
          timers,    \* drawers about to be taken out
          asked,     \* drawers whose dialog is to be shown; outlives the drawer
          busy,      \* drawers whose dialog waits for an answer
          palette,   \* the search palette is open
          locked,    \* the page does not scroll
          listeners, \* the layers that listen for Escape, in the order they began
          key,       \* those that have yet to hear the key that is pressed
          focus,     \* where the keyboard's focus is
          opener,    \* where each layer gives it back
          stacked,   \* history: two layers were open at once since the page was bare
          searched   \* history: so was the palette

shell == <<rendered, entered, frames, timers>>
history == <<stacked, searched>>
vars == <<open, shell, asked, busy, palette, locked, listeners, key, focus, opener, history>>

Page == <<"page", None>>
Body == <<"body", None>>
Palette == <<"palette", None>>
Drawer(d) == <<"drawer", d>>
Ask(d) == <<"ask", d>>
Trapping == {"drawer", "ask"} \X Drawers
Places == Trapping \cup {Page, Body, Palette}

\* The layers whose effects are on.
Layers(o, r, a, p) == {Drawer(d) : d \in Drawers \cap {o}} \cup {Ask(d) : d \in a \cap r}
                          \cup {Palette : x \in {y \in {0} : p}}
Active == Layers(open, rendered, asked, palette)

TypeOK == /\ open \in Drawers \cup {None} /\ palette \in BOOLEAN /\ locked \in BOOLEAN
          /\ rendered \subseteq Drawers /\ entered \subseteq rendered
          /\ frames \subseteq Drawers /\ timers \subseteq Drawers
          /\ asked \subseteq Drawers /\ busy \subseteq Drawers
          \* everyone who traps the focus listens, and nobody else
          /\ IsInjective(listeners) /\ Range(listeners) = Active \ {Palette}
          /\ IsInjective(key) /\ Range(key) \subseteq Range(listeners)
          /\ focus \in Places /\ opener \in [Trapping -> Places]
          /\ stacked \in BOOLEAN /\ searched \in BOOLEAN

Init == /\ open = None /\ rendered = {} /\ entered = {} /\ frames = {} /\ timers = {}
        /\ asked = {} /\ busy = {} /\ palette = FALSE /\ locked = FALSE
        /\ listeners = <<>> /\ key = <<>> /\ focus = Page
        /\ opener = [l \in Trapping |-> Body]
        /\ stacked = FALSE /\ searched = FALSE

-----------------------------------------------------------------------------
(* What a commit does. *)

\* The document without what is not rendered: a focus inside of it falls to the body.
InDocument(l) == CASE l[1] = "drawer"  -> l[2] \in rendered'
                   [] l[1] = "ask"     -> l[2] \in asked' \cap rendered'
                   [] l[1] = "palette" -> palette'
                   [] OTHER            -> TRUE

\* Dialogs before their drawers.
InnerFirst(S) == SetToSeq({l \in S : l[1] = "ask"}) \o SetToSeq({l \in S : l[1] = "drawer"})

\* A layer that ends gives the focus back, unless its opener is gone or is the body,
\* which takes no focus.
Returned(ended, at) ==
    FoldLeft(LAMBDA f, l : IF InDocument(opener[l]) /\ opener[l] # Body THEN opener[l] ELSE f,
             at, InnerFirst(ended))

\* Every layer sets and removes the one class of the body.
Locks(ended, begun) == IF begun # {} THEN TRUE ELSE IF ended # {} THEN FALSE ELSE locked

\* Nothing lies over the page any more and it has the focus: where the history starts anew.
Bare == rendered' = {} /\ ~palette' /\ focus' = Page

\* Layers may end and begin; the dialogs in again have a new onClose, so their effects run
\* again.  A press that moved the focus first left it at f.
Commit(again, f) ==
    LET after  == Layers(open', rendered', asked', palette')
        ended  == Active \ after
        begun  == after \ Active
        rerun  == again \cap after \cap Active
        fallen == IF InDocument(f) THEN f ELSE Body
        back   == Returned(ended \ {Palette}, fallen)
        order  == InnerFirst(begun)
        \* where the focus is when the n-th layer begins: each moves it inside
        At(n)  == IF n = 1 THEN back ELSE order[n - 1]
    IN  /\ locked' = Locks(ended \cup rerun, begun \cup rerun)
        /\ listeners' = SelectSeq(listeners, LAMBDA l : l \notin ended \cup rerun)
                            \o InnerFirst(begun \cup rerun)
        /\ focus' = IF order = <<>> THEN back ELSE Last(order)
        /\ opener' = [l \in Trapping |->
                         IF \E n \in DOMAIN order : order[n] = l
                         THEN At(CHOOSE n \in DOMAIN order : order[n] = l)
                         ELSE IF l \in after THEN opener[l] ELSE Body]
        /\ stacked' = (~Bare /\ (stacked \/ Cardinality(after) > 1))
        /\ searched' = (~Bare /\ (searched \/ palette'))

\* Who is still to hear the key: a listener that was taken away, or set anew, is not.
StillToHear(k, again) ==
    SelectSeq(k, LAMBDA l : l \notin again /\ l \in Layers(open', rendered', asked', palette'))

\* All dialogs of the drawers: what DrawersProvider renders again with each of its states.
AllAsks == {Ask(d) : d \in Drawers}

\* The provider's state and the effects of the shells: the one that opens is rendered at
\* once and moves in two frames later, the one that closes is taken out in a while.
ToOpen(d) ==
    /\ open' = d
    /\ rendered' = rendered \cup ({d} \ {None})
    /\ entered' = entered
    /\ frames' = {d} \ {None}
    /\ timers' = (timers \ {d}) \cup ({open} \ {d, None})

-----------------------------------------------------------------------------
(* Drawers. *)

\* From the page: by mouse when nothing lies over it, by keyboard when the focus is there.
OpenDrawer(d) ==
    /\ key = <<>> /\ d # open
    /\ focus = Page \/ (rendered = {} /\ ~palette)
    /\ ToOpen(d) /\ UNCHANGED <<asked, busy, palette, key>>
    /\ Commit(AllAsks, Page)

\* A session's drawer opens the one of a booking in its place.
OpenFrom(d) ==
    /\ key = <<>> /\ d # open /\ open # None /\ focus = Drawer(open)
    /\ ToOpen(d) /\ UNCHANGED <<asked, busy, palette, key>>
    /\ Commit(AllAsks, focus)

\* The cross or the backdrop.
CloseDrawer ==
    /\ key = <<>> /\ open # None /\ open \notin asked /\ ~palette
    /\ ToOpen(None) /\ UNCHANGED <<asked, busy, palette, key>>
    /\ Commit(AllAsks, Drawer(open))

MoveIn(d) ==
    /\ d \in frames
    /\ frames' = frames \ {d} /\ entered' = entered \cup {d}
    /\ UNCHANGED <<open, rendered, timers, asked, busy, palette, locked, listeners, key, focus>>
    /\ UNCHANGED <<opener, history>>

\* The timer of a drawer that is open again would find it rendered, and undo its moving in.
TakeOut(d) ==
    /\ key = <<>> /\ d \in timers
    /\ timers' = timers \ {d} /\ entered' = entered \ {d}
    /\ rendered' = IF open = d THEN rendered ELSE rendered \ {d}
    /\ UNCHANGED <<open, frames, asked, busy, palette, key>>
    /\ Commit({}, focus)

\* Lists arrive, fields are typed in: the drawer is rendered again, its dialog with it.
Rerender(d) ==
    /\ key = <<>> /\ d \in rendered \cap asked
    /\ UNCHANGED <<open, shell, asked, busy, palette, key>>
    /\ Commit({Ask(d)}, focus)

-----------------------------------------------------------------------------
(* The dialog of a drawer. *)

AskFirst(d) ==
    /\ key = <<>> /\ open = d /\ d \notin asked \cup busy /\ ~palette
    /\ asked' = asked \cup {d}
    /\ UNCHANGED <<open, shell, busy, palette, key>>
    /\ Commit({Ask(d)}, Drawer(d))

\* Its onClose, by the button, the cross and the backdrop.
Keep(d) ==
    /\ key = <<>> /\ d \in (asked \cap rendered) \ busy /\ ~palette
    /\ asked' = asked \ {d}
    /\ UNCHANGED <<open, shell, busy, palette, key>>
    /\ Commit({}, Ask(d))

\* A drawer that has closed knows no record to act upon.
Confirm(d) ==
    /\ key = <<>> /\ d \in (asked \cap rendered) \ busy /\ open = d /\ ~palette
    /\ busy' = busy \cup {d}
    /\ UNCHANGED <<open, shell, asked, palette, key>>
    /\ Commit({Ask(d)}, Ask(d))

\* close() of the provider closes whichever drawer is open.
Done(d) ==
    /\ key = <<>> /\ d \in busy
    /\ busy' = busy \ {d} /\ asked' = asked \ {d}
    /\ ToOpen(None) /\ UNCHANGED <<palette, key>>
    /\ Commit(AllAsks, focus)

Failed(d) ==
    /\ key = <<>> /\ d \in busy
    /\ busy' = busy \ {d}
    /\ UNCHANGED <<open, shell, asked, palette, key>>
    /\ Commit({Ask(d)}, focus)

-----------------------------------------------------------------------------
(* The palette. *)

\* The shortcut works everywhere; the palette moves the focus to its field in a moment.
TogglePalette ==
    /\ key = <<>> /\ EnableCommandPalette
    /\ palette' = ~palette
    /\ UNCHANGED <<open, shell, asked, busy, key>>
    /\ Commit({}, focus)

FocusField ==
    /\ key = <<>> /\ palette
    /\ focus' = Palette
    /\ UNCHANGED <<open, shell, asked, busy, palette, locked, listeners, key, opener, history>>

\* A result leads to another page, without what was on this one.
Navigate ==
    /\ key = <<>> /\ palette
    /\ palette' = FALSE
    /\ UNCHANGED <<open, shell, asked, busy, key>>
    /\ locked' = Locks({Palette}, {}) /\ focus' = Body
    /\ opener' = [l \in Trapping |-> IF opener[l] = Page THEN Body ELSE opener[l]]
    /\ searched' = TRUE /\ UNCHANGED <<listeners, stacked>>

-----------------------------------------------------------------------------
(* Keys. *)

\* Escape: the palette hears it in its field, before the listeners of the window.
Escape ==
    /\ key = <<>> /\ Active # {}
    /\ palette' = (palette /\ focus # Palette)
    /\ UNCHANGED <<open, shell, asked, busy>>
    /\ Commit({}, focus)
    /\ key' = listeners

AskHears(d) == asked' = IF d \in busy THEN asked ELSE asked \ {d}

\* The next listener hears it, and what it does is committed before the one after.
Hear ==
    /\ key # <<>>
    /\ LET l == Head(key)
           again == IF l[1] = "ask" THEN {} ELSE AllAsks IN
         /\ IF l[1] = "ask" THEN AskHears(l[2]) /\ UNCHANGED <<open, shell>>
                            ELSE ToOpen(None) /\ UNCHANGED asked
         /\ UNCHANGED <<busy, palette>>
         /\ Commit(again, focus)
         /\ key' = StillToHear(Tail(key), again)

\* From the body the focus goes to the page; a layer that has it keeps it.
Tab ==
    /\ key = <<>> /\ focus = Body
    /\ focus' = Page
    /\ UNCHANGED <<open, shell, asked, busy, palette, locked, listeners, key, opener>>
    /\ stacked' = (stacked /\ ~Bare) /\ searched' = (searched /\ ~Bare)

Next == \/ \E d \in Drawers : \/ OpenDrawer(d) \/ OpenFrom(d)
                              \/ MoveIn(d) \/ TakeOut(d) \/ Rerender(d)
                              \/ AskFirst(d) \/ Keep(d) \/ Confirm(d) \/ Done(d) \/ Failed(d)
        \/ CloseDrawer \/ TogglePalette \/ FocusField \/ Navigate \/ Escape \/ Hear \/ Tab

Spec == Init /\ [][Next]_vars

-----------------------------------------------------------------------------
(* Properties. *)

\* An open drawer is in the document and moves in, also when it is opened again while it
\* moves out, and a closed one is on its way out.
ShellFollows ==
    \A d \in Drawers :
        /\ open = d => /\ d \in rendered \ timers
                       /\ d \in entered \cup frames
        /\ open # d /\ d \in rendered => d \in timers

\* With every layer gone the page scrolls again, whatever order they went in.
PageScrollsAgain == Active = {} => ~locked

\* The page stands still under a layer that was never under or over another, also when
\* one drawer takes the place of another.
LockedUnderOne == Active # {} /\ ~stacked => locked

\* A dialog stays until its answer, whatever closes around it.
WaitsOpen == busy \subseteq asked

\* When the last layer is gone the focus is back on the page, if there was never one over
\* another and the palette was not used.
FocusIsBack == Active = {} /\ rendered = {} /\ ~stacked /\ ~searched => focus = Page

\* What HISTORY says of dialogs: "focus returns to the opener on close", one over another
\* or not.  The palette is none of them.
FocusReturns == Active = {} /\ rendered = {} /\ ~searched => focus = Page

\* What the comment on useDialogFocus says: it "keeps keyboard focus inside an open dialog".
FocusInside == open # None /\ ~palette /\ key = <<>> => focus[1] \in {"drawer", "ask"}
=============================================================================
