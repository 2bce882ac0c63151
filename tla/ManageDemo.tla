---------------------------- MODULE ManageDemo ----------------------------
(***************************************************************************)
(* The pages a customer sees in the demo after booking (web/src:           *)
(* app/(public)/booking/confirmation and booking/manage/demo): the         *)
(* confirmation with its link to copy, and the booking's own page with its *)
(* tabs, forms, message and requests.  Everything is state of the pages.   *)
(***************************************************************************)
EXTENDS Naturals, FiniteSets

CONSTANTS Required,   \* forms answered before payment
          Optional,   \* the other forms
          Texts,      \* what may be typed, "" being nothing
          MaxTimers,  \* copies within 1.8 seconds
          None        \* no form

Forms == Required \cup Optional
TabNames == {"info", "manage", "forms", "payment", "package"}

VARIABLES page,       \* "confirmation", "manage"
          copied,     \* the label of the copy button
          timers,     \* copies whose 1.8 seconds are not over
          tab, formValues, completed, openFormId, message,
          dialog,     \* "reschedule", "cancel", "none"
          saved       \* the answers when they were saved

vars == <<page, copied, timers, tab, formValues, completed, openFormId, message, dialog, saved>>
copying == <<copied, timers>>
forms == <<formValues, completed, openFormId, saved>>

TypeOK == /\ page \in {"confirmation", "manage"} /\ copied \in BOOLEAN /\ timers \in 0 .. MaxTimers
          /\ tab \in TabNames /\ message \in Texts /\ dialog \in {"reschedule", "cancel", "none"}
          /\ formValues \in [Forms -> Texts] /\ saved \in [Forms -> Texts]
          /\ completed \subseteq Forms /\ openFormId \in Forms \cup {None}
          /\ openFormId # None => tab = "forms" /\ dialog = "none"
          /\ dialog # "none" => tab = "manage"

Fresh == /\ tab' = "info" /\ message' = "" /\ dialog' = "none"
         /\ formValues' = [f \in Forms |-> ""] /\ saved' = [f \in Forms |-> ""]
         /\ completed' = Required /\ openFormId' = None

Init == /\ page = "confirmation" /\ copied = FALSE /\ timers = 0
        /\ tab = "info" /\ message = "" /\ dialog = "none"
        /\ formValues = [f \in Forms |-> ""] /\ saved = [f \in Forms |-> ""]
        /\ completed = Required /\ openFormId = None

-----------------------------------------------------------------------------
(* The confirmation. *)

copy ==
    /\ page = "confirmation" /\ timers < MaxTimers
    /\ copied' = TRUE /\ timers' = timers + 1
    /\ UNCHANGED <<page, tab, message, dialog, forms>>

\* Of any copy, the first one's while a second one's is running.
CopiedTimeout ==
    /\ timers > 0
    /\ copied' = FALSE /\ timers' = timers - 1
    /\ UNCHANGED <<page, tab, message, dialog, forms>>

\* The links between the pages mount the other one anew.
ToManage ==
    /\ page = "confirmation"
    /\ page' = "manage" /\ copied' = FALSE /\ timers' = 0
    /\ Fresh

Back ==
    /\ page = "manage" /\ openFormId = None /\ dialog = "none"
    /\ page' = "confirmation"
    /\ Fresh /\ UNCHANGED copying

-----------------------------------------------------------------------------
(* The booking's page.  A dialog covers what is under it. *)

Uncovered == page = "manage" /\ openFormId = None /\ dialog = "none"

setTab(t) ==
    /\ Uncovered /\ tab # t
    /\ tab' = t
    /\ UNCHANGED <<page, copying, message, dialog, forms>>

setMessage(x) ==
    /\ Uncovered /\ tab = "manage" /\ message # x
    /\ message' = x
    /\ UNCHANGED <<page, copying, tab, dialog, forms>>

sendMessage ==
    /\ Uncovered /\ tab = "manage" /\ message # ""
    /\ message' = ""
    /\ UNCHANGED <<page, copying, tab, dialog, forms>>

Ask(d) ==
    /\ Uncovered /\ tab = "manage"
    /\ dialog' = d
    /\ UNCHANGED <<page, copying, tab, message, forms>>

\* Confirmed or not: the request is only told.
Answer ==
    /\ dialog # "none"
    /\ dialog' = "none"
    /\ UNCHANGED <<page, copying, tab, message, forms>>

OpenForm(f) ==
    /\ Uncovered /\ tab = "forms"
    /\ openFormId' = f
    /\ UNCHANGED <<page, copying, tab, message, dialog, formValues, completed, saved>>

openFormReadOnly == openFormId \in Required \cap completed

\* What is typed is the form's answer at once.
TypeAnswer(x) ==
    /\ openFormId # None /\ ~openFormReadOnly /\ formValues[openFormId] # x
    /\ formValues' = [formValues EXCEPT ![openFormId] = x]
    /\ UNCHANGED <<page, copying, tab, message, dialog, completed, openFormId, saved>>

saveForm ==
    /\ openFormId # None /\ ~openFormReadOnly /\ formValues[openFormId] # ""
    /\ completed' = completed \cup {openFormId}
    /\ saved' = [saved EXCEPT ![openFormId] = formValues[openFormId]]
    /\ openFormId' = None
    /\ UNCHANGED <<page, copying, tab, message, dialog, formValues>>

CloseForm ==
    /\ openFormId # None
    /\ openFormId' = None
    /\ UNCHANGED <<page, copying, tab, message, dialog, formValues, completed, saved>>

-----------------------------------------------------------------------------

Next == \/ copy \/ CopiedTimeout \/ ToManage \/ Back
        \/ \E t \in TabNames : setTab(t)
        \/ \E x \in Texts : setMessage(x) \/ TypeAnswer(x)
        \/ sendMessage \/ (\E d \in {"reschedule", "cancel"} : Ask(d)) \/ Answer
        \/ (\E f \in Forms : OpenForm(f)) \/ saveForm \/ CloseForm

Spec == Init /\ [][Next]_vars

\* The timers of the browser.
FairSpec == Spec /\ WF_vars(CopiedTimeout)

-----------------------------------------------------------------------------
(* The answers given before payment are shown and never edited, and a form *)
(* that was completed without them has an answer behind it.                *)
AnswersKept == /\ \A f \in Required : formValues[f] = "" /\ f \in completed
               /\ \A f \in completed \ Required : saved[f] # ""

(* "Copied" is not said for ever, however often it is copied. *)
Awaited == IF copied THEN {"copied"} ELSE {}
(* "Your answers were saved": a completed form that is closed has the answer that was saved. *)
SavedIsShown == \A f \in completed \ Required : openFormId # f => formValues[f] = saved[f]

=============================================================================
