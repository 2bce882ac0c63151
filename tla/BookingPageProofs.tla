------------------------- MODULE BookingPageProofs -------------------------
(***************************************************************************)
(* The public booking page books once and sends what is complete: proofs   *)
(* for any services, forms, starts, and any number of requests.            *)
(***************************************************************************)
EXTENDS BookingPage, TLAPS

-----------------------------------------------------------------------------
(* The inductive invariant.                                                *)

\* The forms that are fetched are the chosen service's, and the step of the
\* forms is shown only while there are any.
FormsOfService == /\ asked # None => asked = draft.service
                  /\ step = "forms" => Forms # None

\* The steps that are behind the customer are filled in.  Choosing a service
\* again keeps the start, and none of these is emptied but at its own step.
Filled == /\ step # "service" => draft.service # None
          /\ step \notin {"service", "time"} => draft.start # None
          /\ step \notin {"service", "time", "details"} => draft.details
          /\ step \in {"review", "pay"} => draft.billing

\* Past the forms, the required question is answered, unless the forms were not
\* there as the customer walked past their step.
AnswersBehind == step \in {"billing", "review", "pay"} => unseen \/ Answered(draft)

\* Only the page that is shown waits, for one request.
OneWaits == /\ \A i \in Flying : calls[i].from = "page" => submitting /\ place = "page"
            /\ \A i, j \in Flying : calls[i].from = "page" /\ calls[j].from = "page" => i = j

\* The requests whose answer is going to be seen: of the page that is shown, and not pressed
\* while a confirmation was on its way.  All that was made, but for the booking of such a
\* request or the one whose confirmation is on its way, is unshown.
Seen == {i \in Flying : calls[i].from = "page" /\ ~calls[i].late}
MadeIsKnown ==
    /\ unshown <= made /\ made <= unshown + 1
    /\ place # "page" => made = unshown
    /\ ~leaving /\ Seen = {} => made = unshown
    /\ \A i \in Seen : calls[i].state # "made" => made = unshown

PageInv == /\ TypeOK /\ FormsOfService /\ Filled /\ AnswersBehind /\ OneWaits /\ MadeIsKnown
           /\ SentComplete /\ RequiredAnswered /\ DraftIsStored

-----------------------------------------------------------------------------
(* The stepper.                                                            *)

\* The step after s, and the one before it: that of the forms is left out when there are none.
After(s) == CASE s = "service" -> "time" [] s = "time" -> "details"
              [] s = "details" -> IF Forms = None THEN "billing" ELSE "forms"
              [] s = "forms" -> "billing" [] s = "billing" -> "review" [] OTHER -> "pay"
Before(s) == CASE s = "time" -> "service" [] s = "details" -> "time" [] s = "forms" -> "details"
               [] s = "billing" -> IF Forms = None THEN "details" ELSE "forms"
               [] s = "review" -> "billing" [] OTHER -> "review"

\* Index finds the place of a step that is shown.
LEMMA IndexIs ==
    ASSUME NEW i \in DOMAIN ActiveSteps
    PROVE  Index(ActiveSteps[i]) = i
  <1> DEFINE s == ActiveSteps[i]
  <1>1. Index(s) \in DOMAIN ActiveSteps /\ ActiveSteps[Index(s)] = s
    BY DEF Index
  <1>2. \A j \in DOMAIN ActiveSteps : ActiveSteps[j] = s => j = i
    <2>1. CASE Forms = None
      BY <2>1 DEF ActiveSteps
    <2>2. CASE Forms # None
      BY <2>2 DEF ActiveSteps
    <2> QED
      BY <2>1, <2>2
  <1> QED
    BY <1>1, <1>2

\* Forward and Back lead to the neighbours of the step.
LEMMA Neighbours ==
    ASSUME step \in Steps, step = "forms" => Forms # None
    PROVE  /\ step # "pay" => ActiveSteps[Index(step) + 1] = After(step)
           /\ Index(step) > 1 => step # "service" /\ ActiveSteps[Index(step) - 1] = Before(step)
  <1>1. CASE Forms = None
    <2> DEFINE order == <<"service", "time", "details", "billing", "review", "pay">>
    <2>1. ActiveSteps = order /\ DOMAIN ActiveSteps = 1..6
      BY <1>1 DEF ActiveSteps
    <2>2. PICK i \in 1..6 : step = order[i]
      <3>1. step \in {order[1], order[2], order[3], order[4], order[5], order[6]}
        BY <1>1 DEF Steps
      <3> QED
        BY <3>1
    <2>3. Index(step) = i
      BY <2>1, <2>2, IndexIs
    <2>4. i # 6 <=> step # "pay"
      BY <2>2
    <2>5. i # 6 => order[i + 1] = After(step)
      BY <1>1, <2>2 DEF After
    <2>6. i > 1 => step # "service" /\ order[i - 1] = Before(step)
      BY <1>1, <2>2 DEF Before
    <2> QED
      BY <2>1, <2>3, <2>4, <2>5, <2>6
  <1>2. CASE Forms # None
    <2> DEFINE order == <<"service", "time", "details", "forms", "billing", "review", "pay">>
    <2>1. ActiveSteps = order /\ DOMAIN ActiveSteps = 1..7
      BY <1>2 DEF ActiveSteps
    <2>2. PICK i \in 1..7 : step = order[i]
      <3>1. step \in {order[1], order[2], order[3], order[4], order[5], order[6], order[7]}
        BY <1>2 DEF Steps
      <3> QED
        BY <3>1
    <2>3. Index(step) = i
      BY <2>1, <2>2, IndexIs
    <2>4. i # 7 <=> step # "pay"
      BY <2>2
    <2>5. i # 7 => order[i + 1] = After(step)
      BY <1>2, <2>2 DEF After
    <2>6. i > 1 => step # "service" /\ order[i - 1] = Before(step)
      BY <1>2, <2>2 DEF Before
    <2> QED
      BY <2>1, <2>3, <2>4, <2>5, <2>6
  <1> QED
    BY <1>1, <1>2

-----------------------------------------------------------------------------
(* Types.                                                                  *)

\* What becomes of the requests when their page or its document goes away.
LEMMA GoneTypes ==
    ASSUME TypeOK
    PROVE  LeftBehind \in [Slots -> Call \cup {None}] /\ Unloaded \in [Slots -> Call \cup {None}]
  BY DEF TypeOK, LeftBehind, Unloaded, Call

LEMMA DraftTypes ==
    ASSUME TypeOK
    PROVE  EmptyDraft \in Draft /\ Restored \in Draft
  BY DEF TypeOK, EmptyDraft, Draft, Answers, Restored

\* A page that is opened, reloaded, or left.
LEMMA TabTypes ==
    ASSUME PageAssumption, TypeOK,
           \/ \E w \in Workspaces : Open(w)
           \/ Reload \/ Leave \/ Navigate
    PROVE  TypeOK'
  <1>1. ASSUME NEW w \in Workspaces, Open(w)
        PROVE  TypeOK'
    BY <1>1, DraftTypes DEF Open, FreshTab, TypeOK, Draft, Steps
  <1>2. CASE Reload
    BY <1>2, DraftTypes, GoneTypes DEF Reload, FreshTab, TypeOK, Draft, Steps
  <1>3. CASE Leave
    BY <1>3, DraftTypes, GoneTypes DEF Leave, Closed, TypeOK, Steps
  <1>4. CASE Navigate
    <2>1. made' \in 0..MaxMade
      BY <1>4 DEF Navigate, PageAssumption
    <2>2. unshown' \in 0..MaxMade
      BY <1>4 DEF Navigate, PageAssumption
    <2> QED
      BY <1>4, <2>1, <2>2, DraftTypes, GoneTypes DEF Navigate, Closed, TypeOK, Steps
  <1> QED
    BY <1>1, <1>2, <1>3, <1>4

\* A change of the draft: what is typed, and the service that is chosen.
Typing == \/ PickDate \/ SettlePayment
          \/ \E t \in Starts : PickTime(t)
          \/ \E b \in BOOLEAN : FillDetails(b) \/ FillBilling(b)
          \/ \E a \in Answers : SetAnswer(a)

\* What each of them does to the draft.
LEMMA TypingEffect ==
    ASSUME TypeOK, Typing
    PROVE  /\ draft' \in Draft /\ stored' = draft' /\ draft'.service = draft.service
           /\ step # "time" => draft'.start = draft.start
           /\ step # "details" => draft'.details = draft.details
           /\ step # "billing" => draft'.billing = draft.billing
           /\ step # "forms" => draft'.answers = draft.answers
           /\ UNCHANGED <<place, ws, settings, step, asked, loaded, submitting, leaving,
                          calls, made, ghosts>>
  <1> USE DEF Change, TypeOK, Draft
  <1>1. CASE PickDate
    BY <1>1 DEF PickDate
  <1>2. CASE SettlePayment
    BY <1>2 DEF SettlePayment
  <1>3. ASSUME NEW t \in Starts, PickTime(t)
        PROVE  draft' = [draft EXCEPT !.start = t] /\ step = "time"
               /\ stored' = draft' /\ UNCHANGED <<place, ws, settings, step, asked, loaded,
                          submitting, leaving, calls, made, ghosts>>
    BY <1>3 DEF PickTime
  <1>4. ASSUME NEW b \in BOOLEAN, FillDetails(b)
        PROVE  draft' = [draft EXCEPT !.details = b] /\ step = "details"
               /\ stored' = draft' /\ UNCHANGED <<place, ws, settings, step, asked, loaded,
                          submitting, leaving, calls, made, ghosts>>
    BY <1>4 DEF FillDetails
  <1>5. ASSUME NEW b \in BOOLEAN, FillBilling(b)
        PROVE  draft' = [draft EXCEPT !.billing = b] /\ step = "billing"
               /\ stored' = draft' /\ UNCHANGED <<place, ws, settings, step, asked, loaded,
                          submitting, leaving, calls, made, ghosts>>
    BY <1>5 DEF FillBilling
  <1>6. ASSUME NEW a \in Answers, SetAnswer(a)
        PROVE  draft' = [draft EXCEPT !.answers[draft.service] = a] /\ step = "forms"
               /\ stored' = draft' /\ UNCHANGED <<place, ws, settings, step, asked, loaded,
                          submitting, leaving, calls, made, ghosts>>
    BY <1>6 DEF SetAnswer
  <1> QED
    BY <1>1, <1>2, <1>3, <1>4, <1>5, <1>6, SMTT(60) DEF Typing

\* Going from step to step touches nothing else.
Walking == Back \/ Forward \/ \E s \in Steps : Edit(s)

LEMMA WalkTypes ==
    ASSUME TypeOK, FormsOfService, Walking
    PROVE  TypeOK'
  <1>1. step = "forms" => Forms # None
    BY DEF FormsOfService
  <1>2. step \in Steps
    BY DEF TypeOK
  <1>3. unseen' \in BOOLEAN /\ UNCHANGED <<place, ws, settings, draft, asked, loaded, submitting,
                                           leaving, stored, calls, made, unshown>>
    BY DEF Walking, Back, Forward, Edit, Walk, TypeOK
  <1>4. step' \in Steps
    <2>1. CASE Back
      BY <1>1, <1>2, <2>1, Neighbours DEF Back, Walk, Before, Steps
    <2>2. CASE Forward
      BY <1>1, <1>2, <2>2, Neighbours DEF Forward, Walk, After, Steps
    <2>3. ASSUME NEW s \in Steps, Edit(s)
          PROVE  step' \in Steps
      BY <2>3 DEF Edit, Walk, Steps
    <2> QED
      BY <2>1, <2>2, <2>3 DEF Walking
  <1> QED
    BY <1>3, <1>4 DEF TypeOK

\* What arrives for the page without the customer.
Arriving == SettingsArrive \/ FormsArrive \/ FormsFail

\* A request changes in its state alone, or is over.
Settling(i) == ServerBooks(i) \/ ServerRefuses(i)
Ending(i) == Confirmed(i) \/ Failed(i) \/ Unheard(i)

\* The steps of the page, by their kind.
LEMMA Kinds ==
    ASSUME [Next]_vars
    PROVE  \/ \/ \E w \in Workspaces : Open(w)
              \/ Reload \/ Leave \/ Navigate
           \/ Typing \/ Walking \/ Arriving
           \/ \E s \in Services : SelectService(s)
           \/ Submit
           \/ \E i \in Slots : Settling(i) \/ Ending(i)
           \/ UNCHANGED vars
  BY DEF Next, Customer, Hearing, Environment, Typing, Walking, Arriving, Settling, Ending

LEMMA StepTypes ==
    ASSUME PageAssumption, TypeOK, FormsOfService, unshown <= made, [Next]_vars
    PROVE  TypeOK'
  <1>1. CASE Typing
    <2>1. draft' \in Draft /\ stored' = draft' /\ UNCHANGED <<place, ws, settings, step, asked, loaded,
                          submitting, leaving, calls, made, ghosts>>
      BY <1>1, TypingEffect
    <2> QED
      BY <2>1 DEF TypeOK, ghosts
  <1>2. ASSUME NEW s \in Services, SelectService(s)
        PROVE  TypeOK'
    BY <1>2 DEF SelectService, Change, TypeOK, Draft, ghosts
  <1>3. CASE Walking
    BY <1>3, WalkTypes
  <1>4. CASE Arriving
    BY <1>4 DEF Arriving, SettingsArrive, FormsArrive, FormsFail, TypeOK, ghosts
  <1>5. CASE Submit
    <2>1. PICK i \in Slots \ Flying :
            calls' = [calls EXCEPT ![i] = [draft |-> draft, ws |-> ws, state |-> "sent", from |-> "page",
                                           late |-> leaving, unseen |-> unseen]]
      BY <1>5 DEF Submit
    <2>2. calls' \in [Slots -> Call \cup {None}]
      BY <2>1 DEF TypeOK, Call
    <2> QED
      BY <1>5, <2>2 DEF Submit, TypeOK, ghosts
  <1>6. ASSUME NEW i \in Slots, Settling(i)
        PROVE  TypeOK'
    <2>1. calls[i] \in Call
      BY <1>6 DEF Settling, ServerBooks, ServerRefuses, Flying, TypeOK
    <2>2. calls' \in [Slots -> Call \cup {None}]
      BY <1>6, <2>1 DEF Settling, ServerBooks, ServerRefuses, Settle, TypeOK, Call
    <2>3. made' \in 0..MaxMade
      BY <1>6 DEF Settling, ServerBooks, ServerRefuses, TypeOK, PageAssumption
    <2>4. unshown' \in 0..MaxMade
      <3>1. CASE ServerBooks(i)
        <4>1. unshown' \in {unshown, unshown + 1} /\ made < MaxMade
          BY <3>1 DEF ServerBooks
        <4> QED
          BY <4>1 DEF TypeOK, PageAssumption
      <3>2. CASE ServerRefuses(i)
        BY <3>2 DEF ServerRefuses, TypeOK, ghosts
      <3> QED
        BY <1>6, <3>1, <3>2 DEF Settling
    <2>5. UNCHANGED <<tab, stored, unseen>>
      BY <1>6 DEF Settling, ServerBooks, ServerRefuses, ghosts
    <2> QED
      BY <2>2, <2>3, <2>4, <2>5 DEF TypeOK, tab
  <1>7. ASSUME NEW i \in Slots, Ending(i)
        PROVE  TypeOK'
    BY <1>7 DEF Ending, Confirmed, Failed, Unheard, TypeOK, tab, ghosts
  <1>8. CASE UNCHANGED vars
    BY <1>8 DEF vars, tab, ghosts, TypeOK
  <1> QED
    BY <1>1, <1>2, <1>3, <1>4, <1>5, <1>6, <1>7, <1>8, TabTypes, Kinds

-----------------------------------------------------------------------------
(* The steps that are behind the customer.                                 *)

\* A page that is opened, reloaded or left begins at the first step.
LEMMA TabStarts ==
    ASSUME \/ \E w \in Workspaces : Open(w)
           \/ Reload \/ Leave \/ Navigate
    PROVE  step' = "service" /\ asked' \in {None, draft'.service} /\ unseen' = FALSE
  <1>1. ASSUME NEW w \in Workspaces, Open(w)
        PROVE  step' = "service" /\ asked' = draft'.service /\ unseen' = FALSE
    BY <1>1 DEF Open, FreshTab
  <1>2. CASE Reload
    BY <1>2 DEF Reload, FreshTab
  <1>3. CASE Leave
    BY <1>3 DEF Leave, Closed
  <1>4. CASE Navigate
    BY <1>4 DEF Navigate, Closed
  <1> QED
    BY <1>1, <1>2, <1>3, <1>4

\* Where a walk leads, and what it asks for.
LEMMA WalkEffect ==
    ASSUME TypeOK, FormsOfService, Walking
    PROVE  /\ UNCHANGED <<place, ws, settings, draft, asked, loaded, submitting, leaving,
                          stored, calls, made, unshown>>
           /\ \/ step # "service" /\ step' = Before(step) /\ unseen' = unseen
              \/ /\ step # "pay" /\ step' = After(step) /\ CanAdvance
                 /\ unseen' = IF step \in {"details", "forms"} THEN loaded # draft.service ELSE unseen
              \/ /\ step = "review" /\ step' \in {"service", "time", "details", "forms", "billing"}
                 /\ step' = "forms" => Forms # None
                 /\ unseen' = unseen
  <1>1. step \in Steps /\ (step = "forms" => Forms # None)
    BY DEF FormsOfService, TypeOK
  <1>2. CASE Back
    BY <1>1, <1>2, Neighbours DEF Back, Walk
  <1>3. CASE Forward
    BY <1>1, <1>3, Neighbours DEF Forward, Walk
  <1>4. ASSUME NEW s \in Steps, Edit(s)
        PROVE  /\ step = "review" /\ step' \in {"service", "time", "details", "forms", "billing"}
               /\ step' = "forms" => Forms # None
               /\ unseen' = unseen
               /\ UNCHANGED <<place, ws, settings, draft, asked, loaded, submitting, leaving,
                              stored, calls, made, unshown>>
    BY <1>4 DEF Edit, Walk
  <1> QED
    BY <1>2, <1>3, <1>4 DEF Walking

\* What is not the customer's leaves the steps and the draft alone.
LEMMA OthersEffect ==
    ASSUME \/ Submit
           \/ \E i \in Slots : Settling(i) \/ Ending(i)
           \/ UNCHANGED vars
    PROVE  UNCHANGED <<place, ws, settings, step, draft, asked, loaded, unseen>>
  <1>1. CASE Submit
    BY <1>1 DEF Submit, ghosts
  <1>2. ASSUME NEW i \in Slots, Settling(i)
        PROVE  UNCHANGED <<place, ws, settings, step, draft, asked, loaded, unseen>>
    BY <1>2 DEF Settling, ServerBooks, ServerRefuses, tab, ghosts
  <1>3. ASSUME NEW i \in Slots, Ending(i)
        PROVE  UNCHANGED <<place, ws, settings, step, draft, asked, loaded, unseen>>
    BY <1>3 DEF Ending, Confirmed, Failed, Unheard, tab, ghosts
  <1>4. CASE UNCHANGED vars
    BY <1>4 DEF vars, tab, ghosts
  <1> QED
    BY <1>1, <1>2, <1>3, <1>4

LEMMA StepForms ==
    ASSUME TypeOK, FormsOfService, [Next]_vars
    PROVE  FormsOfService'
  <1>1. CASE \/ \E w \in Workspaces : Open(w)
             \/ Reload \/ Leave \/ Navigate
    BY <1>1, TabStarts DEF FormsOfService
  <1>2. CASE Typing
    BY <1>2, TypingEffect DEF FormsOfService, Forms
  <1>3. CASE Walking
    <2>1. UNCHANGED <<draft, asked, loaded>> /\ Forms' = Forms
      BY <1>3, WalkEffect DEF Forms
    <2>2. step' = "forms" => Forms # None
      BY <1>3, WalkEffect DEF FormsOfService, Before, After
    <2> QED
      BY <2>1, <2>2 DEF FormsOfService
  <1>4. CASE Arriving
    BY <1>4 DEF Arriving, SettingsArrive, FormsArrive, FormsFail, FormsOfService, Forms
  <1>5. ASSUME NEW s \in Services, SelectService(s)
        PROVE  FormsOfService'
    BY <1>5 DEF SelectService, Change, FormsOfService, TypeOK, Draft
  <1>6. CASE \/ Submit
             \/ \E i \in Slots : Settling(i) \/ Ending(i)
             \/ UNCHANGED vars
    BY <1>6, OthersEffect DEF FormsOfService, Forms
  <1> QED
    BY <1>1, <1>2, <1>3, <1>4, <1>5, <1>6, Kinds

LEMMA StepFilled ==
    ASSUME TypeOK, FormsOfService, Filled, [Next]_vars
    PROVE  Filled'
  <1>1. CASE \/ \E w \in Workspaces : Open(w)
             \/ Reload \/ Leave \/ Navigate
    BY <1>1, TabStarts DEF Filled
  <1>2. CASE Typing
    BY <1>2, TypingEffect DEF Filled
  <1>3. CASE Walking
    <2>1. UNCHANGED draft
      BY <1>3, WalkEffect
    <2>2. CASE step # "service" /\ step' = Before(step)
      BY <2>1, <2>2 DEF Filled, Before, TypeOK, Steps
    <2>3. CASE step # "pay" /\ step' = After(step) /\ CanAdvance
      BY <2>1, <2>3 DEF Filled, After, CanAdvance, TypeOK, Steps
    <2>4. CASE step = "review" /\ step' \in {"service", "time", "details", "forms", "billing"}
      BY <2>1, <2>4 DEF Filled
    <2> QED
      BY <1>3, <2>2, <2>3, <2>4, WalkEffect
  <1>4. CASE Arriving
    BY <1>4 DEF Arriving, SettingsArrive, FormsArrive, FormsFail, Filled
  <1>5. ASSUME NEW s \in Services, SelectService(s)
        PROVE  Filled'
    BY <1>5 DEF SelectService, Change, Filled
  <1>6. CASE \/ Submit
             \/ \E i \in Slots : Settling(i) \/ Ending(i)
             \/ UNCHANGED vars
    BY <1>6, OthersEffect DEF Filled
  <1> QED
    BY <1>1, <1>2, <1>3, <1>4, <1>5, <1>6, Kinds

LEMMA StepAnswers ==
    ASSUME TypeOK, FormsOfService, Filled, AnswersBehind, [Next]_vars
    PROVE  AnswersBehind'
  <1>1. CASE \/ \E w \in Workspaces : Open(w)
             \/ Reload \/ Leave \/ Navigate
    BY <1>1, TabStarts DEF AnswersBehind
  <1>2. CASE Typing
    <2>1. /\ draft'.service = draft.service /\ UNCHANGED <<step, unseen>>
          /\ step # "forms" => draft'.answers = draft.answers
      BY <1>2, TypingEffect DEF ghosts
    <2> QED
      BY <2>1 DEF AnswersBehind, Answered
  <1>3. CASE Walking
    <2>1. UNCHANGED draft /\ Answered(draft)' = Answered(draft)
      BY <1>3, WalkEffect DEF Answered
    <2>2. CASE step # "service" /\ step' = Before(step) /\ unseen' = unseen
      BY <2>1, <2>2 DEF AnswersBehind, Before, TypeOK, Steps
    <2>3. CASE /\ step # "pay" /\ step' = After(step) /\ CanAdvance
               /\ unseen' = IF step \in {"details", "forms"} THEN loaded # draft.service ELSE unseen
      <3>1. CASE step = "details"
        <4>1. step' = "billing" /\ loaded = draft.service => FormOf[draft.service] = None
          BY <2>3, <3>1 DEF After, Forms, Filled
        <4> QED
          BY <2>1, <2>3, <3>1, <4>1 DEF AnswersBehind, Answered, After
      <3>2. CASE step = "forms"
        <4>1. Forms = FormOf[draft.service] /\ Forms # None
          BY <3>2 DEF FormsOfService, Forms
        <4>2. Answered(draft)
          BY <2>3, <3>2, <4>1 DEF CanAdvance, AnswerComplete, Answered
        <4> QED
          BY <2>1, <4>2 DEF AnswersBehind
      <3>3. CASE step \in {"service", "time"}
        BY <2>3, <3>3 DEF After, AnswersBehind
      <3>4. CASE step \in {"billing", "review"}
        BY <2>1, <2>3, <3>4 DEF After, AnswersBehind
      <3> QED
        BY <2>3, <3>1, <3>2, <3>3, <3>4 DEF TypeOK, Steps
    <2>4. CASE /\ step = "review" /\ unseen' = unseen
      BY <2>1, <2>4 DEF AnswersBehind
    <2> QED
      BY <1>3, <2>2, <2>3, <2>4, WalkEffect
  <1>4. CASE Arriving
    <2>1. UNCHANGED <<step, draft, unseen>>
      BY <1>4 DEF Arriving, SettingsArrive, FormsArrive, FormsFail, ghosts
    <2> QED
      BY <2>1 DEF AnswersBehind, Answered
  <1>5. ASSUME NEW s \in Services, SelectService(s)
        PROVE  AnswersBehind'
    BY <1>5 DEF SelectService, Change, AnswersBehind
  <1>6. CASE \/ Submit
             \/ \E i \in Slots : Settling(i) \/ Ending(i)
             \/ UNCHANGED vars
    BY <1>6, OthersEffect DEF AnswersBehind, Answered
  <1> QED
    BY <1>1, <1>2, <1>3, <1>4, <1>5, <1>6, Kinds

-----------------------------------------------------------------------------
(* The requests.                                                           *)

\* A request goes on with what it carries, or is over.
GoesOn(i) == i \in Flying' => /\ i \in Flying /\ calls[i] \in Call
                              /\ calls'[i].draft = calls[i].draft /\ calls'[i].unseen = calls[i].unseen

LEMMA GoneGoOn ==
    ASSUME TypeOK, calls' = LeftBehind \/ calls' = Unloaded, NEW i \in Slots
    PROVE  GoesOn(i) /\ (i \in Flying' => calls'[i].from # "page")
  BY DEF TypeOK, LeftBehind, Unloaded, GoesOn, Flying, Call

\* All but the customer's last press leaves the requests what they carry.
LEMMA RequestsGoOn ==
    ASSUME TypeOK, [Next]_vars, ~Submit, NEW i \in Slots
    PROVE  GoesOn(i)
  <1> USE DEF GoesOn, Flying, TypeOK
  <1>1. ASSUME calls' = calls
        PROVE  GoesOn(i)
    BY <1>1
  <1>2. CASE \/ \E w \in Workspaces : Open(w)
             \/ Reload \/ Leave \/ Navigate
    <2>1. calls' = calls \/ calls' = LeftBehind \/ calls' = Unloaded
      BY <1>2 DEF Open, Reload, Leave, Navigate
    <2> QED
      BY <1>1, <2>1, GoneGoOn
  <1>3. CASE Typing
    BY <1>1, <1>3, TypingEffect
  <1>4. CASE Walking
    BY <1>1, <1>4 DEF Walking, Back, Forward, Edit, Walk
  <1>5. CASE Arriving
    BY <1>1, <1>5 DEF Arriving, SettingsArrive, FormsArrive, FormsFail
  <1>6. ASSUME NEW s \in Services, SelectService(s)
        PROVE  GoesOn(i)
    BY <1>1, <1>6 DEF SelectService, Change
  <1>7. ASSUME NEW j \in Slots, Settling(j)
        PROVE  GoesOn(i)
    <2>1. j \in Flying /\ \E state \in {"made", "failed"} : Settle(j, state)
      BY <1>7 DEF Settling, ServerBooks, ServerRefuses
    <2> QED
      BY <2>1 DEF Settle, Call
  <1>8. ASSUME NEW j \in Slots, Ending(j)
        PROVE  GoesOn(i)
    BY <1>8 DEF Ending, Confirmed, Failed, Unheard
  <1>9. CASE UNCHANGED vars
    BY <1>1, <1>9 DEF vars
  <1> QED
    BY <1>2, <1>3, <1>4, <1>5, <1>6, <1>7, <1>8, <1>9, Kinds

\* What is true of every request as it is sent, of what it carries, stays true.
Carries(c) == /\ c.draft.service # None /\ c.draft.start # None
              /\ c.draft.details /\ c.draft.billing
              /\ c.unseen \/ Answered(c.draft)
AllCarry == \A i \in Flying : Carries(calls[i])

LEMMA CarryMeans == AllCarry <=> SentComplete /\ RequiredAnswered
  BY DEF AllCarry, Carries, SentComplete, RequiredAnswered, Sent

LEMMA StepCarry ==
    ASSUME TypeOK, Filled, AnswersBehind, AllCarry, [Next]_vars
    PROVE  AllCarry'
  <1>1. CASE Submit
    <2>1. step = "pay"
      BY <1>1 DEF Submit
    <2>2. PICK i \in Slots \ Flying :
            calls' = [calls EXCEPT ![i] = [draft |-> draft, ws |-> ws, state |-> "sent", from |-> "page",
                                           late |-> leaving, unseen |-> unseen]]
      BY <1>1 DEF Submit
    <2>3. Carries(calls'[i])
      BY <2>1, <2>2 DEF Carries, Filled, AnswersBehind, TypeOK
    <2>4. \A j \in Flying' : j = i \/ (j \in Flying /\ calls'[j] = calls[j])
      BY <2>2 DEF Flying, TypeOK
    <2> QED
      BY <2>3, <2>4 DEF AllCarry, Carries, Answered
  <1>2. CASE ~Submit
    <2>1. \A i \in Slots : GoesOn(i)
      BY <1>2, RequestsGoOn
    <2> QED
      BY <2>1 DEF AllCarry, GoesOn, Carries, Answered, Flying
  <1> QED
    BY <1>1, <1>2

\* Walking, typing and what arrives for it leave the requests alone.
Quiet == Typing \/ Walking \/ Arriving \/ (\E s \in Services : SelectService(s)) \/ UNCHANGED vars

LEMMA QuietEffect ==
    ASSUME TypeOK, FormsOfService, Quiet
    PROVE  UNCHANGED <<place, submitting, leaving, calls, made, unshown>>
  <1>1. CASE Typing
    BY <1>1, TypingEffect DEF ghosts
  <1>2. CASE Walking
    BY <1>2, WalkEffect
  <1>3. CASE Arriving
    BY <1>3 DEF Arriving, SettingsArrive, FormsArrive, FormsFail, ghosts
  <1>4. ASSUME NEW s \in Services, SelectService(s)
        PROVE  UNCHANGED <<place, submitting, leaving, calls, made, unshown>>
    BY <1>4 DEF SelectService, Change, ghosts
  <1>5. CASE UNCHANGED vars
    BY <1>5 DEF vars, tab, ghosts
  <1> QED
    BY <1>1, <1>2, <1>3, <1>4, <1>5 DEF Quiet

\* A press sends one request, of the page.
LEMMA SubmitEffect ==
    ASSUME PageAssumption, TypeOK, Submit
    PROVE  /\ step = "pay" /\ place = "page" /\ ~submitting /\ submitting' = TRUE
           /\ UNCHANGED <<place, leaving, made, unshown, stored, draft>>
           /\ \E i \in Slots \ Flying :
                /\ calls'[i].from = "page" /\ calls'[i].state = "sent" /\ calls'[i].late = leaving
                /\ Flying' = Flying \cup {i}
                /\ \A j \in Flying : calls'[j] = calls[j]
  <1>1. PICK i \in Slots \ Flying :
          calls' = [calls EXCEPT ![i] = [draft |-> draft, ws |-> ws, state |-> "sent", from |-> "page",
                                         late |-> leaving, unseen |-> unseen]]
    BY DEF Submit
  <1> DEFINE c == [draft |-> draft, ws |-> ws, state |-> "sent", from |-> "page",
                   late |-> leaving, unseen |-> unseen]
  <1>2. c \in Call /\ c # None
    BY DEF TypeOK, Call, PageAssumption
  <1>3. calls'[i] = c /\ \A j \in Slots \ {i} : calls'[j] = calls[j]
    BY <1>1 DEF TypeOK
  <1>4. Flying' = Flying \cup {i}
    BY <1>2, <1>3 DEF Flying
  <1>5. \A j \in Flying : calls'[j] = calls[j]
    BY <1>3 DEF Flying
  <1> QED
    BY <1>3, <1>4, <1>5 DEF Submit, Stepping, ghosts

\* The server answers a request that was sent; a booking is made or it is not.
LEMMA SettlingEffect ==
    ASSUME PageAssumption, TypeOK, NEW i \in Slots, Settling(i)
    PROVE  /\ i \in Flying /\ calls[i].state = "sent" /\ Flying' = Flying
           /\ \A j \in Flying : calls'[j].from = calls[j].from /\ calls'[j].late = calls[j].late
           /\ \A j \in Flying \ {i} : calls'[j] = calls[j]
           /\ \/ /\ calls'[i].state = "made" /\ made' = made + 1
                 /\ unshown' = IF i \in Seen THEN unshown ELSE unshown + 1
              \/ calls'[i].state = "failed" /\ made' = made + 1 /\ unshown' = unshown + 1
              \/ calls'[i].state = "failed" /\ UNCHANGED <<made, unshown>>
           /\ UNCHANGED <<place, submitting, leaving, stored, draft>>
  <1>1. i \in Flying /\ calls[i] \in Call /\ calls[i].state = "sent"
    BY DEF Settling, ServerBooks, ServerRefuses, Flying, TypeOK
  <1>2. PICK state \in {"made", "failed"} :
          /\ Settle(i, state)
          /\ \/ /\ state = "made" /\ made' = made + 1
                /\ unshown' = IF calls[i].from = "page" /\ ~calls[i].late THEN unshown ELSE unshown + 1
             \/ state = "failed" /\ made' = made + 1 /\ unshown' = unshown + 1
             \/ state = "failed" /\ UNCHANGED <<made, unshown>>
    BY DEF Settling, ServerBooks, ServerRefuses, ghosts
  <1>3. /\ calls'[i] = [calls[i] EXCEPT !.state = state]
        /\ \A j \in Slots \ {i} : calls'[j] = calls[j]
    BY <1>1, <1>2 DEF Settle, TypeOK
  <1>4. /\ calls'[i] \in Call /\ calls'[i] # None /\ calls'[i].state = state
        /\ calls'[i].from = calls[i].from /\ calls'[i].late = calls[i].late
    BY <1>1, <1>3 DEF Call, PageAssumption
  <1>5. Flying' = Flying
    BY <1>1, <1>3, <1>4 DEF Flying
  <1>6. UNCHANGED <<place, submitting, leaving, stored, draft>>
    BY DEF Settling, ServerBooks, ServerRefuses, tab, ghosts
  <1>7. \A j \in Flying : calls'[j].from = calls[j].from /\ calls'[j].late = calls[j].late
    BY <1>3, <1>4 DEF Flying
  <1>8. \A j \in Flying \ {i} : calls'[j] = calls[j]
    BY <1>3 DEF Flying
  <1>9. i \in Seen <=> calls[i].from = "page" /\ ~calls[i].late
    BY <1>1 DEF Seen
  <1> QED
    BY <1>1, <1>2, <1>4, <1>5, <1>6, <1>7, <1>8, <1>9

\* The answer of a request ends it.
LEMMA EndingEffect ==
    ASSUME TypeOK, NEW i \in Slots, Ending(i)
    PROVE  /\ i \in Flying /\ Flying' = Flying \ {i}
           /\ \A j \in Flying \ {i} : calls'[j] = calls[j]
           /\ calls[i].from # "page" => submitting' = submitting
           /\ \/ /\ calls[i].state = "made" /\ leaving' = TRUE
              \/ /\ calls[i].state = "failed" /\ leaving' = leaving /\ stored' = stored
              \/ /\ calls[i].from = "gone" /\ leaving' = leaving /\ stored' = stored
           /\ UNCHANGED <<place, made, unshown, draft>>
  <1>1. i \in Flying /\ calls' = [calls EXCEPT ![i] = None]
    BY DEF Ending, Confirmed, Failed, Unheard
  <1>2. Flying' = Flying \ {i} /\ \A j \in Flying \ {i} : calls'[j] = calls[j]
    BY <1>1 DEF Flying, TypeOK
  <1>3. CASE Confirmed(i)
    BY <1>1, <1>2, <1>3 DEF Confirmed, ghosts
  <1>4. CASE Failed(i)
    BY <1>1, <1>2, <1>4 DEF Failed, ghosts
  <1>5. CASE Unheard(i)
    BY <1>1, <1>2, <1>5 DEF Unheard, tab, ghosts
  <1> QED
    BY <1>3, <1>4, <1>5 DEF Ending

\* A tab that is closed or reloaded leaves no request of the page.
LEMMA TabLeaves ==
    ASSUME TypeOK, OneWaits,
           \/ \E w \in Workspaces : Open(w)
           \/ Reload \/ Leave \/ Navigate
    PROVE  \A i \in Slots : i \in Flying' => i \in Flying /\ calls'[i].from # "page"
  <1>1. ASSUME NEW w \in Workspaces, Open(w), NEW i \in Flying'
        PROVE  i \in Flying /\ calls'[i].from # "page"
    BY <1>1 DEF Open, OneWaits, Flying
  <1>2. ASSUME Reload \/ Leave \/ Navigate, NEW i \in Slots, i \in Flying'
        PROVE  i \in Flying /\ calls'[i].from # "page"
    <2>1. calls' = LeftBehind \/ calls' = Unloaded
      BY <1>2 DEF Reload, Leave, Navigate
    <2> QED
      BY <1>2, <2>1, GoneGoOn DEF GoesOn
  <1> QED
    BY <1>1, <1>2

LEMMA StepOneWaits ==
    ASSUME PageAssumption, TypeOK, FormsOfService, OneWaits, [Next]_vars
    PROVE  OneWaits'
  <1>1. CASE \/ \E w \in Workspaces : Open(w)
             \/ Reload \/ Leave \/ Navigate
    <2>1. \A i \in Flying' : calls'[i].from # "page"
      BY <1>1, TabLeaves DEF Flying
    <2> QED
      BY <2>1 DEF OneWaits
  <1>2. CASE Quiet
    <2>1. UNCHANGED <<place, submitting, calls>>
      BY <1>2, QuietEffect
    <2> QED
      BY <2>1 DEF OneWaits, Flying
  <1>3. CASE Submit
    <2>1. /\ place' = "page" /\ ~submitting /\ submitting'
          /\ \E i \in Slots \ Flying : /\ Flying' = Flying \cup {i}
                                       /\ \A j \in Flying : calls'[j] = calls[j]
      BY <1>3, SubmitEffect
    <2>2. \A j \in Flying : calls[j].from # "page"
      BY <2>1 DEF OneWaits
    <2> QED
      BY <2>1, <2>2 DEF OneWaits
  <1>4. ASSUME NEW i \in Slots, Settling(i)
        PROVE  OneWaits'
    <2>1. /\ Flying' = Flying /\ \A j \in Flying : calls'[j].from = calls[j].from
          /\ UNCHANGED <<place, submitting>>
      BY <1>4, SettlingEffect
    <2> QED
      BY <2>1 DEF OneWaits
  <1>5. ASSUME NEW i \in Slots, Ending(i)
        PROVE  OneWaits'
    <2>1. /\ i \in Flying /\ Flying' = Flying \ {i} /\ \A j \in Flying \ {i} : calls'[j] = calls[j]
          /\ calls[i].from # "page" => submitting' = submitting
          /\ place' = place
      BY <1>5, EndingEffect
    <2>2. CASE calls[i].from = "page"
      <3>1. \A j \in Flying' : calls'[j].from # "page"
        BY <2>1, <2>2 DEF OneWaits
      <3> QED
        BY <3>1 DEF OneWaits
    <2>3. CASE calls[i].from # "page"
      BY <2>1, <2>3 DEF OneWaits
    <2> QED
      BY <2>2, <2>3
  <1> QED
    BY <1>1, <1>2, <1>3, <1>4, <1>5, Kinds DEF Quiet

LEMMA StepMadeIsKnown ==
    ASSUME PageAssumption, TypeOK, FormsOfService, OneWaits, MadeIsKnown, [Next]_vars
    PROVE  MadeIsKnown'
  <1> USE DEF MadeIsKnown
  <1>0. made \in Nat /\ unshown \in Nat
    BY DEF TypeOK, PageAssumption
  <1>6. \A n \in Nat : n <= n /\ n <= n + 1
    OBVIOUS
  <1>1. CASE \/ \E w \in Workspaces : Open(w)
             \/ Reload \/ Leave \/ Navigate
    <2>1. CASE Reload \/ Leave \/ Navigate
      <3>1. made' = unshown' /\ unshown' \in Nat
        BY <1>0, <2>1 DEF Reload, Leave, Navigate
      <3>2. unshown' <= made' /\ made' <= unshown' + 1
        BY <1>6, <3>1, Zenon
      <3> QED
        BY <3>1, <3>2
    <2>2. ASSUME NEW w \in Workspaces, Open(w)
          PROVE  MadeIsKnown'
      <3>1. made' = unshown' /\ unshown' \in Nat
        BY <1>0, <2>2 DEF Open
      <3>2. unshown' <= made' /\ made' <= unshown' + 1
        BY <1>6, <3>1, Zenon
      <3> QED
        BY <3>1, <3>2
    <2> QED
      BY <1>1, <2>1, <2>2
  <1>2. CASE Quiet
    <2>1. UNCHANGED <<place, leaving, calls, made, unshown>>
      BY <1>2, QuietEffect
    <2>2. Seen' = Seen
      BY <2>1 DEF Seen, Flying
    <2>3. \A i \in Seen : calls'[i] = calls[i]
      BY <2>1
    <2> QED
      BY <2>1, <2>2, <2>3
  <1>3. CASE Submit
    <2>1. /\ ~submitting /\ place = "page" /\ UNCHANGED <<place, leaving, made, unshown>>
          /\ \E i \in Slots \ Flying :
               /\ calls'[i].late = leaving
               /\ Flying' = Flying \cup {i} /\ \A j \in Flying : calls'[j] = calls[j]
      BY <1>3, SubmitEffect
    <2>2. Seen = {}
      BY <2>1 DEF Seen, OneWaits
    <2>3. leaving => Seen' = {}
      BY <2>1, <2>2 DEF Seen
    <2>4. ~leaving => made = unshown
      BY <2>2
    <2> QED
      BY <2>1, <2>3, <2>4
  <1>4. ASSUME NEW i \in Slots, Settling(i)
        PROVE  MadeIsKnown'
    <2>1. Flying' = Flying /\ i \in Flying /\ calls[i].state = "sent" /\ UNCHANGED <<place, leaving>>
      BY <1>4, SettlingEffect
    <2>2. Seen' = Seen
      BY <1>4, <2>1, SettlingEffect DEF Seen
    <2>3. i \in Seen => Seen = {i} /\ place = "page"
      BY DEF Seen, OneWaits
    <2>4. CASE calls'[i].state = "failed" /\ made' = made + 1 /\ unshown' = unshown + 1
      <3>1. i \in Seen \/ \A j \in Seen : calls'[j] = calls[j]
        BY <1>4, SettlingEffect DEF Seen
      <3> QED
        BY <1>0, <2>1, <2>2, <2>3, <2>4, <3>1
    <2>5. CASE calls'[i].state = "failed" /\ UNCHANGED <<made, unshown>>
      <3>1. i \in Seen \/ \A j \in Seen : calls'[j] = calls[j]
        BY <1>4, SettlingEffect DEF Seen
      <3> QED
        BY <1>0, <2>1, <2>2, <2>3, <2>5, <3>1
    <2>6. CASE /\ calls'[i].state = "made" /\ made' = made + 1
               /\ unshown' = IF i \in Seen THEN unshown ELSE unshown + 1
      <3>1. CASE i \in Seen
        <4>1. made = unshown
          BY <2>1, <3>1
        <4> QED
          BY <1>0, <2>1, <2>2, <2>3, <2>6, <3>1, <4>1
      <3>2. CASE i \notin Seen
        <4>1. \A j \in Seen : calls'[j] = calls[j]
          BY <1>4, <3>2, SettlingEffect DEF Seen
        <4> QED
          BY <1>0, <2>1, <2>2, <2>6, <3>2, <4>1
      <3> QED
        BY <3>1, <3>2
    <2> QED
      BY <1>4, <2>4, <2>5, <2>6, SettlingEffect
  <1>5. ASSUME NEW i \in Slots, Ending(i)
        PROVE  MadeIsKnown'
    <2>1. /\ i \in Flying /\ Flying' = Flying \ {i} /\ UNCHANGED <<place, made, unshown>>
          /\ \A j \in Flying \ {i} : calls'[j] = calls[j]
      BY <1>5, EndingEffect
    <2>2. Seen' = Seen \ {i} /\ \A j \in Seen' : calls'[j] = calls[j]
      BY <2>1 DEF Seen
    <2>3. \/ leaving' = TRUE
          \/ leaving' = leaving /\ (i \in Seen => calls[i].state = "failed")
      BY <1>5, EndingEffect DEF Seen
    <2>4. ~leaving' /\ Seen' = {} => made' = unshown'
      <3>1. CASE i \in Seen
        BY <2>1, <2>3, <3>1
      <3>2. CASE i \notin Seen
        BY <2>1, <2>2, <2>3, <3>2
      <3> QED
        BY <3>1, <3>2
    <2> QED
      BY <2>1, <2>2, <2>4
  <1> QED
    BY <1>1, <1>2, <1>3, <1>4, <1>5, Kinds DEF Quiet

LEMMA StepStored ==
    ASSUME TypeOK, FormsOfService, DraftIsStored, [Next]_vars
    PROVE  DraftIsStored'
  <1>1. CASE \/ \E w \in Workspaces : Open(w)
             \/ Reload \/ Leave \/ Navigate
    BY <1>1 DEF Open, Reload, Leave, Navigate, FreshTab, Closed, DraftIsStored
  <1>2. CASE Typing
    BY <1>2, TypingEffect DEF DraftIsStored
  <1>3. CASE Walking
    BY <1>3, WalkEffect DEF DraftIsStored
  <1>4. CASE Arriving
    BY <1>4 DEF Arriving, SettingsArrive, FormsArrive, FormsFail, DraftIsStored
  <1>5. ASSUME NEW s \in Services, SelectService(s)
        PROVE  DraftIsStored'
    BY <1>5 DEF SelectService, Change, DraftIsStored
  <1>6. CASE Submit
    BY <1>6 DEF Submit, DraftIsStored
  <1>7. ASSUME NEW i \in Slots, Settling(i)
        PROVE  DraftIsStored'
    BY <1>7 DEF Settling, ServerBooks, ServerRefuses, tab, DraftIsStored
  <1>8. ASSUME NEW i \in Slots, Ending(i)
        PROVE  DraftIsStored'
    BY <1>8 DEF Ending, Confirmed, Failed, Unheard, tab, DraftIsStored
  <1>9. CASE UNCHANGED vars
    BY <1>9 DEF vars, tab, DraftIsStored
  <1> QED
    BY <1>1, <1>2, <1>3, <1>4, <1>5, <1>6, <1>7, <1>8, <1>9, Kinds

-----------------------------------------------------------------------------
(* The page.                                                               *)

LEMMA PageInitially ==
    ASSUME PageAssumption, Init
    PROVE  PageInv
  <1>1. TypeOK
    <2>1. EmptyDraft \in Draft
      BY DEF EmptyDraft, Draft, Answers
    <2>2. 0 \in 0..MaxMade
      BY DEF PageAssumption
    <2> QED
      BY <2>1, <2>2 DEF Init, TypeOK, Steps
  <1>2. Flying = {}
    BY DEF Init, Flying
  <1>3. FormsOfService /\ Filled /\ AnswersBehind /\ DraftIsStored
    BY DEF Init, EmptyDraft, FormsOfService, Filled, AnswersBehind, DraftIsStored
  <1>4. OneWaits /\ MadeIsKnown
    BY <1>2 DEF Init, OneWaits, MadeIsKnown, Seen
  <1>5. SentComplete /\ RequiredAnswered
    BY <1>2 DEF SentComplete, RequiredAnswered, Sent
  <1> QED
    BY <1>1, <1>3, <1>4, <1>5 DEF PageInv

LEMMA PageInvStep ==
    ASSUME PageAssumption, PageInv, [Next]_vars
    PROVE  PageInv'
  <1>1. AllCarry'
    BY StepCarry, CarryMeans DEF PageInv
  <1>2. SentComplete' /\ RequiredAnswered'
    BY <1>1 DEF AllCarry, Carries, SentComplete, RequiredAnswered, Sent
  <1>3. unshown <= made
    BY DEF PageInv, MadeIsKnown
  <1> QED
    BY <1>2, <1>3, StepTypes, StepForms, StepFilled, StepAnswers, StepOneWaits, StepMadeIsKnown, StepStored
       DEF PageInv

LEMMA PageInvariant ==
    ASSUME PageAssumption
    PROVE  Spec => []PageInv
  BY PageInitially, PageInvStep, PTL DEF Spec

\* The draft, its copy and the requests keep their types, however the customer
\* walks, reloads and comes back.
THEOREM TypeCorrect ==
    ASSUME PageAssumption
    PROVE  Spec => []TypeOK
  <1>1. PageInv => TypeOK
    BY DEF PageInv
  <1> QED
    BY <1>1, PageInvariant, PTL

\* Of the bookings made since a confirmation was last shown, all but one are those no
\* confirmation is going to be shown for (their answer was lost, their page left, or they
\* were ordered while a confirmation was on its way): for any number of requests.
THEOREM PressBooksOnce ==
    ASSUME PageAssumption
    PROVE  Spec => []BookedOnce
  <1>1. PageInv => BookedOnce
    BY DEF PageInv, MadeIsKnown, BookedOnce
  <1> QED
    BY <1>1, PageInvariant, PTL

\* A booking request carries a service, a start, the required details and the
\* billing address, along every walk over the steps, back, forward and by the
\* review, with reloads between them.
THEOREM RequestsAreComplete ==
    ASSUME PageAssumption
    PROVE  Spec => []SentComplete
  <1>1. PageInv => SentComplete
    BY DEF PageInv
  <1> QED
    BY <1>1, PageInvariant, PTL

\* A required question goes unanswered only when its form had not arrived as the
\* customer walked past the step of the forms.
THEOREM QuestionsAreAnswered ==
    ASSUME PageAssumption
    PROVE  Spec => []RequiredAnswered
  <1>1. PageInv => RequiredAnswered
    BY DEF PageInv
  <1> QED
    BY <1>1, PageInvariant, PTL

\* What the page shows as typed is what a reload brings back, until the page
\* leaves for a confirmation.
THEOREM DraftsAreStored ==
    ASSUME PageAssumption
    PROVE  Spec => []DraftIsStored
  <1>1. PageInv => DraftIsStored
    BY DEF PageInv
  <1> QED
    BY <1>1, PageInvariant, PTL
=============================================================================
