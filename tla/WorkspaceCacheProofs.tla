------------------------ MODULE WorkspaceCacheProofs ------------------------
(***************************************************************************)
(* What a view shows is of its own sign-in, and what the memo keeps is     *)
(* stale only by a race: proofs for any number of views, loads, saves and  *)
(* sign-ins.                                                               *)
(***************************************************************************)
EXTENDS WorkspaceCache, TLAPS

-----------------------------------------------------------------------------
(* The inductive invariant.                                                *)

\* Every save has cleared the memo first, so the clears bound the saves.
SavesClear == timezone + (IF saving = "sent" THEN 1 ELSE 0) <= era

\* The memo's promise is one that was made since the memo was cleared.
PendingIsMade ==
    pending # None => /\ load[pending].state \in {"asked", "answered", "failed", "kept"}
                      /\ load[pending].era = era

\* A view waits for a promise that is not settled and was made no earlier than
\* the memo was cleared ahead of the view's mounting.
WaitsInTime ==
    \A v \in Views :
        view[v].waits # None => /\ load[view[v].waits].state \in {"asked", "answered", "failed"}
                                /\ load[view[v].waits].era >= view[v].era

\* A promise made outside of any save is forgotten before the next one is sent,
\* so what it brought is still the server's.
CalmIsCurrent ==
    pending # None /\ ~load[pending].racing =>
        /\ saving = "no"
        /\ load[pending].state \in {"answered", "kept"} => load[pending].value = timezone

CacheInv == /\ TypeOK /\ SavesClear /\ PendingIsMade /\ WaitsInTime
            /\ CalmIsCurrent /\ SeesItsEra

-----------------------------------------------------------------------------
(* What the actions write                                                  *)

\* A made promise is distinct from none, and a zone from none.
LEMMA Apart == Eras \subseteq Nat /\ Zones \subseteq Nat /\ None \notin Zones /\ 0 \in Eras /\ 0 \in Zones
  BY CacheAssumption DEF Eras, Zones

\* Settling a promise changes the views that wait for it, and only in what they
\* wait for, show, and show it from.
LEMMA ToldEffect ==
    ASSUME TypeOK, NEW p \in Loads, NEW value \in Zones \cup {None}, view' = Told(p, value)
    PROVE  /\ view' \in [Views -> View]
           /\ \A v \in Views : /\ view'[v].mounted = view[v].mounted /\ view'[v].era = view[v].era
                               /\ view[v].waits # p => view'[v] = view[v]
                               /\ view[v].waits = p => /\ view'[v].waits = None
                                                       /\ view'[v].shows = value
                                                       /\ value # None => view'[v].from = load[p].era
  <1>1. SUFFICES ASSUME NEW v \in Views
                 PROVE  /\ view'[v] \in View
                        /\ view'[v].mounted = view[v].mounted /\ view'[v].era = view[v].era
                        /\ view[v].waits # p => view'[v] = view[v]
                        /\ view[v].waits = p => /\ view'[v].waits = None
                                                /\ view'[v].shows = value
                                                /\ value # None => view'[v].from = load[p].era
    BY DEF Told
  <1>2. view[v] \in View /\ load[p].era \in Eras
    BY DEF TypeOK, Load
  <1>3. CASE view[v].waits # p
    BY <1>2, <1>3 DEF Told
  <1>4. CASE view[v].waits = p
    <2>1. view'[v] = [view[v] EXCEPT !.waits = None, !.shows = value,
                                     !.from = IF value = None THEN @ ELSE load[p].era]
      BY <1>4 DEF Told
    <2> QED
      BY <1>2, <1>4, <2>1 DEF View
  <1> QED
    BY <1>3, <1>4

\* A view that mounts to wait.
LEMMA ShowsEffect ==
    ASSUME TypeOK, NEW v \in Views, NEW p \in Loads, Shows(v, p)
    PROVE  /\ view' \in [Views -> View]
           /\ view'[v] = [mounted |-> TRUE, waits |-> p, shows |-> None, era |-> era, from |-> era]
           /\ \A w \in Views : w # v => view'[w] = view[w]
  BY DEF TypeOK, Shows, View

-----------------------------------------------------------------------------
(* The invariant is inductive                                              *)

LEMMA InitInv == Init => CacheInv
  <1> SUFFICES ASSUME Init PROVE CacheInv
    OBVIOUS
  <1>1. TypeOK
    BY Apart DEF Init, TypeOK, Unmade, Hidden, Load, View
  <1>2. SavesClear
    BY DEF Init, SavesClear
  <1>3. PendingIsMade /\ CalmIsCurrent
    BY DEF Init, PendingIsMade, CalmIsCurrent
  <1>4. WaitsInTime /\ SeesItsEra
    BY DEF Init, WaitsInTime, SeesItsEra, Hidden
  <1> QED
    BY <1>1, <1>2, <1>3, <1>4 DEF CacheInv

LEMMA MountFirstKeeps ==
    ASSUME CacheInv, NEW v \in Views, MountFirst(v)
    PROVE  CacheInv'
  <1>1. PICK p \in Loads :
           /\ load[p].state = "unmade"
           /\ load' = [load EXCEPT ![p] = [state |-> "asked", value |-> None, era |-> era,
                                           racing |-> saving # "no"]]
           /\ pending' = p /\ Shows(v, p)
    BY DEF MountFirst
  <1>2. TypeOK /\ era' = era /\ timezone' = timezone /\ saving' = saving /\ era \in Nat
    BY Apart DEF CacheInv, MountFirst, TypeOK
  <1>3. /\ load' \in [Loads -> Load]
        /\ load'[p] = [state |-> "asked", value |-> None, era |-> era, racing |-> saving # "no"]
        /\ \A q \in Loads : q # p => load'[q] = load[q]
    BY <1>1, <1>2 DEF TypeOK, Load
  <1>4. /\ view' \in [Views -> View]
        /\ view'[v] = [mounted |-> TRUE, waits |-> p, shows |-> None, era |-> era, from |-> era]
        /\ \A w \in Views : w # v => view'[w] = view[w]
    BY <1>1, <1>2, ShowsEffect
  <1>5. TypeOK' /\ SavesClear'
    BY <1>1, <1>2, <1>3, <1>4 DEF CacheInv, TypeOK, SavesClear
  <1>6. PendingIsMade' /\ CalmIsCurrent'
    BY <1>1, <1>2, <1>3 DEF PendingIsMade, CalmIsCurrent
  <1>7. WaitsInTime'
    <2> SUFFICES ASSUME NEW w \in Views, view'[w].waits # None
                 PROVE  /\ load'[view'[w].waits].state \in {"asked", "answered", "failed"}
                        /\ load'[view'[w].waits].era >= view'[w].era
      BY DEF WaitsInTime
    <2>1. CASE w = v
      BY <1>2, <1>3, <1>4, <2>1
    <2>2. CASE w # v
      BY <1>1, <1>2, <1>3, <1>4, <2>2 DEF CacheInv, WaitsInTime, TypeOK, View
    <2> QED
      BY <2>1, <2>2
  <1>8. SeesItsEra'
    BY <1>2, <1>4 DEF CacheInv, SeesItsEra
  <1> QED
    BY <1>5, <1>6, <1>7, <1>8 DEF CacheInv

LEMMA MountLaterKeeps ==
    ASSUME CacheInv, NEW v \in Views, MountLater(v)
    PROVE  CacheInv'
  <1>1. /\ TypeOK /\ pending \in Loads /\ load[pending] \in Load
        /\ load[pending].state \in {"asked", "answered", "failed", "kept"}
        /\ load[pending].era = era /\ era \in Nat
        /\ UNCHANGED <<timezone, pending, load, saving, era>>
    BY Apart DEF CacheInv, PendingIsMade, MountLater, TypeOK
  <1>2. /\ view' \in [Views -> View]
        /\ \A w \in Views : w # v => view'[w] = view[w]
        /\ view'[v].era = era /\ view'[v].from = era
        /\ view'[v].waits # None => view'[v].waits = pending /\ load[pending].state # "kept"
    <2>1. CASE load[pending].state = "kept"
      <3>1. view' = [view EXCEPT ![v] = [mounted |-> TRUE, waits |-> None, shows |-> load[pending].value,
                                         era |-> era, from |-> load[pending].era]]
        BY <2>1 DEF MountLater
      <3> QED
        BY <1>1, <3>1 DEF TypeOK, View, Load
    <2>2. CASE load[pending].state # "kept"
      <3>1. Shows(v, pending)
        BY <2>2 DEF MountLater
      <3>2. /\ view' \in [Views -> View]
            /\ view'[v] = [mounted |-> TRUE, waits |-> pending, shows |-> None, era |-> era, from |-> era]
            /\ \A w \in Views : w # v => view'[w] = view[w]
        BY <1>1, <3>1, ShowsEffect
      <3> QED
        BY <1>1, <2>2, <3>2
    <2> QED
      BY <2>1, <2>2
  <1>3. TypeOK' /\ SavesClear' /\ PendingIsMade' /\ CalmIsCurrent'
    BY <1>1, <1>2 DEF CacheInv, TypeOK, SavesClear, PendingIsMade, CalmIsCurrent
  <1>4. WaitsInTime'
    <2> SUFFICES ASSUME NEW w \in Views, view'[w].waits # None
                 PROVE  /\ load[view'[w].waits].state \in {"asked", "answered", "failed"}
                        /\ load[view'[w].waits].era >= view'[w].era
      BY <1>1 DEF WaitsInTime
    <2>1. CASE w = v
      BY <1>1, <1>2, <2>1
    <2>2. CASE w # v
      BY <1>2, <2>2 DEF CacheInv, WaitsInTime
    <2> QED
      BY <2>1, <2>2
  <1>5. SeesItsEra'
    BY <1>1, <1>2 DEF CacheInv, SeesItsEra
  <1> QED
    BY <1>3, <1>4, <1>5 DEF CacheInv

LEMMA UnmountKeeps ==
    ASSUME CacheInv, NEW v \in Views, Unmount(v)
    PROVE  CacheInv'
  <1>1. /\ UNCHANGED <<timezone, pending, load, saving, era>>
        /\ view' \in [Views -> View] /\ view'[v] = Hidden
        /\ \A w \in Views : w # v => view'[w] = view[w]
    BY Apart DEF CacheInv, Unmount, TypeOK, Hidden, View
  <1>2. TypeOK' /\ SavesClear' /\ PendingIsMade' /\ CalmIsCurrent'
    BY <1>1 DEF CacheInv, TypeOK, SavesClear, PendingIsMade, CalmIsCurrent
  <1>3. WaitsInTime'
    BY <1>1 DEF CacheInv, WaitsInTime, Hidden
  <1>4. SeesItsEra'
    BY <1>1 DEF CacheInv, SeesItsEra, Hidden
  <1> QED
    BY <1>2, <1>3, <1>4 DEF CacheInv

LEMMA ServerAnswersKeeps ==
    ASSUME CacheInv, NEW p \in Loads, ServerAnswers(p)
    PROVE  CacheInv'
  <1>1. TypeOK /\ load[p] \in Load /\ UNCHANGED <<timezone, pending, view, saving, era>>
    BY DEF CacheInv, ServerAnswers, TypeOK
  <1>2. /\ load' \in [Loads -> Load]
        /\ \A q \in Loads : q # p => load'[q] = load[q]
        /\ load[p].state = "asked" /\ load'[p].state \in {"answered", "failed"}
        /\ load'[p].era = load[p].era /\ load'[p].racing = load[p].racing
        /\ load'[p].state = "answered" => load'[p].value = timezone
    BY <1>1 DEF ServerAnswers, TypeOK, Load
  <1>3. TypeOK' /\ SavesClear'
    BY <1>1, <1>2 DEF CacheInv, TypeOK, SavesClear
  <1>4. PendingIsMade'
    BY <1>1, <1>2 DEF CacheInv, PendingIsMade, TypeOK
  <1>5. CalmIsCurrent'
    BY <1>1, <1>2 DEF CacheInv, CalmIsCurrent, TypeOK
  <1>6. WaitsInTime'
    <2> SUFFICES ASSUME NEW w \in Views, view[w].waits # None
                 PROVE  /\ load'[view[w].waits].state \in {"asked", "answered", "failed"}
                        /\ load'[view[w].waits].era >= view[w].era
      BY <1>1 DEF WaitsInTime
    <2>1. view[w].waits \in Loads
      BY <1>1 DEF TypeOK, View
    <2> QED
      BY <1>2, <2>1 DEF CacheInv, WaitsInTime
  <1>7. SeesItsEra'
    BY <1>1 DEF CacheInv, SeesItsEra
  <1> QED
    BY <1>3, <1>4, <1>5, <1>6, <1>7 DEF CacheInv

\* Both ways of settling: what a view then shows was asked for in time.
LEMMA SettlingKeeps ==
    ASSUME CacheInv, NEW p \in Loads, Resolve(p) \/ Reject(p)
    PROVE  CacheInv'
  <1>1. /\ TypeOK /\ load[p] \in Load /\ UNCHANGED <<timezone, saving, era>>
        /\ load[p].state \in {"answered", "failed"}
    BY DEF CacheInv, TypeOK, Resolve, Reject
  <1>2. /\ load' \in [Loads -> Load]
        /\ \A q \in Loads : q # p => load'[q] = load[q]
        /\ load'[p].era = load[p].era /\ load'[p].racing = load[p].racing
        /\ load'[p].value = load[p].value
        /\ \/ load[p].state = "answered" /\ load'[p].state = "kept" /\ pending' = pending
           \/ pending' = None
    BY <1>1 DEF Resolve, Reject, TypeOK, Load
  <1>3. PICK value \in Zones \cup {None} : view' = Told(p, value)
    BY <1>1 DEF Resolve, Reject, Load
  <1>4. /\ view' \in [Views -> View]
        /\ \A v \in Views : /\ view'[v].mounted = view[v].mounted /\ view'[v].era = view[v].era
                            /\ view[v].waits # p => view'[v] = view[v]
                            /\ view[v].waits = p => /\ view'[v].waits = None
                                                    /\ view'[v].shows = value
                                                    /\ value # None => view'[v].from = load[p].era
    BY <1>1, <1>3, ToldEffect
  <1>5. TypeOK' /\ SavesClear'
    BY <1>1, <1>2, <1>4 DEF CacheInv, TypeOK, SavesClear
  <1>6. PendingIsMade'
    BY <1>1, <1>2 DEF CacheInv, PendingIsMade, TypeOK
  <1>7. CalmIsCurrent'
    BY <1>1, <1>2 DEF CacheInv, CalmIsCurrent, TypeOK
  <1>8. WaitsInTime'
    <2> SUFFICES ASSUME NEW w \in Views, view'[w].waits # None
                 PROVE  /\ load'[view'[w].waits].state \in {"asked", "answered", "failed"}
                        /\ load'[view'[w].waits].era >= view'[w].era
      BY DEF WaitsInTime
    <2>1. view[w].waits # p /\ view'[w] = view[w] /\ view[w].waits \in Loads
      BY <1>1, <1>4 DEF TypeOK, View
    <2> QED
      BY <1>2, <2>1 DEF CacheInv, WaitsInTime
  <1>9. SeesItsEra'
    <2> SUFFICES ASSUME NEW w \in Views, view'[w].mounted, view'[w].shows # None
                 PROVE  view'[w].from >= view'[w].era
      BY DEF SeesItsEra
    <2>1. CASE view[w].waits # p
      BY <1>4, <2>1 DEF CacheInv, SeesItsEra
    <2>2. CASE view[w].waits = p
      <3>1. p # None
        BY CacheAssumption
      <3>2. load[p].era >= view[w].era
        BY <2>2, <3>1 DEF CacheInv, WaitsInTime
      <3> QED
        BY <1>4, <2>2, <3>2
    <2> QED
      BY <2>1, <2>2
  <1> QED
    BY <1>5, <1>6, <1>7, <1>8, <1>9 DEF CacheInv

\* Clearing the memo, by a sign-in or ahead of a save.
LEMMA ClearingKeeps ==
    ASSUME CacheInv, SignIn \/ Save
    PROVE  CacheInv'
  <1>1. /\ TypeOK /\ UNCHANGED <<timezone, load, view>> /\ pending' = None
        /\ era < MaxClears /\ era' = era + 1 /\ era \in Nat /\ timezone \in Nat
        /\ (saving' = saving) \/ (saving = "no" /\ saving' = "sent")
    BY Apart DEF CacheInv, TypeOK, SignIn, Save, ClearWorkspaceCache
  <1>2. era' \in Eras
    BY <1>1, CacheAssumption DEF Eras
  <1>3. TypeOK'
    BY <1>1, <1>2 DEF TypeOK
  <1>4. SavesClear'
    <2>1. timezone + (IF saving = "sent" THEN 1 ELSE 0) <= era
      BY DEF CacheInv, SavesClear
    <2>2. timezone' = timezone /\ era' = era + 1
      BY <1>1
    <2>3. CASE saving' = saving
      BY <1>1, <2>1, <2>2, <2>3 DEF SavesClear
    <2>4. CASE saving = "no" /\ saving' = "sent"
      BY <1>1, <2>1, <2>2, <2>4 DEF SavesClear
    <2> QED
      BY <1>1, <2>3, <2>4
  <1>5. PendingIsMade' /\ CalmIsCurrent' /\ WaitsInTime' /\ SeesItsEra'
    BY <1>1 DEF CacheInv, PendingIsMade, CalmIsCurrent, WaitsInTime, SeesItsEra
  <1> QED
    BY <1>3, <1>4, <1>5 DEF CacheInv

\* The server's part of a save.
LEMMA SavingKeeps ==
    ASSUME CacheInv, ServerSaves \/ SaveRefused \/ Saved
    PROVE  CacheInv'
  <1>1. /\ TypeOK /\ UNCHANGED <<pending, load, view, era>> /\ saving # "no"
        /\ era \in Nat /\ timezone \in Nat /\ era <= MaxClears
    BY CacheAssumption DEF CacheInv, TypeOK, ServerSaves, SaveRefused, Saved, Eras, Zones
  <1>2. /\ saving' \in {"no", "done"} /\ timezone' \in Nat /\ timezone' <= era
        /\ saving' = "done" => saving = "sent" /\ timezone' = timezone + 1
    BY <1>1 DEF CacheInv, SavesClear, ServerSaves, SaveRefused, Saved
  <1>3. TypeOK'
    BY <1>1, <1>2, CacheAssumption DEF TypeOK, Zones
  <1>4. SavesClear'
    <2>1. saving' # "sent"
      BY <1>2
    <2>2. era' = era /\ timezone' \in Nat /\ timezone' <= era
      BY <1>1, <1>2
    <2>3. (IF saving' = "sent" THEN 1 ELSE 0) = 0
      BY <2>1
    <2> QED
      BY <2>2, <2>3 DEF SavesClear
  <1>5. PendingIsMade' /\ WaitsInTime' /\ SeesItsEra'
    BY <1>1 DEF CacheInv, PendingIsMade, WaitsInTime, SeesItsEra
  <1>6. CalmIsCurrent'
    BY <1>1 DEF CacheInv, CalmIsCurrent
  <1> QED
    BY <1>3, <1>4, <1>5, <1>6 DEF CacheInv

LEMMA StepKeeps == CacheInv /\ [Next]_vars => CacheInv'
  <1> SUFFICES ASSUME CacheInv, [Next]_vars PROVE CacheInv'
    OBVIOUS
  <1>1. ASSUME NEW v \in Views, MountFirst(v) PROVE CacheInv'
    BY <1>1, MountFirstKeeps
  <1>2. ASSUME NEW v \in Views, MountLater(v) PROVE CacheInv'
    BY <1>2, MountLaterKeeps
  <1>3. ASSUME NEW v \in Views, Unmount(v) PROVE CacheInv'
    BY <1>3, UnmountKeeps
  <1>4. ASSUME NEW p \in Loads, ServerAnswers(p) PROVE CacheInv'
    BY <1>4, ServerAnswersKeeps
  <1>5. ASSUME NEW p \in Loads, Resolve(p) \/ Reject(p) PROVE CacheInv'
    BY <1>5, SettlingKeeps
  <1>6. CASE SignIn \/ Save
    BY <1>6, ClearingKeeps
  <1>7. CASE ServerSaves \/ SaveRefused \/ Saved
    BY <1>7, SavingKeeps
  <1>8. CASE UNCHANGED vars
    BY <1>8 DEF vars, CacheInv, TypeOK, SavesClear, PendingIsMade, WaitsInTime, CalmIsCurrent, SeesItsEra
  <1> QED
    BY <1>1, <1>2, <1>3, <1>4, <1>5, <1>6, <1>7, <1>8 DEF Next

LEMMA Invariance == Spec => []CacheInv
  BY InitInv, StepKeeps, PTL DEF Spec

-----------------------------------------------------------------------------
(* The theorems                                                            *)

\* The memo, the promises and the views are of their types, and the zone stays
\* within the clears (settings.service memo, use-workspace-timezone).
THEOREM TypeCorrect == Spec => []TypeOK
  <1>1. CacheInv => TypeOK
    BY DEF CacheInv
  <1> QED
    BY <1>1, Invariance, PTL

\* A view that is mounted after a sign-in or a save never shows what was asked
\* for before it, however late the answer comes (settings.service get).
THEOREM ViewsSeeTheirEra == Spec => []SeesItsEra
  <1>1. CacheInv => SeesItsEra
    BY DEF CacheInv
  <1> QED
    BY <1>1, Invariance, PTL

\* What the memo keeps differs from the server's only if it was asked for while
\* a save was on its way (updateAvailabilitySettings clears before it sends).
THEOREM StaleByRacesOnly == Spec => []StaleOnlyByRacing
  <1>1. CacheInv => StaleOnlyByRacing
    BY DEF CacheInv, CalmIsCurrent, StaleOnlyByRacing
  <1> QED
    BY <1>1, Invariance, PTL

=============================================================================
