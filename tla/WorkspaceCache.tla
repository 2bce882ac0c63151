--------------------------- MODULE WorkspaceCache ---------------------------
(***************************************************************************)
(* The web client's memo of the workspace's timezone (the currency's is    *)
(* the same): one load shared by every view of a sign-in, forgotten when   *)
(* the settings are saved and when another user is signed in               *)
(* (web/src/services/settings.service memo, lib/use-workspace-timezone).   *)
(*                                                                         *)
(* The timezone is a number that counts the saves of it.                   *)
(***************************************************************************)
EXTENDS Naturals

CONSTANTS Loads,      \* the promises that can be made
          Views,      \* components that show times
          MaxClears,  \* bound: saves and sign-ins
          None        \* no promise, or a view that shows its default

ASSUME CacheAssumption == MaxClears \in Nat /\ None \notin Nat /\ None \notin Loads

VARIABLES timezone,   \* the server's
          pending,    \* memo: the promise that `get` returns
          load,       \* the promises
          view,       \* the views
          saving,     \* updateAvailabilitySettings: "no", "sent", "done"
          era         \* how often the memo was cleared

vars == <<timezone, pending, load, view, saving, era>>

Eras == 0..MaxClears
Zones == 0..MaxClears

Unmade == [state |-> "unmade", value |-> None, era |-> 0, racing |-> FALSE]
Load == [state: {"unmade", "asked", "answered", "failed", "kept", "rejected"},
         value: Zones \cup {None},
         era: Eras,               \* when it was made
         racing: BOOLEAN]         \* made while a save was on its way

Hidden == [mounted |-> FALSE, waits |-> None, shows |-> None, era |-> 0, from |-> 0]
View == [mounted: BOOLEAN, waits: Loads \cup {None}, shows: Zones \cup {None},
         era: Eras,               \* when it was mounted
         from: Eras]              \* when what it shows was asked for

TypeOK == /\ timezone \in Zones
          /\ pending \in Loads \cup {None}
          /\ load \in [Loads -> Load]
          /\ view \in [Views -> View]
          /\ saving \in {"no", "sent", "done"}
          /\ era \in Eras

Init == /\ timezone = 0 /\ pending = None /\ saving = "no" /\ era = 0
        /\ load = [p \in Loads |-> Unmade]
        /\ view = [v \in Views |-> Hidden]

-----------------------------------------------------------------------------

Shows(v, p) == view' = [view EXCEPT ![v] = [mounted |-> TRUE, waits |-> p, shows |-> None, era |-> era, from |-> era]]

\* A view that mounts while nothing is pending makes the load.
MountFirst(v) ==
    /\ ~view[v].mounted /\ pending = None
    /\ \E p \in Loads :
         /\ load[p].state = "unmade"
         /\ load' = [load EXCEPT ![p] = [state |-> "asked", value |-> None, era |-> era, racing |-> saving # "no"]]
         /\ pending' = p
         /\ Shows(v, p)
    /\ UNCHANGED <<timezone, saving, era>>

\* Any other one shares it; when it is kept already, it shows it at once.
MountLater(v) ==
    /\ ~view[v].mounted /\ pending # None
    /\ IF load[pending].state = "kept"
       THEN view' = [view EXCEPT ![v] = [mounted |-> TRUE, waits |-> None, shows |-> load[pending].value,
                                         era |-> era, from |-> load[pending].era]]
       ELSE Shows(v, pending)
    /\ UNCHANGED <<timezone, pending, load, saving, era>>

\* The effect's `live` is cleared: its answer is ignored.
Unmount(v) == /\ view[v].mounted
              /\ view' = [view EXCEPT ![v] = Hidden]
              /\ UNCHANGED <<timezone, pending, load, saving, era>>

ServerAnswers(p) ==
    /\ load[p].state = "asked"
    /\ \/ load' = [load EXCEPT ![p].state = "answered", ![p].value = timezone]
       \/ load' = [load EXCEPT ![p].state = "failed"]
    /\ UNCHANGED <<timezone, pending, view, saving, era>>

\* The views that wait for promise p see it settle.
Told(p, value) == [v \in Views |-> IF view[v].waits # p THEN view[v]
                                   ELSE [view[v] EXCEPT !.waits = None, !.shows = value,
                                                        !.from = IF value = None THEN @ ELSE load[p].era]]

Resolve(p) ==
    /\ load[p].state = "answered"
    /\ load' = [load EXCEPT ![p].state = "kept"]
    /\ view' = Told(p, load[p].value)
    /\ UNCHANGED <<timezone, pending, saving, era>>

RejectUnheard(p) ==
    /\ load[p].state = "failed"
    /\ load' = [load EXCEPT ![p].state = "rejected"]
    /\ pending' = None
    /\ UNCHANGED <<timezone, view, saving, era>>

\* A failed load is forgotten, and with it whatever load was made meanwhile.
Reject(p) ==
    /\ load[p].state = "failed"
    /\ load' = [load EXCEPT ![p].state = "rejected"]
    /\ view' = Told(p, None)
    /\ pending' = None
    /\ UNCHANGED <<timezone, saving, era>>

KeepPending == UNCHANGED pending /\ era < MaxClears /\ era' = era + 1
ClearWorkspaceCache == pending' = None /\ era < MaxClears /\ era' = era + 1

\* login, logout, restoreSession and resetPassword.
SignIn == ClearWorkspaceCache /\ UNCHANGED <<timezone, load, view, saving>>

SaveUncleared == saving = "no" /\ saving' = "sent" /\ timezone < MaxClears
                 /\ UNCHANGED <<timezone, pending, load, view, era>>

\* updateAvailabilitySettings and updateBusinessSettings clear, then send.
Save == saving = "no" /\ saving' = "sent" /\ ClearWorkspaceCache /\ UNCHANGED <<timezone, load, view>>

\* One save at a time.
ServerSaves == /\ saving = "sent" /\ saving' = "done" /\ timezone' = timezone + 1
               /\ UNCHANGED <<pending, load, view, era>>

SaveRefused == /\ saving = "sent" /\ saving' = "no"
               /\ UNCHANGED <<timezone, pending, load, view, era>>

Saved == saving = "done" /\ saving' = "no" /\ UNCHANGED <<timezone, pending, load, view, era>>

Next == \/ \E v \in Views : MountFirst(v) \/ MountLater(v) \/ Unmount(v)
        \/ \E p \in Loads : ServerAnswers(p) \/ Resolve(p) \/ Reject(p)
        \/ SignIn \/ Save \/ ServerSaves \/ SaveRefused \/ Saved

Spec == Init /\ [][Next]_vars

\* Requests settle, their continuations run, and a save is answered.
FairSpec == Spec /\ \A p \in Loads : WF_vars(ServerAnswers(p)) /\ WF_vars(Resolve(p) \/ Reject(p))

-----------------------------------------------------------------------------

\* A view never shows what was asked for before the memo was last cleared ahead
\* of its mounting: nothing of the user signed in before, nothing older than a save.
SeesItsEra == \A v \in Views : view[v].mounted /\ view[v].shows # None => view[v].from >= view[v].era

\* What the memo keeps is the server's, unless it was asked for while a save was
\* on its way (or one is).
StaleOnlyByRacing ==
    pending # None /\ load[pending].state = "kept" /\ load[pending].value # timezone
        => saving # "no" \/ load[pending].racing

\* A waiting view hears of its load.
ViewsHear == \A v \in Views : view[v].waits # None ~> view[v].waits = None

\* settings.service.ts:397: the cached timezone is forgotten after settings change.
ForgottenAfterSave ==
    pending # None /\ load[pending].state = "kept" /\ saving = "no" => load[pending].value = timezone
=============================================================================
