-------------------------- MODULE SeatTransactions --------------------------
(***************************************************************************)
(* The commands that take and give up seats, statement by statement:       *)
(* PostgreSQL transactions under READ COMMITTED that lock rows with FOR    *)
(* UPDATE, read what others have committed, write, record an idempotency   *)
(* key with ON CONFLICT DO NOTHING and commit (bookings/repository.py,     *)
(* public_booking/repository.py, public_booking/manage.py).                *)
(*                                                                         *)
(* A connection runs one request at a time; a request may be sent again at *)
(* any time, also while it runs.  Locks last until the transaction ends.   *)
(* What a transaction wrote is invisible to the others until it commits;   *)
(* an INSERT waits for the transaction that inserted the same key.  A      *)
(* transaction may fail at any statement (an error, a lost connection, the *)
(* victim of a deadlock) and leaves nothing behind.                        *)
(*                                                                         *)
(* Abstracted: every guard that is not about seats or keys; a public       *)
(* booking locks its slot and its service together with its session; the   *)
(* session editor and the expiry sweep are left to BookingLedger.          *)
(***************************************************************************)
EXTENDS Naturals, FiniteSets

CONSTANTS Bookings, Sessions, OperatorKeys, PublicKeys, PublicSessions, Capacity, None,
          Connections

VARIABLES booking, cancelled, keyed,    \* committed rows, as in SeatCommands
          conn                          \* the transaction that each connection runs

vars == <<booking, cancelled, keyed, conn>>

Commands == INSTANCE SeatCommands

ASSUME SeatAssumption == Commands!SeatAssumption
ASSUME NoneAssumption == Commands!NoneAssumption

Rows == Bookings \cup Sessions \cup PublicKeys       \* what can be locked

\* A booking, a session and an advisory lock are never the same lock.
ASSUME RowsAssumption == /\ Bookings \cap Sessions = {}
                         /\ PublicKeys \cap Sessions = {}

Write == [id: Bookings, row: Commands!BookingRow]

Transaction == [request: Commands!Requests,
                at: {"begin", "check", "lock", "count", "record", "release", "commit"},
                held: SUBSET Rows,                   \* its locks
                write: Write \cup {None},            \* its uncommitted booking row
                recorded: BOOLEAN,                   \* its uncommitted key row
                frees: SUBSET Sessions]              \* its uncommitted cancellations

ASSUME IdleAssumption == None \notin Write \cup Transaction

TypeOK == /\ booking \in [Bookings -> Commands!BookingRow \cup {None}]
          /\ cancelled \subseteq Sessions
          /\ keyed \in [Commands!Keys -> Commands!Requests \cup {None}]
          /\ conn \in [Connections -> Transaction \cup {None}]
          /\ \A c \in Connections : conn[c] # None =>
                (conn[c].write # None <=> conn[c].at \in {"record", "release", "commit"})

Init == Commands!Init /\ conn = [c \in Connections |-> None]

-----------------------------------------------------------------------------
(* Statements *)

At(c, point) == conn[c] # None /\ conn[c].at = point

Op(c) == conn[c].request.op

\* A transaction that ends without a commit, or has nothing to commit.
Ends(c) == conn' = [conn EXCEPT ![c] = None] /\ UNCHANGED <<booking, cancelled, keyed>>

Goes(c, t) == conn' = [conn EXCEPT ![c] = t] /\ UNCHANGED <<booking, cancelled, keyed>>

LockedByOther(c, row) == \E d \in Connections \ {c} : conn[d] # None /\ row \in conn[d].held

Begin(c, r) == /\ conn[c] = None
               /\ Goes(c, [request |-> r,
                           at |-> IF r.op = "create" THEN "lock" ELSE "begin",
                           held |-> {}, write |-> None, recorded |-> FALSE, frees |-> {}])

\* The public page takes an advisory lock on its key before it looks the key up.
LockKey(c) == /\ At(c, "begin") /\ Op(c) = "book"
              /\ ~LockedByOther(c, conn[c].request.key)
              /\ Goes(c, [conn[c] EXCEPT !.held = @ \cup {conn[c].request.key}, !.at = "check"])

\* Commands on a booking lock it first; one that was not committed is not found.
LockBooking(c) ==
    /\ At(c, "begin") /\ Op(c) # "book"
    /\ LET b == conn[c].request.booking
       IN  IF booking[b] = None
           THEN Ends(c)
           ELSE /\ ~LockedByOther(c, b)
                /\ Goes(c, [conn[c] EXCEPT !.held = @ \cup {b}, !.at = "lock"])

\* Mutant of SessionsOf: a reschedule reads its target without FOR UPDATE.
SessionsOfUnlocked(r) ==
    CASE r.op \in {"create", "book"} -> {r.to}
      [] r.op = "move" -> {booking[r.booking].session, r.to}
      [] OTHER -> {booking[r.booking].session}

\* The sessions that a request locks.
SessionsOf(r) ==
    CASE r.op \in {"create", "book"} -> {r.to}
      [] r.op = "cancel" -> {booking[r.booking].session}
      [] OTHER -> {booking[r.booking].session, r.to}

\* Mutant of Precedes: a move, too, locks its old session first.
PrecedesAlways(r, s, t) == s = booking[r.booking].session

\* A move locks in id order, a reschedule its old session first.
Precedes(r, s, t) == IF r.op = "move" THEN s < t ELSE s = booking[r.booking].session

NextSession(c, s) ==
    LET open == SessionsOf(conn[c].request) \ conn[c].held
    IN  s \in open /\ \A t \in open \ {s} : Precedes(conn[c].request, s, t)

LockSession(c, s) ==
    /\ At(c, "lock") /\ NextSession(c, s)
    /\ ~LockedByOther(c, s)
    /\ Goes(c, [conn[c] EXCEPT !.held = @ \cup {s}])

\* All locks are held.
Locked(c) ==
    /\ At(c, "lock") /\ SessionsOf(conn[c].request) \subseteq conn[c].held
    /\ Goes(c, [conn[c] EXCEPT !.at = IF Op(c) = "book" \/ conn[c].request.key = None
                                      THEN "count" ELSE "check"])

\* A key that was used is a replay, or a conflict if it stands for another command.
CheckKey(c) ==
    /\ At(c, "check")
    /\ IF keyed[conn[c].request.key] # None
       THEN Ends(c)
       ELSE Goes(c, [conn[c] EXCEPT !.at = IF Op(c) = "book" THEN "lock" ELSE "count"])

\* What the guards allow, on the rows committed so far.
Admissible(r) ==
    /\ r.booking # None => Commands!Live(r.booking)
    /\ r.op \in {"move", "reschedule"} => r.to # booking[r.booking].session
    /\ r.op # "cancel" => Commands!HasSeat(r.to)

\* The row that a request writes; a new booking gets an id that nobody uses.
RowOf(r) == [session |-> IF r.op = "cancel" THEN booking[r.booking].session ELSE r.to,
             live |-> r.op # "cancel"]

Unused(b) == /\ booking[b] = None
             /\ \A d \in Connections : conn[d] # None /\ conn[d].write # None =>
                   conn[d].write.id # b

Writes(r, w) == /\ w.row = RowOf(r)
                /\ IF r.booking = None THEN Unused(w.id) ELSE w.id = r.booking

\* Mutant of Decide: goes on although the request was refused.
DecideUnanswered(c) ==
    /\ At(c, "count")
    /\ IF ~Admissible(conn[c].request)
       THEN Goes(c, [conn[c] EXCEPT !.at = "release"])
       ELSE \E w \in Write :
              /\ Writes(conn[c].request, w)
              /\ Goes(c, [conn[c] EXCEPT !.write = w,
                            !.at = IF conn[c].request.key = None THEN "release" ELSE "record"])

Decide(c) ==
    /\ At(c, "count")
    /\ IF ~Admissible(conn[c].request)
       THEN Ends(c)
       ELSE \E w \in Write :
              /\ Writes(conn[c].request, w)
              /\ Goes(c, [conn[c] EXCEPT !.write = w,
                            !.at = IF conn[c].request.key = None THEN "release" ELSE "record"])

\* The unique key is inserted by another transaction that has not ended.
KeyInFlight(c) == \E d \in Connections \ {c} :
                     /\ conn[d] # None /\ conn[d].recorded
                     /\ conn[d].request.key = conn[c].request.key

Recorded(c) == Goes(c, [conn[c] EXCEPT !.recorded = TRUE, !.at = "release"])

\* Mutant of RecordKey: a key that meanwhile appeared is not looked up again.
RecordKeyUnchecked(c) ==
    /\ At(c, "record") /\ ~KeyInFlight(c)
    /\ IF keyed[conn[c].request.key] = None
       THEN Recorded(c)
       ELSE Goes(c, [conn[c] EXCEPT !.at = "release"])

\* A key that another transaction committed meanwhile is looked up again; only if it
\* stands for the same command does this one go on.
RecordKey(c) ==
    /\ At(c, "record") /\ ~KeyInFlight(c)
    /\ LET record == keyed[conn[c].request.key]
       IN  CASE record = None -> Recorded(c)
             [] record = conn[c].request /\ Op(c) # "book" ->
                  Goes(c, [conn[c] EXCEPT !.at = "release"])
             [] OTHER -> Ends(c)

\* Mutant of Leaves: does not count who else holds a seat.
LeavesUncounted(r) == IF r.booking = None THEN {}
                      ELSE {booking[r.booking].session} \cap PublicSessions

\* release_public_session, for commands that leave a session.
Leaves(r) == IF r.booking = None THEN {}
             ELSE Commands!Vacated(r.booking, booking[r.booking].session)

Release(c) ==
    /\ At(c, "release")
    /\ Goes(c, [conn[c] EXCEPT !.frees = Leaves(conn[c].request), !.at = "commit"])

Commit(c) ==
    /\ At(c, "commit")
    /\ LET t == conn[c]
       IN  /\ booking' = [booking EXCEPT ![t.write.id] = t.write.row]
           /\ cancelled' = cancelled \cup t.frees
           /\ keyed' = IF t.recorded THEN [keyed EXCEPT ![t.request.key] = t.request] ELSE keyed
    /\ conn' = [conn EXCEPT ![c] = None]

Fail(c) == conn[c] # None /\ Ends(c)

Statement(c) == \/ LockKey(c) \/ LockBooking(c) \/ \E s \in Sessions : LockSession(c, s)
                \/ Locked(c) \/ CheckKey(c) \/ Decide(c) \/ RecordKey(c) \/ Release(c)
                \/ Commit(c)

Next == \E c \in Connections : \/ \E r \in Commands!Requests : Begin(c, r)
                               \/ Statement(c)
                               \/ Fail(c)

Spec == Init /\ [][Next]_vars

-----------------------------------------------------------------------------
(* Properties *)

\* Every transaction takes effect at its commit, as if it ran alone, and no command
\* twice under one key, although guards and keys were read statements earlier.
ImplementsCommands == Commands!Spec

\* Two transactions that count the seats of a session before either takes one would
\* oversell it (bookings/repository.py:216, 354, public_booking/repository.py:438).
SeatsWithinCapacity ==
    \A s \in Sessions : Cardinality(Commands!Holders(s)) <= Capacity[s]

\* No booking that holds a seat sits on a session that another transaction released as
\* unused while it was being booked (session_capacity.py:27).
HoldersSitOnOpenSessions ==
    \A b \in Bookings : Commands!Live(b) => booking[b].session \notin cancelled

\* What a blocked transaction waits for.
WaitsFor(c, d) ==
    /\ c # d /\ conn[c] # None /\ conn[d] # None
    /\ \/ At(c, "begin") /\ Op(c) = "book" /\ conn[c].request.key \in conn[d].held
       \/ At(c, "begin") /\ Op(c) # "book" /\ conn[c].request.booking \in conn[d].held
       \/ At(c, "lock") /\ \E s \in conn[d].held : NextSession(c, s)
       \/ At(c, "record") /\ conn[d].recorded /\ conn[d].request.key = conn[c].request.key

\* "Lock both sessions in id order so two opposite moves cannot deadlock"
\* (bookings/repository.py:322): no set of transactions waits in a circle unless a
\* customer's reschedule, which locks in another order, is one of them.  (The expiry
\* sweep, which locks rows in no order at all, is not a command of this module.)
OnlyReschedulesDeadlock ==
    \A circle \in SUBSET {c \in Connections : conn[c] # None /\ Op(c) # "reschedule"} :
        circle # {} => \E c \in circle : \A d \in circle : ~WaitsFor(c, d)
=============================================================================
