---------------------------- MODULE SeatCommands ----------------------------
(***************************************************************************)
(* What the commands that take and give up seats promise, however many of  *)
(* them run at once: each takes effect at one moment, on the rows of that  *)
(* moment, and at most once per idempotency key.  SeatTransactions         *)
(* implements this specification.                                          *)
(***************************************************************************)
EXTENDS Naturals, FiniteSets

CONSTANTS Bookings,          \* ids of bookings, a pool
          Sessions,          \* ids of sessions: numbers, since rows are locked in id order
          OperatorKeys,      \* idempotency keys of operators' commands
          PublicKeys,        \* idempotency keys of the public page
          PublicSessions,    \* the sessions of origin public_open
          Capacity,
          None

\* What a module that instantiates this one has to assume of its constants.
SeatAssumption ==
    /\ IsFiniteSet(Bookings)
    /\ Sessions \subseteq Nat
    /\ OperatorKeys \cap PublicKeys = {}
    /\ PublicSessions \subseteq Sessions
    /\ Capacity \in [Sessions -> Nat \ {0}]

VARIABLES booking,           \* id -> row of bookings
          cancelled,         \* the sessions whose status is cancelled
          keyed              \* idempotency key -> the command recorded under it

Keys == OperatorKeys \cup PublicKeys

BookingRow == [session: Sessions, live: BOOLEAN]     \* live: pending or confirmed

\* A request is its own fingerprint.
Requests == [op: {"create"}, key: OperatorKeys, booking: {None}, to: Sessions]
      \cup  [op: {"book"}, key: PublicKeys, booking: {None}, to: Sessions]
      \cup  [op: {"move"}, key: OperatorKeys, booking: Bookings, to: Sessions]
      \cup  [op: {"cancel"}, key: OperatorKeys \cup {None}, booking: Bookings, to: {None}]
      \cup  [op: {"reschedule"}, key: {None}, booking: Bookings, to: Sessions]

NoneAssumption == None \notin BookingRow \cup Requests \cup Keys \cup Bookings \cup Sessions

Init == /\ booking = [b \in Bookings |-> None]
        /\ cancelled = {}
        /\ keyed = [k \in Keys |-> None]

-----------------------------------------------------------------------------

Holders(s) == {b \in Bookings : booking[b] # None /\ booking[b].session = s /\ booking[b].live}

HasSeat(s) == s \notin cancelled /\ Cardinality(Holders(s)) < Capacity[s]

\* release_public_session: what leaving session s cancels.
Vacated(b, s) == IF s \in PublicSessions /\ Capacity[s] = 1 /\ Holders(s) \subseteq {b}
                 THEN {s} ELSE {}

Live(b) == booking[b] # None /\ booking[b].live

Seats(r, b) == /\ r.op \in {"create", "book"}
               /\ booking[b] = None
               /\ HasSeat(r.to)
               /\ booking' = [booking EXCEPT ![b] = [session |-> r.to, live |-> TRUE]]
               /\ UNCHANGED cancelled

Moves(r, b) == /\ r.op \in {"move", "reschedule"}
               /\ b = r.booking /\ Live(b)
               /\ r.to # booking[b].session /\ HasSeat(r.to)
               /\ booking' = [booking EXCEPT ![b] = [session |-> r.to, live |-> TRUE]]
               /\ cancelled' = cancelled \cup Vacated(b, booking[b].session)

Cancels(r, b) == /\ r.op = "cancel"
                 /\ b = r.booking /\ Live(b)
                 /\ booking' = [booking EXCEPT
                                  ![b] = [session |-> booking[b].session, live |-> FALSE]]
                 /\ cancelled' = cancelled \cup Vacated(b, booking[b].session)

\* What a customer does through the manage link has no key.
Keeps(r) == IF r.key = None THEN UNCHANGED keyed
            ELSE keyed[r.key] = None /\ keyed' = [keyed EXCEPT ![r.key] = r]

Apply(r, b) == Keeps(r) /\ (Seats(r, b) \/ Moves(r, b) \/ Cancels(r, b))

Next == \E r \in Requests, b \in Bookings : Apply(r, b)

Spec == Init /\ [][Next]_<<booking, cancelled, keyed>>
=============================================================================
