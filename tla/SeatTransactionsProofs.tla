----------------------- MODULE SeatTransactionsProofs -----------------------
(* What transactions keep for every number of connections, bookings and    *)
(* sessions: what a transaction has read stays as it was read, because     *)
(* whoever could change it would need a lock that the transaction holds.   *)
(* And how transactions wait: in the order of the sessions they lock.      *)
EXTENDS SeatTransactions, FiniteSetTheorems, TLAPS

-----------------------------------------------------------------------------
(* The inductive invariant *)

\* The locks that transaction t holds where it is.
Guarded(t) ==
    /\ t.at = "begin" => t.request.op # "create"
    /\ t.at # "begin" /\ t.request.op = "book" => t.request.key \in t.held
    /\ t.at # "begin" /\ t.request.booking # None =>
          booking[t.request.booking] # None /\ t.request.booking \in t.held
    /\ t.at \in {"count", "record", "release", "commit"} =>
          SessionsOf(t.request) \subseteq t.held
    /\ t.at = "check" /\ t.request.op # "book" => SessionsOf(t.request) \subseteq t.held

\* What t knows of its key.
KeyKnown(t) ==
    /\ t.at = "record" => t.request.key # None
    /\ t.at \in {"count", "record"} /\ t.request.key # None =>
          keyed[t.request.key] # t.request
    /\ t.at = "lock" /\ t.request.op = "book" => keyed[t.request.key] # t.request
    /\ t.recorded =>
          /\ t.at \in {"release", "commit"}
          /\ t.request.key # None /\ keyed[t.request.key] = None
    /\ t.at \in {"release", "commit"} /\ t.request.key # None => t.recorded

\* The guards that let t write still hold, and what it wrote is still what they allow.
Decided(t) ==
    /\ t.write # None <=> t.at \in {"record", "release", "commit"}
    /\ t.write # None =>
          /\ Admissible(t.request)
          /\ t.write.row = RowOf(t.request)
          /\ t.request.booking = None => booking[t.write.id] = None
          /\ t.request.booking # None => t.write.id = t.request.booking
    /\ t.at = "commit" => t.frees = Leaves(t.request)

Sound(t) == Guarded(t) /\ KeyKnown(t) /\ Decided(t)

\* Two transactions lock, insert and claim different things.
Apart(t, u) == /\ t.held \cap u.held = {}
               /\ t.write # None /\ u.write # None => t.write.id # u.write.id
               /\ t.recorded /\ u.recorded => t.request.key # u.request.key

Isolated == /\ \A c \in Connections : conn[c] # None => Sound(conn[c])
            /\ \A c, d \in Connections :
                  c # d /\ conn[c] # None /\ conn[d] # None => Apart(conn[c], conn[d])
-----------------------------------------------------------------------------
(* Requests and transactions *)

\* What the kinds of requests have in common.
LEMMA RequestShape ==
    ASSUME NEW r \in Commands!Requests
    PROVE  /\ r.op \in {"create", "book", "move", "cancel", "reschedule"}
           /\ r.op \in {"create", "book"} <=> r.booking = None
           /\ r.booking # None => r.booking \in Bookings
           /\ r.op = "reschedule" => r.key = None
           /\ r.key # None => r.key \in Commands!Keys
           /\ r.op = "book" => r.key \in PublicKeys
           /\ r.op # "cancel" => r.to \in Sessions
  BY NoneAssumption DEF Commands!Requests, Commands!NoneAssumption, Commands!Keys

\* A running transaction is typed.
LEMMA Running ==
    ASSUME TypeOK, NEW c \in Connections, conn[c] # None
    PROVE  conn[c] \in Transaction /\ conn[c].request \in Commands!Requests
  BY DEF TypeOK, Transaction

\* A booking that exists is a typed row.
LEMMA Existing ==
    ASSUME TypeOK, NEW b \in Bookings, booking[b] # None
    PROVE  booking[b] \in Commands!BookingRow /\ booking[b].session \in Sessions
  BY DEF TypeOK, Commands!BookingRow

\* As long as the rows stay, so does what holds of a transaction.
LEMMA SoundStays ==
    ASSUME NEW t, Sound(t), UNCHANGED <<booking, cancelled, keyed>>
    PROVE  Sound(t)'
  BY DEF Sound, Guarded, KeyKnown, Decided, SessionsOf, Admissible, RowOf, Leaves,
         Commands!Live, Commands!HasSeat, Commands!Vacated, Commands!Holders

-----------------------------------------------------------------------------
(* Statements other than a commit change one transaction *)

LEMMA EndsKeeps ==
    ASSUME TypeOK, Isolated, NEW c \in Connections, Ends(c)
    PROVE  TypeOK' /\ Isolated'
  <1>1. TypeOK'
    BY DEF TypeOK, Ends
  <1>2. \A d \in Connections : conn'[d] # None => d # c /\ conn'[d] = conn[d]
    BY DEF TypeOK, Ends
  <1>3. ASSUME NEW d \in Connections, conn'[d] # None
        PROVE  Sound(conn[d])'
    BY <1>2, <1>3, SoundStays DEF Isolated, Ends
  <1> QED
    BY <1>1, <1>2, <1>3 DEF Isolated, Apart

LEMMA GoesKeeps ==
    ASSUME TypeOK, Isolated, NEW c \in Connections, NEW t \in Transaction, Goes(c, t),
           Sound(t),
           \A d \in Connections \ {c} : conn[d] # None => Apart(t, conn[d])
    PROVE  TypeOK' /\ Isolated'
  <1>1. /\ conn'[c] = t
        /\ \A d \in Connections \ {c} : conn'[d] = conn[d]
    BY DEF TypeOK, Goes
  <1>2. TypeOK'
    <2>1. t.write # None <=> t.at \in {"record", "release", "commit"}
      BY DEF Sound, Decided
    <2> QED
      BY <1>1, <2>1 DEF TypeOK, Goes
  <1>3. ASSUME NEW d \in Connections, conn'[d] # None
        PROVE  Sound(conn[d])'
    <2>1. Sound(conn'[d])
      BY <1>1, <1>3 DEF Isolated
    <2>2. UNCHANGED <<booking, cancelled, keyed>>
      BY DEF Goes
    <2> QED
      BY <2>1, <2>2, SoundStays
  <1>4. ASSUME NEW d \in Connections, NEW e \in Connections, d # e,
               conn'[d] # None, conn'[e] # None
        PROVE  Apart(conn[d], conn[e])'
    <2>1. Apart(conn'[d], conn'[e])
      BY <1>1, <1>4 DEF Isolated, Apart
    <2> QED
      BY <2>1 DEF Apart
  <1> QED
    BY <1>2, <1>3, <1>4 DEF Isolated
-----------------------------------------------------------------------------
(* What a commit changes, and what it cannot reach *)

\* The sessions a request locks are the one it goes to and the one it leaves.
LEMMA SessionsLocked ==
    ASSUME NEW r \in Commands!Requests
    PROVE  /\ r.op # "cancel" => r.to \in SessionsOf(r)
           /\ r.booking # None => booking[r.booking].session \in SessionsOf(r)
           /\ RowOf(r).session \in SessionsOf(r)
           /\ RowOf(r).live = (r.op # "cancel")
  BY RequestShape DEF SessionsOf, RowOf

\* A session that the transaction did not lock keeps its holders and its status.
LEMMA CommitFrame ==
    ASSUME TypeOK, NEW d \in Connections, conn[d] # None, Sound(conn[d]), Commit(d)
    PROVE  /\ conn[d].write \in Write
           /\ \A b \in Bookings : b # conn[d].write.id => booking'[b] = booking[b]
           /\ \A s \in Sessions \ conn[d].held :
                 /\ Commands!Holders(s)' = Commands!Holders(s)
                 /\ s \in cancelled' <=> s \in cancelled
           /\ conn'[d] = None
           /\ \A c \in Connections \ {d} : conn'[c] = conn[c]
  <1> DEFINE t == conn[d]
             r == conn[d].request
             w == conn[d].write
  <1>1. t \in Transaction /\ r \in Commands!Requests /\ t.at = "commit"
    BY Running DEF Commit, At
  <1>2. w \in Write /\ w # None /\ w.id \in Bookings
    BY <1>1 DEF Sound, Decided, Transaction, Write
  <1>3. SessionsOf(r) \subseteq t.held
    BY <1>1 DEF Sound, Guarded
  <1>4. /\ w.row = RowOf(r) /\ t.frees = Leaves(r)
        /\ r.booking = None => booking[w.id] = None
        /\ r.booking # None => w.id = r.booking
    BY <1>1, <1>2 DEF Sound, Decided
  <1>5. /\ booking' = [booking EXCEPT ![w.id] = w.row]
        /\ cancelled' = cancelled \cup t.frees
        /\ conn' = [conn EXCEPT ![d] = None]
    BY DEF Commit
  <1>6. booking'[w.id] = w.row /\ \A b \in Bookings : b # w.id => booking'[b] = booking[b]
    BY <1>2, <1>5 DEF TypeOK
  <1>7. t.frees \subseteq SessionsOf(r)
    BY <1>1, <1>4, SessionsLocked DEF Leaves, Commands!Vacated
  <1>8. ASSUME NEW s \in Sessions \ t.held
        PROVE  Commands!Holders(s)' = Commands!Holders(s)
    <2>1. w.row.session # s
      BY <1>1, <1>3, <1>4, SessionsLocked
    <2>2. booking[w.id] # None => booking[w.id].session # s
      BY <1>1, <1>3, <1>4, SessionsLocked
    <2> QED
      BY <1>2, <1>6, <2>1, <2>2 DEF Commands!Holders
  <1>9. \A s \in Sessions \ t.held : s \in cancelled' <=> s \in cancelled
    BY <1>3, <1>5, <1>7
  <1>10. conn'[d] = None /\ \A c \in Connections \ {d} : conn'[c] = conn[c]
    BY <1>5 DEF TypeOK
  <1> QED
    BY <1>2, <1>6, <1>8, <1>9, <1>10

\* A commit writes rows of the right type.
LEMMA CommitType ==
    ASSUME TypeOK, NEW d \in Connections, conn[d] # None, Sound(conn[d]), Commit(d)
    PROVE  TypeOK'
  <1> DEFINE t == conn[d]
  <1>1. t \in Transaction /\ t.request \in Commands!Requests
    BY Running
  <1>2. t.write \in Write /\ t.frees \subseteq Sessions
    BY <1>1, CommitFrame DEF Transaction
  <1>3. booking' \in [Bookings -> Commands!BookingRow \cup {None}]
    BY <1>2 DEF Commit, TypeOK, Write
  <1>4. cancelled' \subseteq Sessions
    BY <1>2 DEF Commit, TypeOK
  <1>5. keyed' \in [Commands!Keys -> Commands!Requests \cup {None}]
    <2>1. CASE t.recorded
      <3>1. t.request.key \in Commands!Keys
        BY <1>1, <2>1, RequestShape DEF Sound, KeyKnown
      <3> QED
        BY <1>1, <2>1, <3>1 DEF Commit, TypeOK
    <2>2. CASE ~t.recorded
      BY <2>2 DEF Commit, TypeOK
    <2> QED
      BY <2>1, <2>2
  <1>6. \A c \in Connections : conn'[c] # None => c # d /\ conn'[c] = conn[c]
    BY CommitFrame
  <1>7. conn' \in [Connections -> Transaction \cup {None}]
    BY DEF Commit, TypeOK
  <1> QED
    BY <1>3, <1>4, <1>5, <1>6, <1>7 DEF TypeOK

\* The session of a booking that a transaction locked is not changed by another's commit.
LEMMA CommitSparesSessions ==
    ASSUME TypeOK, NEW c \in Connections, NEW d \in Connections, c # d,
           conn[c] # None, conn[d] # None, Sound(conn[c]), Sound(conn[d]),
           Apart(conn[c], conn[d]), Commit(d), conn[c].at # "begin"
    PROVE  /\ conn[c].request.booking # None =>
                /\ conn[c].request.booking \in Bookings
                /\ booking[conn[c].request.booking] # None
                /\ booking'[conn[c].request.booking] = booking[conn[c].request.booking]
           /\ SessionsOf(conn[c].request)' = SessionsOf(conn[c].request)
  <1> DEFINE t == conn[c]
             r == t.request
             u == conn[d]
  <1>1. t \in Transaction /\ r \in Commands!Requests
    BY Running
  <1>2. u.at = "commit" /\ u.write \in Write /\ u.write # None /\ conn'[c] = t
    BY CommitFrame DEF Commit, At, Sound, Decided
  <1>3. ASSUME r.booking # None
        PROVE  /\ r.booking \in Bookings /\ booking[r.booking] # None
               /\ booking'[r.booking] = booking[r.booking]
    <2>1. r.booking \in Bookings /\ booking[r.booking] # None /\ r.booking \in t.held
      BY <1>1, <1>3, RequestShape DEF Sound, Guarded
    <2>2. r.booking # u.write.id
      <3>1. CASE u.request.booking = None
        BY <1>2, <2>1, <3>1 DEF Sound, Decided
      <3>2. CASE u.request.booking # None
        BY <1>2, <2>1, <3>2 DEF Sound, Decided, Guarded, Apart
      <3> QED
        BY <3>1, <3>2
    <2> QED
      BY <2>1, <2>2, CommitFrame
  <1>4. SessionsOf(r)' = SessionsOf(r)
    BY <1>1, <1>2, <1>3, RequestShape DEF SessionsOf
  <1> QED
    BY <1>3, <1>4

\* What another transaction read stays as it was read.
LEMMA CommitSpares ==
    ASSUME TypeOK, NEW c \in Connections, NEW d \in Connections, c # d,
           conn[c] # None, conn[d] # None, Sound(conn[c]), Sound(conn[d]),
           Apart(conn[c], conn[d]), Commit(d)
    PROVE  Sound(conn[c])'
  <1> DEFINE t == conn[c]
             r == t.request
             u == conn[d]
  <1>1. t \in Transaction /\ r \in Commands!Requests
    BY Running
  <1>2. u \in Transaction /\ u.request \in Commands!Requests
    BY Running
  <1>3. conn'[c] = t
    BY CommitFrame
  <1>4. u.at = "commit" /\ u.write \in Write /\ u.write # None
    BY CommitFrame DEF Commit, At, Sound, Decided
  <1>5. \A b \in Bookings : b # u.write.id => booking'[b] = booking[b]
    BY CommitFrame
  <1>6. ASSUME r.booking # None, t.at # "begin"
        PROVE  /\ r.booking \in Bookings /\ booking[r.booking] # None
               /\ booking'[r.booking] = booking[r.booking]
    BY <1>6, CommitSparesSessions
  <1>7. ASSUME t.at # "begin"
        PROVE  SessionsOf(r)' = SessionsOf(r)
    BY <1>7, CommitSparesSessions
  <1>8. Guarded(t)'
    BY <1>3, <1>6, <1>7 DEF Sound, Guarded
  <1>9. ASSUME NEW s \in SessionsOf(r), s \in Sessions,
               t.at \in {"count", "record", "release", "commit"}
        PROVE  /\ Commands!Holders(s)' = Commands!Holders(s)
               /\ s \in cancelled' <=> s \in cancelled
    <2>1. s \in Sessions \ u.held
      BY <1>9 DEF Sound, Guarded, Apart
    <2> QED
      BY <2>1, CommitFrame
  <1>10. ASSUME \/ t.at \in {"count", "record"}
                \/ t.at = "lock" /\ r.op = "book"
         PROVE  u.request # r
    <2>1. CASE r.op = "book"
      BY <1>4, <1>10, <2>1 DEF Sound, Guarded, Apart
    <2>2. CASE r.booking # None
      BY <1>4, <1>10, <2>2 DEF Sound, Guarded, Apart
    <2>3. CASE r.op = "create"
      BY <1>1, <1>4, <1>10, <2>3, SessionsLocked DEF Sound, Guarded, Apart
    <2> QED
      BY <1>1, <2>1, <2>2, <2>3, RequestShape
  <1>11. /\ u.recorded => u.request.key # None /\ u.request.key \in Commands!Keys
         /\ \A k \in Commands!Keys : \/ keyed'[k] = keyed[k]
                                     \/ /\ u.recorded /\ k = u.request.key
                                        /\ keyed'[k] = u.request
    <2>1. u.recorded => u.request.key # None /\ u.request.key \in Commands!Keys
      BY <1>2, RequestShape DEF Sound, KeyKnown
    <2> QED
      BY <2>1 DEF Commit, TypeOK
  <1>12. KeyKnown(t)'
    <2>1. r.key # None => r.key \in Commands!Keys
      BY <1>1, RequestShape
    <2>2. ASSUME t.at \in {"count", "record"}, r.key # None
          PROVE  keyed'[r.key] # r
      BY <1>10, <1>11, <2>1, <2>2 DEF Sound, KeyKnown
    <2>3. ASSUME t.at = "lock", r.op = "book"
          PROVE  keyed'[r.key] # r
      <3>1. r.key \in Commands!Keys
        BY <1>1, <2>3, RequestShape DEF Commands!Keys
      <3> QED
        BY <1>10, <1>11, <2>3, <3>1 DEF Sound, KeyKnown
    <2>4. ASSUME t.recorded
          PROVE  keyed'[r.key] = None
      BY <1>11, <2>1, <2>4 DEF Sound, KeyKnown, Apart
    <2> QED
      BY <1>3, <2>2, <2>3, <2>4 DEF Sound, KeyKnown
  <1>13. ASSUME t.write # None
         PROVE  /\ Admissible(r)' /\ RowOf(r)' = RowOf(r)
                /\ r.booking = None => booking'[t.write.id] = None
                /\ Leaves(r)' = Leaves(r)
    <2>1. t.at \in {"record", "release", "commit"} /\ Admissible(r)
      BY <1>13 DEF Sound, Decided
    <2>2. r.op # "cancel" => r.to \in SessionsOf(r) /\ r.to \in Sessions
      BY <1>1, SessionsLocked, RequestShape
    <2>3. r.booking # None =>
             /\ booking[r.booking].session \in SessionsOf(r)
             /\ booking[r.booking].session \in Sessions
             /\ booking'[r.booking] = booking[r.booking]
      BY <1>1, <1>6, <2>1, SessionsLocked, Existing
    <2>4. Admissible(r)'
      <3>1. r.op # "cancel" => Commands!HasSeat(r.to)'
        BY <1>3, <1>9, <2>1, <2>2 DEF Admissible, Commands!HasSeat
      <3> QED
        BY <1>1, <2>1, <2>3, <3>1, RequestShape, <1>3 DEF Admissible, Commands!Live
    <2>5. RowOf(r)' = RowOf(r)
      BY <1>1, <2>3, RequestShape, <1>3 DEF RowOf
    <2>6. r.booking = None => booking'[t.write.id] = None
      BY <1>1, <1>4, <1>5, <1>13 DEF Sound, Decided, Apart, Transaction, Write
    <2>7. Leaves(r)' = Leaves(r)
      BY <1>9, <2>1, <2>3, <1>3 DEF Leaves, Commands!Vacated
    <2> QED
      BY <2>4, <2>5, <2>6, <2>7
  <1>14. Decided(t)'
    <2>1. t.at = "commit" => t.write # None
      BY DEF Sound, Decided
    <2> QED
      BY <1>3, <1>13, <2>1 DEF Sound, Decided
  <1> QED
    BY <1>3, <1>8, <1>12, <1>14 DEF Sound

\* A commit is one step of the abstract commands.
LEMMA CommitApplies ==
    ASSUME TypeOK, NEW d \in Connections, conn[d] # None, Sound(conn[d]), Commit(d)
    PROVE  \E r \in Commands!Requests, b \in Bookings : Commands!Apply(r, b)
  <1> DEFINE t == conn[d]
             r == conn[d].request
             b == conn[d].write.id
  <1>1. t \in Transaction /\ r \in Commands!Requests
    BY Running
  <1>2. t.at = "commit" /\ t.write \in Write /\ t.write # None /\ b \in Bookings
    BY CommitFrame DEF Commit, At, Sound, Decided, Write
  <1>3. /\ Admissible(r)
        /\ t.write.row = RowOf(r) /\ t.frees = Leaves(r)
        /\ r.booking = None => booking[b] = None
        /\ r.booking # None => b = r.booking
    BY <1>2 DEF Sound, Decided
  <1>4. /\ booking' = [booking EXCEPT ![b] = RowOf(r)]
        /\ cancelled' = cancelled \cup Leaves(r)
    BY <1>3 DEF Commit
  <1>5. Commands!Keeps(r)
    <2>1. CASE r.key = None
      BY <2>1 DEF Commit, Sound, KeyKnown, Commands!Keeps
    <2>2. CASE r.key # None
      BY <1>2, <2>2 DEF Commit, Sound, KeyKnown, Commands!Keeps
    <2> QED
      BY <2>1, <2>2
  <1>6. CASE r.op \in {"create", "book"}
    <2>1. r.booking = None /\ r.op # "cancel"
      BY <1>1, <1>6, RequestShape
    <2>2. RowOf(r) = [session |-> r.to, live |-> TRUE]
      BY <2>1 DEF RowOf
    <2>3. cancelled' = cancelled
      BY <1>4, <2>1 DEF Leaves
    <2>4. Commands!Seats(r, b)
      BY <1>3, <1>4, <1>6, <2>1, <2>2, <2>3 DEF Commands!Seats, Admissible
    <2> QED
      BY <1>1, <1>2, <1>5, <2>4 DEF Commands!Apply
  <1>7. CASE r.op \in {"move", "reschedule"}
    <2>1. r.booking # None /\ b = r.booking
      BY <1>1, <1>3, <1>7, RequestShape
    <2>2. RowOf(r) = [session |-> r.to, live |-> TRUE]
      BY <1>7 DEF RowOf
    <2>3. Commands!Moves(r, b)
      BY <1>3, <1>4, <1>7, <2>1, <2>2 DEF Commands!Moves, Admissible, Leaves
    <2> QED
      BY <1>1, <1>2, <1>5, <2>3 DEF Commands!Apply
  <1>8. CASE r.op = "cancel"
    <2>1. r.booking # None /\ b = r.booking
      BY <1>1, <1>3, <1>8, RequestShape
    <2>2. RowOf(r) = [session |-> booking[r.booking].session, live |-> FALSE]
      BY <1>8 DEF RowOf
    <2>3. Commands!Cancels(r, b)
      BY <1>3, <1>4, <1>8, <2>1, <2>2 DEF Commands!Cancels, Admissible, Leaves
    <2> QED
      BY <1>1, <1>2, <1>5, <2>3 DEF Commands!Apply
  <1> QED
    BY <1>1, <1>6, <1>7, <1>8, RequestShape

LEMMA CommitKeeps ==
    ASSUME TypeOK, Isolated, NEW d \in Connections, Commit(d)
    PROVE  TypeOK' /\ Isolated'
  <1>1. conn[d] # None /\ Sound(conn[d])
    BY DEF Commit, At, Isolated
  <1>2. conn'[d] = None /\ \A c \in Connections \ {d} : conn'[c] = conn[c]
    BY <1>1, CommitFrame
  <1>3. ASSUME NEW c \in Connections, conn'[c] # None
        PROVE  Sound(conn[c])'
    <2>1. c # d /\ conn[c] # None /\ Sound(conn[c]) /\ Apart(conn[c], conn[d])
      BY <1>1, <1>2, <1>3 DEF Isolated
    <2> QED
      BY <1>1, <2>1, CommitSpares
  <1>4. ASSUME NEW c \in Connections, NEW e \in Connections, c # e,
               conn'[c] # None, conn'[e] # None
        PROVE  Apart(conn[c], conn[e])'
    <2>1. conn'[c] = conn[c] /\ conn'[e] = conn[e]
      BY <1>2, <1>4
    <2>2. Apart(conn[c], conn[e])
      BY <1>4, <2>1 DEF Isolated
    <2> QED
      BY <2>1, <2>2 DEF Apart
  <1> QED
    BY <1>1, <1>3, <1>4, CommitType DEF Isolated

-----------------------------------------------------------------------------
(* Each statement keeps the invariant *)

LEMMA BeginKeeps ==
    ASSUME TypeOK, Isolated, NEW c \in Connections, NEW r \in Commands!Requests, Begin(c, r)
    PROVE  TypeOK' /\ Isolated'
  <1> DEFINE t == [request |-> r, at |-> IF r.op = "create" THEN "lock" ELSE "begin",
                   held |-> {}, write |-> None, recorded |-> FALSE, frees |-> {}]
  <1>1. t \in Transaction
    BY DEF Transaction
  <1>2. Sound(t)
    BY RequestShape DEF Sound, Guarded, KeyKnown, Decided
  <1>3. \A d \in Connections \ {c} : Apart(t, conn[d])
    BY DEF Apart
  <1>4. Goes(c, t)
    BY DEF Begin
  <1> HIDE DEF t
  <1> QED
    BY <1>1, <1>2, <1>3, <1>4, GoesKeeps

LEMMA LockKeyKeeps ==
    ASSUME TypeOK, Isolated, NEW c \in Connections, LockKey(c)
    PROVE  TypeOK' /\ Isolated'
  <1> DEFINE u == conn[c]
             t == [conn[c] EXCEPT !.held = @ \cup {conn[c].request.key}, !.at = "check"]
  <1>1. /\ u # None /\ u \in Transaction /\ u.request \in Commands!Requests
        /\ u.at = "begin" /\ u.request.op = "book" /\ Sound(u)
    BY Running DEF LockKey, At, Op, Isolated
  <1>2. u.request.key \in PublicKeys /\ u.request.booking = None
    BY <1>1, RequestShape
  <1>3. /\ t \in Transaction /\ t.request = u.request /\ t.at = "check"
        /\ t.held = u.held \cup {u.request.key}
        /\ t.write = u.write /\ t.recorded = u.recorded /\ t.frees = u.frees
    BY <1>1, <1>2 DEF Transaction, Rows
  <1>4. Goes(c, t)
    BY DEF LockKey
  <1> HIDE DEF t
  <1>5. Sound(t)
    BY <1>1, <1>2, <1>3 DEF Sound, Guarded, KeyKnown, Decided
  <1>6. ASSUME NEW d \in Connections \ {c}, conn[d] # None
        PROVE  Apart(t, conn[d])
    <2>1. Apart(u, conn[d]) /\ u.request.key \notin conn[d].held
      BY <1>1, <1>6 DEF Isolated, LockKey, LockedByOther
    <2> QED
      BY <1>3, <2>1 DEF Apart
  <1> QED
    BY <1>3, <1>4, <1>5, <1>6, GoesKeeps

LEMMA LockBookingKeeps ==
    ASSUME TypeOK, Isolated, NEW c \in Connections, LockBooking(c)
    PROVE  TypeOK' /\ Isolated'
  <1> DEFINE u == conn[c]
             b == conn[c].request.booking
             t == [conn[c] EXCEPT !.held = @ \cup {b}, !.at = "lock"]
  <1>1. /\ u # None /\ u \in Transaction /\ u.request \in Commands!Requests
        /\ u.at = "begin" /\ u.request.op # "book" /\ Sound(u)
    BY Running DEF LockBooking, At, Op, Isolated
  <1>2. u.request.op # "create" /\ b # None /\ b \in Bookings
    BY <1>1, RequestShape DEF Sound, Guarded
  <1>3. CASE booking[b] = None
    BY <1>3, EndsKeeps DEF LockBooking
  <1>4. CASE booking[b] # None
    <2>1. /\ t \in Transaction /\ t.request = u.request /\ t.at = "lock"
          /\ t.held = u.held \cup {b}
          /\ t.write = u.write /\ t.recorded = u.recorded /\ t.frees = u.frees
      BY <1>1, <1>2 DEF Transaction, Rows
    <2>2. Goes(c, t) /\ ~LockedByOther(c, b)
      BY <1>4 DEF LockBooking
    <2> HIDE DEF t
    <2>3. Sound(t)
      BY <1>1, <1>2, <1>4, <2>1 DEF Sound, Guarded, KeyKnown, Decided
    <2>4. ASSUME NEW d \in Connections \ {c}, conn[d] # None
          PROVE  Apart(t, conn[d])
      <3>1. Apart(u, conn[d]) /\ b \notin conn[d].held
        BY <1>1, <2>2, <2>4 DEF Isolated, LockedByOther
      <3> QED
        BY <2>1, <3>1 DEF Apart
    <2> QED
      BY <2>1, <2>2, <2>3, <2>4, GoesKeeps
  <1> QED
    BY <1>3, <1>4

LEMMA LockSessionKeeps ==
    ASSUME TypeOK, Isolated, NEW c \in Connections, NEW s \in Sessions, LockSession(c, s)
    PROVE  TypeOK' /\ Isolated'
  <1> DEFINE u == conn[c]
             t == [conn[c] EXCEPT !.held = @ \cup {s}]
  <1>1. u # None /\ u \in Transaction /\ u.at = "lock" /\ Sound(u)
    BY Running DEF LockSession, At, Isolated
  <1>2. /\ t \in Transaction /\ t.request = u.request /\ t.at = "lock"
        /\ t.held = u.held \cup {s}
        /\ t.write = u.write /\ t.recorded = u.recorded /\ t.frees = u.frees
    BY <1>1 DEF Transaction, Rows
  <1>3. Goes(c, t) /\ ~LockedByOther(c, s)
    BY DEF LockSession
  <1> HIDE DEF t
  <1>4. Sound(t)
    BY <1>1, <1>2 DEF Sound, Guarded, KeyKnown, Decided
  <1>5. ASSUME NEW d \in Connections \ {c}, conn[d] # None
        PROVE  Apart(t, conn[d])
    <2>1. Apart(u, conn[d]) /\ s \notin conn[d].held
      BY <1>1, <1>3, <1>5 DEF Isolated, LockedByOther
    <2> QED
      BY <1>2, <2>1 DEF Apart
  <1> QED
    BY <1>2, <1>3, <1>4, <1>5, GoesKeeps

\* A statement that only moves on, with the locks and writes it had.
LEMMA MovesOn ==
    ASSUME TypeOK, Isolated, NEW c \in Connections, NEW t \in Transaction, conn[c] # None,
           Goes(c, t), Sound(t), t.request = conn[c].request, t.held = conn[c].held,
           t.write = conn[c].write, t.recorded = conn[c].recorded
    PROVE  TypeOK' /\ Isolated'
  <1>1. \A d \in Connections \ {c} : conn[d] # None => Apart(t, conn[d])
    BY DEF Isolated, Apart
  <1> QED
    BY <1>1, GoesKeeps

LEMMA LockedKeeps ==
    ASSUME TypeOK, Isolated, NEW c \in Connections, Locked(c)
    PROVE  TypeOK' /\ Isolated'
  <1> DEFINE u == conn[c]
             next == IF Op(c) = "book" \/ conn[c].request.key = None
                     THEN "count" ELSE "check"
             t == [conn[c] EXCEPT !.at = next]
  <1>1. /\ u # None /\ u \in Transaction /\ u.request \in Commands!Requests
        /\ u.at = "lock" /\ Sound(u) /\ SessionsOf(u.request) \subseteq u.held
    BY Running DEF Locked, At, Isolated
  <1>2. /\ next \in {"count", "check"}
        /\ next = "count" => u.request.op = "book" \/ u.request.key = None
    BY <1>1, RequestShape DEF Op
  <1>3. Goes(c, t)
    BY DEF Locked
  <1> HIDE DEF next
  <1>4. /\ t \in Transaction /\ t.request = u.request /\ t.at = next /\ t.held = u.held
        /\ t.write = u.write /\ t.recorded = u.recorded /\ t.frees = u.frees
    BY <1>1, <1>2 DEF Transaction
  <1> HIDE DEF t
  <1>5. Sound(t)
    BY <1>1, <1>2, <1>4 DEF Sound, Guarded, KeyKnown, Decided
  <1> QED
    BY <1>1, <1>3, <1>4, <1>5, MovesOn

LEMMA CheckKeyKeeps ==
    ASSUME TypeOK, Isolated, NEW c \in Connections, CheckKey(c)
    PROVE  TypeOK' /\ Isolated'
  <1> DEFINE u == conn[c]
             next == IF Op(c) = "book" THEN "lock" ELSE "count"
             t == [conn[c] EXCEPT !.at = next]
  <1>1. /\ u # None /\ u \in Transaction /\ u.request \in Commands!Requests
        /\ u.at = "check" /\ Sound(u)
    BY Running DEF CheckKey, At, Isolated
  <1>2. CASE keyed[u.request.key] # None
    BY <1>2, EndsKeeps DEF CheckKey
  <1>3. CASE keyed[u.request.key] = None
    <2>1. next \in {"lock", "count"} /\ (next = "count" => u.request.op # "book")
      BY DEF Op
    <2>2. Goes(c, t)
      BY <1>3 DEF CheckKey
    <2>3. keyed[u.request.key] # u.request
      BY <1>1, <1>3, NoneAssumption DEF Commands!NoneAssumption
    <2> HIDE DEF next
    <2>4. /\ t \in Transaction /\ t.request = u.request /\ t.at = next /\ t.held = u.held
          /\ t.write = u.write /\ t.recorded = u.recorded /\ t.frees = u.frees
      BY <1>1, <2>1 DEF Transaction
    <2> HIDE DEF t
    <2>5. Sound(t)
      BY <1>1, <2>1, <2>3, <2>4 DEF Sound, Guarded, KeyKnown, Decided
    <2> QED
      BY <1>1, <2>2, <2>4, <2>5, MovesOn
  <1> QED
    BY <1>2, <1>3

LEMMA DecideKeeps ==
    ASSUME TypeOK, Isolated, NEW c \in Connections, Decide(c)
    PROVE  TypeOK' /\ Isolated'
  <1> DEFINE u == conn[c]
             r == conn[c].request
             next == IF r.key = None THEN "release" ELSE "record"
  <1>1. /\ u # None /\ u \in Transaction /\ r \in Commands!Requests
        /\ u.at = "count" /\ Sound(u)
    BY Running DEF Decide, At, Isolated
  <1>2. CASE ~Admissible(r)
    BY <1>2, EndsKeeps DEF Decide
  <1>3. ASSUME Admissible(r), NEW w \in Write, Writes(r, w),
               Goes(c, [conn[c] EXCEPT !.write = w, !.at = next])
        PROVE  TypeOK' /\ Isolated'
    <2> DEFINE t == [conn[c] EXCEPT !.write = w, !.at = next]
    <2>1. next \in {"release", "record"} /\ (next = "release" <=> r.key = None)
      OBVIOUS
    <2>2. w # None /\ w.id \in Bookings
      BY IdleAssumption DEF Write
    <2> HIDE DEF next
    <2>3. /\ t \in Transaction /\ t.request = r /\ t.at = next /\ t.held = u.held
          /\ t.write = w /\ t.recorded = u.recorded /\ t.frees = u.frees
      BY <1>1, <2>1 DEF Transaction
    <2>4. Goes(c, t)
      BY <1>3
    <2> HIDE DEF t
    <2>5. Sound(t)
      BY <1>1, <1>3, <2>1, <2>2, <2>3 DEF Sound, Guarded, KeyKnown, Decided, Writes, Unused
    <2>6. ASSUME NEW d \in Connections \ {c}, conn[d] # None
          PROVE  Apart(t, conn[d])
      <3>1. Apart(u, conn[d]) /\ Sound(conn[d]) /\ conn[d] \in Transaction
        BY <1>1, <2>6, Running DEF Isolated
      <3>2. ASSUME conn[d].write # None
            PROVE  w.id # conn[d].write.id
        <4>1. CASE r.booking = None
          BY <1>3, <2>6, <3>2, <4>1 DEF Writes, Unused
        <4>2. CASE r.booking # None
          <5>1. w.id = r.booking /\ booking[r.booking] # None /\ r.booking \in u.held
            BY <1>1, <1>3, <4>2 DEF Writes, Sound, Guarded
          <5>2. CASE conn[d].request.booking = None
            BY <3>1, <3>2, <5>1, <5>2 DEF Sound, Decided
          <5>3. CASE conn[d].request.booking # None
            BY <3>1, <3>2, <5>1, <5>3 DEF Sound, Decided, Guarded, Apart
          <5> QED
            BY <5>2, <5>3
        <4> QED
          BY <4>1, <4>2
      <3> QED
        BY <2>3, <3>1, <3>2 DEF Apart
    <2> QED
      BY <2>3, <2>4, <2>5, <2>6, GoesKeeps
  <1> QED
    BY <1>2, <1>3 DEF Decide

LEMMA RecordKeyKeeps ==
    ASSUME TypeOK, Isolated, NEW c \in Connections, RecordKey(c)
    PROVE  TypeOK' /\ Isolated'
  <1> DEFINE u == conn[c]
             t == [conn[c] EXCEPT !.recorded = TRUE, !.at = "release"]
  <1>1. /\ u # None /\ u \in Transaction /\ u.request \in Commands!Requests
        /\ u.at = "record" /\ Sound(u) /\ ~KeyInFlight(c)
    BY Running DEF RecordKey, At, Isolated
  <1>2. CASE keyed[u.request.key] = None
    <2>1. Goes(c, t)
      <3>1. u.request # None
        BY <1>1, NoneAssumption DEF Commands!NoneAssumption
      <3> QED
        BY <1>2, <3>1 DEF RecordKey, Recorded
    <2>2. /\ t \in Transaction /\ t.request = u.request /\ t.at = "release"
          /\ t.held = u.held /\ t.write = u.write /\ t.recorded = TRUE /\ t.frees = u.frees
      BY <1>1 DEF Transaction
    <2> HIDE DEF t
    <2>3. Sound(t)
      BY <1>1, <1>2, <2>2, RequestShape DEF Sound, Guarded, KeyKnown, Decided
    <2>4. ASSUME NEW d \in Connections \ {c}, conn[d] # None
          PROVE  Apart(t, conn[d])
      <3>1. Apart(u, conn[d])
        BY <1>1, <2>4 DEF Isolated
      <3>2. conn[d].recorded => conn[d].request.key # u.request.key
        BY <1>1, <2>4 DEF KeyInFlight
      <3> QED
        BY <2>2, <3>1, <3>2 DEF Apart
    <2> QED
      BY <2>1, <2>2, <2>3, <2>4, GoesKeeps
  <1>3. CASE keyed[u.request.key] # None
    BY <1>1, <1>3, EndsKeeps DEF RecordKey, Sound, KeyKnown
  <1> QED
    BY <1>2, <1>3

LEMMA ReleaseKeeps ==
    ASSUME TypeOK, Isolated, NEW c \in Connections, Release(c)
    PROVE  TypeOK' /\ Isolated'
  <1> DEFINE u == conn[c]
             t == [conn[c] EXCEPT !.frees = Leaves(conn[c].request), !.at = "commit"]
  <1>1. /\ u # None /\ u \in Transaction /\ u.request \in Commands!Requests
        /\ u.at = "release" /\ Sound(u)
    BY Running DEF Release, At, Isolated
  <1>2. Leaves(u.request) \subseteq Sessions
    <2>1. ASSUME u.request.booking # None
          PROVE  booking[u.request.booking].session \in Sessions
      BY <1>1, <2>1, RequestShape, Existing DEF Sound, Guarded
    <2> QED
      BY <2>1 DEF Leaves, Commands!Vacated
  <1>3. Goes(c, t)
    BY DEF Release
  <1>4. /\ t \in Transaction /\ t.request = u.request /\ t.at = "commit" /\ t.held = u.held
        /\ t.write = u.write /\ t.recorded = u.recorded /\ t.frees = Leaves(u.request)
    BY <1>1, <1>2 DEF Transaction
  <1> HIDE DEF t
  <1>5. Sound(t)
    BY <1>1, <1>4 DEF Sound, Guarded, KeyKnown, Decided
  <1> QED
    BY <1>1, <1>3, <1>4, <1>5, MovesOn

LEMMA StepKeeps == TypeOK /\ Isolated /\ [Next]_vars => TypeOK' /\ Isolated'
  <1> SUFFICES ASSUME TypeOK, Isolated, [Next]_vars
               PROVE  TypeOK' /\ Isolated'
    OBVIOUS
  <1>1. CASE UNCHANGED vars
    <2>1. TypeOK'
      BY <1>1 DEF TypeOK, vars
    <2>2. ASSUME NEW c \in Connections, conn'[c] # None
          PROVE  Sound(conn[c])'
      BY <1>1, <2>2, SoundStays DEF Isolated, vars
    <2> QED
      BY <1>1, <2>1, <2>2 DEF Isolated, Apart, vars
  <1>2. ASSUME NEW c \in Connections, Statement(c)
        PROVE  TypeOK' /\ Isolated'
    BY <1>2, LockKeyKeeps, LockBookingKeeps, LockSessionKeeps, LockedKeeps, CheckKeyKeeps,
       DecideKeeps, RecordKeyKeeps, ReleaseKeeps, CommitKeeps DEF Statement
  <1>3. ASSUME NEW c \in Connections, Fail(c)
        PROVE  TypeOK' /\ Isolated'
    BY <1>3, EndsKeeps DEF Fail
  <1> QED
    BY <1>1, <1>2, <1>3, BeginKeeps DEF Next

\* Whatever a transaction has read under its locks still holds when it writes, for any
\* number of connections.
THEOREM Isolation == Spec => [](TypeOK /\ Isolated)
  <1>1. Init => TypeOK /\ Isolated
    BY DEF Init, TypeOK, Isolated, Commands!Init
  <1> QED
    BY <1>1, StepKeeps, PTL DEF Spec

\* Transactions and rows are always of the right type.
THEOREM TypeCorrect == Spec => []TypeOK
  BY Isolation, PTL

-----------------------------------------------------------------------------
(* Commands take effect at their commits *)

\* Only a commit changes the rows that others see.
LEMMA StepApplies ==
    TypeOK /\ Isolated /\ [Next]_vars
    => [Commands!Next]_<<booking, cancelled, keyed>>
  <1> SUFFICES ASSUME TypeOK, Isolated, [Next]_vars
               PROVE  Commands!Next \/ UNCHANGED <<booking, cancelled, keyed>>
    OBVIOUS
  <1>1. CASE UNCHANGED vars
    BY <1>1 DEF vars
  <1>2. ASSUME NEW c \in Connections, Commit(c)
        PROVE  Commands!Next
    <2>1. conn[c] # None /\ Sound(conn[c])
      BY <1>2 DEF Commit, At, Isolated
    <2> QED
      BY <1>2, <2>1, CommitApplies DEF Commands!Next
  <1>3. ASSUME NEW c \in Connections, Statement(c), ~Commit(c)
        PROVE  UNCHANGED <<booking, cancelled, keyed>>
    BY <1>3 DEF Statement, LockKey, LockBooking, LockSession, Locked, CheckKey, Decide,
                RecordKey, Recorded, Release, Goes, Ends
  <1>4. ASSUME NEW c \in Connections, Fail(c) \/ \E r \in Commands!Requests : Begin(c, r)
        PROVE  UNCHANGED <<booking, cancelled, keyed>>
    BY <1>4 DEF Fail, Begin, Goes, Ends
  <1> QED
    BY <1>1, <1>2, <1>3, <1>4 DEF Next

\* Every command takes effect at its commit as if it ran alone, and at most once per
\* idempotency key.
THEOREM TransactionsImplementCommands == Spec => ImplementsCommands
  <1>1. Init => Commands!Init
    BY DEF Init
  <1> QED
    BY <1>1, StepApplies, Isolation, PTL DEF Spec, ImplementsCommands, Commands!Spec

-----------------------------------------------------------------------------
(* What the commands keep *)

\* SeatCommands counts as FiniteSets does.
LEMMA SameCount ==
    ASSUME NEW S
    PROVE  /\ Commands!Cardinality(S) = Cardinality(S)
           /\ Commands!IsFiniteSet(S) <=> IsFiniteSet(S)
  <1>1. Commands!Cardinality(S) = Cardinality(S)
    BY Zenon DEF Cardinality, Commands!Cardinality
  <1>2. Commands!IsFiniteSet(S) <=> IsFiniteSet(S)
    BY Zenon DEF IsFiniteSet, Commands!IsFiniteSet
  <1> QED
    BY <1>1, <1>2

LEMMA CountOfHolders ==
    ASSUME NEW s \in Sessions
    PROVE  /\ IsFiniteSet(Commands!Holders(s)) /\ Cardinality(Commands!Holders(s)) \in Nat
           /\ Capacity[s] \in Nat \ {0}
  <1>1. IsFiniteSet(Bookings) /\ Capacity[s] \in Nat \ {0}
    BY SeatAssumption, SameCount DEF Commands!SeatAssumption
  <1> QED
    BY <1>1, FS_Subset, FS_CardinalityType DEF Commands!Holders

\* One element more stays within a bound that was not reached.
LEMMA OneMore ==
    ASSUME NEW S, NEW T, NEW b, NEW n \in Nat, IsFiniteSet(S), Cardinality(S) <= n,
           \/ T \subseteq S
           \/ T = S \cup {b} /\ Cardinality(S) < n
    PROVE  Cardinality(T) <= n
  <1>1. Cardinality(S) \in Nat
    BY FS_CardinalityType
  <1>2. CASE T \subseteq S
    <2>1. Cardinality(T) \in Nat /\ Cardinality(T) <= Cardinality(S)
      BY <1>2, FS_Subset, FS_CardinalityType
    <2> QED
      BY <1>1, <2>1
  <1>3. CASE T = S \cup {b} /\ Cardinality(S) < n
    <2>1. Cardinality(T) = Cardinality(S) \/ Cardinality(T) = Cardinality(S) + 1
      BY <1>3, FS_AddElement
    <2> QED
      BY <1>1, <1>3, <2>1
  <1> QED
    BY <1>2, <1>3

LEMMA ApplyKeepsSeats ==
    ASSUME TypeOK, SeatsWithinCapacity, NEW r \in Commands!Requests, NEW b \in Bookings,
           Commands!Apply(r, b)
    PROVE  SeatsWithinCapacity'
  <1> SUFFICES ASSUME NEW s \in Sessions, NEW H, NEW K,
                      H = Commands!Holders(s), K = Commands!Holders(s)'
               PROVE  Cardinality(K) <= Capacity[s]
    BY DEF SeatsWithinCapacity
  <1>1. Capacity[s] \in Nat /\ IsFiniteSet(H) /\ Cardinality(H) <= Capacity[s]
    BY CountOfHolders DEF SeatsWithinCapacity
  <1>2. ASSUME \/ K \subseteq H
               \/ K = H \cup {b} /\ Cardinality(H) < Capacity[s]
        PROVE  Cardinality(K) <= Capacity[s]
    BY <1>1, <1>2, OneMore
  <1>3. CASE Commands!Cancels(r, b)
    <2>1. K \subseteq H
      BY <1>3 DEF Commands!Cancels, Commands!Holders, TypeOK
    <2> QED
      BY <2>1, <1>2
  <1>4. CASE Commands!Seats(r, b) \/ Commands!Moves(r, b)
    <2>1. booking' = [booking EXCEPT ![b] = [session |-> r.to, live |-> TRUE]]
          /\ Cardinality(Commands!Holders(r.to)) < Capacity[r.to]
      BY <1>4, SameCount DEF Commands!Seats, Commands!Moves, Commands!HasSeat
    <2>2. s # r.to => K \subseteq H
      BY <2>1 DEF Commands!Holders, TypeOK
    <2>3. s = r.to => K = H \cup {b}
      <3> DEFINE row == [session |-> r.to, live |-> TRUE]
      <3>1. row.session = r.to /\ row.live
        OBVIOUS
      <3>2. s = r.to => row \in Commands!BookingRow
        BY DEF Commands!BookingRow
      <3>3. s = r.to => row # None
        BY <3>2, NoneAssumption DEF Commands!NoneAssumption
      <3>4. booking'[b] = row /\ \A a \in Bookings : a # b => booking'[a] = booking[a]
        BY <2>1 DEF TypeOK
      <3> HIDE DEF row
      <3> QED
        BY <3>1, <3>3, <3>4 DEF Commands!Holders
    <2> QED
      BY <1>2, <2>1, <2>2, <2>3
  <1> QED
    BY <1>3, <1>4 DEF Commands!Apply

\* No session is ever oversold, however many transactions count its seats at once.
THEOREM SeatsKept == Spec => []SeatsWithinCapacity
  <1>1. Init => SeatsWithinCapacity
    <2>1. ASSUME Init, NEW s \in Sessions
          PROVE  Cardinality(Commands!Holders(s)) <= Capacity[s]
      <3>1. Commands!Holders(s) = {}
        BY <2>1 DEF Init, Commands!Init, Commands!Holders
      <3> QED
        BY <3>1, CountOfHolders, FS_EmptySet
    <2> QED
      BY <2>1 DEF SeatsWithinCapacity
  <1>2. /\ TypeOK /\ SeatsWithinCapacity
        /\ [Commands!Next]_<<booking, cancelled, keyed>>
        => SeatsWithinCapacity'
    BY ApplyKeepsSeats DEF Commands!Next, SeatsWithinCapacity, Commands!Holders
  <1> QED
    BY <1>1, <1>2, StepApplies, Isolation, PTL DEF Spec

LEMMA ApplyKeepsOpen ==
    ASSUME TypeOK, HoldersSitOnOpenSessions, NEW r \in Commands!Requests,
           NEW b \in Bookings, Commands!Apply(r, b)
    PROVE  HoldersSitOnOpenSessions'
  <1>1. CASE Commands!Seats(r, b)
    BY <1>1 DEF HoldersSitOnOpenSessions, Commands!Seats, Commands!Live, Commands!HasSeat,
                TypeOK
  <1>2. CASE Commands!Moves(r, b)
    BY <1>2 DEF HoldersSitOnOpenSessions, Commands!Moves, Commands!Live, Commands!HasSeat,
                Commands!Vacated, Commands!Holders, TypeOK
  <1>3. CASE Commands!Cancels(r, b)
    BY <1>3 DEF HoldersSitOnOpenSessions, Commands!Cancels, Commands!Live,
                Commands!Vacated, Commands!Holders, TypeOK
  <1> QED
    BY <1>1, <1>2, <1>3 DEF Commands!Apply

\* A transaction never releases a session that another one is just booking.
THEOREM HoldersKept == Spec => []HoldersSitOnOpenSessions
  <1>1. Init => HoldersSitOnOpenSessions
    BY DEF Init, Commands!Init, HoldersSitOnOpenSessions, Commands!Live
  <1>2. /\ TypeOK /\ HoldersSitOnOpenSessions
        /\ [Commands!Next]_<<booking, cancelled, keyed>>
        => HoldersSitOnOpenSessions'
    BY ApplyKeepsOpen DEF Commands!Next, HoldersSitOnOpenSessions, Commands!Live
  <1> QED
    BY <1>1, <1>2, StepApplies, Isolation, PTL DEF Spec

-----------------------------------------------------------------------------
(* Locks are taken in an order *)

\* A transaction that begins holds no lock; of the sessions it holds only those that its request
\* names, and a move those of them that come first.
Ordered(t) ==
    /\ t.at = "begin" => t.held = {}
    /\ t.held \cap Sessions \subseteq SessionsOf(t.request)
    /\ t.request.op = "move" =>
          \A s \in t.held \cap Sessions, u \in SessionsOf(t.request) \ t.held : s < u

Active == {c \in Connections : conn[c] # None}

InOrder == IsFiniteSet(Active) /\ \A c \in Active : Ordered(conn[c])

\* As long as the bookings stay, so does the order of a transaction's locks.
LEMMA OrderedStays ==
    ASSUME NEW t, Ordered(t), UNCHANGED booking
    PROVE  Ordered(t)'
  BY DEF Ordered, SessionsOf

\* Sessions are numbers, so a request's are.
LEMMA SessionsAreNumbers ==
    ASSUME TypeOK, NEW r \in Commands!Requests,
           r.booking # None => booking[r.booking] # None
    PROVE  SessionsOf(r) \subseteq Sessions /\ Sessions \subseteq Nat
  <1>1. r.booking # None => booking[r.booking].session \in Sessions
    BY RequestShape, Existing
  <1> QED
    BY <1>1, RequestShape, SeatAssumption DEF SessionsOf, Commands!SeatAssumption

LEMMA EndsOrders ==
    ASSUME TypeOK, InOrder, NEW c \in Connections, Ends(c)
    PROVE  InOrder'
  <1>1. \A d \in Connections : conn'[d] # None => d # c /\ conn'[d] = conn[d]
    BY DEF TypeOK, Ends
  <1>2. Active' \subseteq Active
    BY <1>1 DEF Active
  <1>3. ASSUME NEW d \in Active'
        PROVE  Ordered(conn[d])'
    BY <1>1, <1>3, OrderedStays DEF InOrder, Active, Ends
  <1> QED
    BY <1>2, <1>3, FS_Subset DEF InOrder

LEMMA GoesOrders ==
    ASSUME TypeOK, InOrder, NEW c \in Connections, NEW t, Goes(c, t), Ordered(t)
    PROVE  InOrder'
  <1>1. conn'[c] = t /\ \A d \in Connections \ {c} : conn'[d] = conn[d]
    BY DEF TypeOK, Goes
  <1>2. Active' \subseteq Active \cup {c} /\ IsFiniteSet(Active \cup {c})
    BY <1>1, FS_AddElement DEF Active, InOrder
  <1>3. ASSUME NEW d \in Active'
        PROVE  Ordered(conn[d])'
    <2>1. Ordered(conn'[d])
      BY <1>1, <1>3 DEF InOrder, Active
    <2>2. UNCHANGED booking
      BY DEF Goes
    <2> QED
      BY <2>1, <2>2, OrderedStays
  <1> QED
    BY <1>2, <1>3, FS_Subset DEF InOrder

\* A statement that takes no lock.
LEMMA MovesOnOrders ==
    ASSUME TypeOK, InOrder, NEW c \in Connections, NEW t, conn[c] # None, Goes(c, t),
           t.request = conn[c].request, t.held = conn[c].held, t.at # "begin"
    PROVE  InOrder'
  BY GoesOrders DEF InOrder, Active, Ordered

LEMMA CommitOrders ==
    ASSUME TypeOK, Isolated, InOrder, NEW d \in Connections, Commit(d)
    PROVE  InOrder'
  <1>1. conn[d] # None /\ Sound(conn[d])
    BY DEF Commit, At, Isolated
  <1>2. conn'[d] = None /\ \A c \in Connections \ {d} : conn'[c] = conn[c]
    BY <1>1, CommitFrame
  <1>3. Active' \subseteq Active
    BY <1>2 DEF Active
  <1>4. ASSUME NEW c \in Active'
        PROVE  Ordered(conn[c])'
    <2>1. /\ c \in Connections /\ c # d /\ conn[c] # None /\ conn'[c] = conn[c]
          /\ Sound(conn[c]) /\ Apart(conn[c], conn[d]) /\ Ordered(conn[c])
      BY <1>1, <1>2, <1>4 DEF Isolated, InOrder, Active
    <2>2. CASE conn[c].at = "begin"
      BY <2>1, <2>2 DEF Ordered
    <2>3. CASE conn[c].at # "begin"
      <3>1. SessionsOf(conn[c].request)' = SessionsOf(conn[c].request)
        BY <1>1, <2>1, <2>3, CommitSparesSessions
      <3> QED
        BY <2>1, <3>1 DEF Ordered
    <2> QED
      BY <2>2, <2>3
  <1> QED
    BY <1>3, <1>4, FS_Subset DEF InOrder

LEMMA BeginOrders ==
    ASSUME TypeOK, InOrder, NEW c \in Connections, NEW r \in Commands!Requests, Begin(c, r)
    PROVE  InOrder'
  <1> DEFINE t == [request |-> r, at |-> IF r.op = "create" THEN "lock" ELSE "begin",
                   held |-> {}, write |-> None, recorded |-> FALSE, frees |-> {}]
  <1>1. Ordered(t)
    BY DEF Ordered
  <1>2. Goes(c, t)
    BY DEF Begin
  <1> HIDE DEF t
  <1> QED
    BY <1>1, <1>2, GoesOrders

LEMMA LockKeyOrders ==
    ASSUME TypeOK, InOrder, NEW c \in Connections, LockKey(c)
    PROVE  InOrder'
  <1> DEFINE u == conn[c]
             t == [conn[c] EXCEPT !.held = @ \cup {conn[c].request.key}, !.at = "check"]
  <1>1. /\ u # None /\ u \in Transaction /\ u.request \in Commands!Requests
        /\ u.at = "begin" /\ u.request.op = "book" /\ Ordered(u)
    BY Running DEF LockKey, At, Op, InOrder, Active
  <1>2. u.request.key \notin Sessions
    BY <1>1, RequestShape, RowsAssumption
  <1>3. t.request = u.request /\ t.at = "check" /\ t.held = {u.request.key}
    BY <1>1 DEF Transaction, Ordered
  <1>4. Goes(c, t)
    BY DEF LockKey
  <1> HIDE DEF t
  <1>5. Ordered(t)
    BY <1>1, <1>2, <1>3 DEF Ordered
  <1> QED
    BY <1>4, <1>5, GoesOrders

LEMMA LockBookingOrders ==
    ASSUME TypeOK, Isolated, InOrder, NEW c \in Connections, LockBooking(c)
    PROVE  InOrder'
  <1> DEFINE u == conn[c]
             b == conn[c].request.booking
             t == [conn[c] EXCEPT !.held = @ \cup {b}, !.at = "lock"]
  <1>1. /\ u # None /\ u \in Transaction /\ u.request \in Commands!Requests
        /\ u.at = "begin" /\ u.request.op # "book" /\ Ordered(u) /\ Sound(u)
    BY Running DEF LockBooking, At, Op, InOrder, Active, Isolated
  <1>2. b \notin Sessions
    BY <1>1, RequestShape, RowsAssumption DEF Sound, Guarded
  <1>3. t.request = u.request /\ t.at = "lock" /\ t.held = {b}
    BY <1>1 DEF Transaction, Ordered
  <1>4. Ends(c) \/ Goes(c, t)
    BY DEF LockBooking
  <1> HIDE DEF t
  <1>5. Ordered(t)
    BY <1>1, <1>2, <1>3 DEF Ordered
  <1> QED
    BY <1>4, <1>5, GoesOrders, EndsOrders

LEMMA LockSessionOrders ==
    ASSUME TypeOK, InOrder, NEW c \in Connections, NEW s \in Sessions, LockSession(c, s)
    PROVE  InOrder'
  <1> DEFINE u == conn[c]
             t == [conn[c] EXCEPT !.held = @ \cup {s}]
  <1>1. u # None /\ u \in Transaction /\ u.at = "lock" /\ Ordered(u) /\ NextSession(c, s)
    BY Running DEF LockSession, At, InOrder, Active
  <1>2. t.request = u.request /\ t.at = "lock" /\ t.held = u.held \cup {s}
    BY <1>1 DEF Transaction
  <1>3. Goes(c, t)
    BY DEF LockSession
  <1> HIDE DEF t
  <1>4. s \in SessionsOf(u.request)
    BY <1>1 DEF NextSession
  <1>5. ASSUME u.request.op = "move", NEW v \in SessionsOf(u.request) \ (u.held \cup {s})
        PROVE  s < v
    BY <1>1, <1>5 DEF NextSession, Precedes
  <1>6. Ordered(t)
    BY <1>1, <1>2, <1>4, <1>5 DEF Ordered
  <1> QED
    BY <1>3, <1>6, GoesOrders

\* The statements after the locks take no other.
LEMMA StatementOrders ==
    ASSUME TypeOK, InOrder, NEW c \in Connections,
           Locked(c) \/ CheckKey(c) \/ Decide(c) \/ RecordKey(c) \/ Release(c)
    PROVE  InOrder'
  <1> DEFINE u == conn[c]
  <1>1. u # None /\ u \in Transaction
    BY Running DEF Locked, CheckKey, Decide, RecordKey, Release, At
  <1>2. ASSUME NEW at \in {"lock", "check", "count"}, Goes(c, [u EXCEPT !.at = at])
        PROVE  InOrder'
    <2> DEFINE t == [u EXCEPT !.at = at]
    <2>1. t.request = u.request /\ t.held = u.held /\ t.at = at
      BY <1>1 DEF Transaction
    <2>2. Goes(c, t)
      BY <1>2
    <2> HIDE DEF t
    <2> QED
      BY <1>1, <2>1, <2>2, MovesOnOrders
  <1>3. CASE Locked(c) \/ CheckKey(c)
    BY <1>2, <1>3, EndsOrders DEF Locked, CheckKey
  <1>4. CASE Decide(c)
    <2>1. ASSUME NEW w, NEW at \in {"release", "record"},
                 Goes(c, [u EXCEPT !.write = w, !.at = at])
          PROVE  InOrder'
      <3> DEFINE t == [u EXCEPT !.write = w, !.at = at]
      <3>1. t.request = u.request /\ t.held = u.held /\ t.at = at
        BY <1>1 DEF Transaction
      <3>2. Goes(c, t)
        BY <2>1
      <3> HIDE DEF t
      <3> QED
        BY <1>1, <3>1, <3>2, MovesOnOrders
    <2> QED
      BY <1>4, <2>1, EndsOrders DEF Decide
  <1>5. CASE RecordKey(c)
    <2> DEFINE t == [u EXCEPT !.recorded = TRUE, !.at = "release"]
               o == [u EXCEPT !.at = "release"]
    <2>1. /\ t.request = u.request /\ t.held = u.held /\ t.at = "release"
          /\ o.request = u.request /\ o.held = u.held /\ o.at = "release"
      BY <1>1 DEF Transaction
    <2>2. Ends(c) \/ Goes(c, t) \/ Goes(c, o)
      BY <1>5 DEF RecordKey, Recorded
    <2> HIDE DEF t, o
    <2> QED
      BY <1>1, <2>1, <2>2, MovesOnOrders, EndsOrders
  <1>6. CASE Release(c)
    <2> DEFINE t == [u EXCEPT !.frees = Leaves(u.request), !.at = "commit"]
    <2>1. t.request = u.request /\ t.held = u.held /\ t.at = "commit"
      BY <1>1 DEF Transaction
    <2>2. Goes(c, t)
      BY <1>6 DEF Release
    <2> HIDE DEF t
    <2> QED
      BY <1>1, <2>1, <2>2, MovesOnOrders
  <1> QED
    BY <1>3, <1>4, <1>5, <1>6

LEMMA StepOrders == TypeOK /\ Isolated /\ InOrder /\ [Next]_vars => InOrder'
  <1> SUFFICES ASSUME TypeOK, Isolated, InOrder, [Next]_vars
               PROVE  InOrder'
    OBVIOUS
  <1>1. CASE UNCHANGED vars
    <2>1. Active' = Active
      BY <1>1 DEF Active, vars
    <2>2. ASSUME NEW c \in Active'
          PROVE  Ordered(conn[c])'
      BY <1>1, <2>1, <2>2, OrderedStays DEF InOrder, vars
    <2> QED
      BY <2>1, <2>2 DEF InOrder
  <1>2. ASSUME NEW c \in Connections, Statement(c)
        PROVE  InOrder'
    BY <1>2, LockKeyOrders, LockBookingOrders, LockSessionOrders, StatementOrders, CommitOrders
       DEF Statement
  <1>3. ASSUME NEW c \in Connections, Fail(c)
        PROVE  InOrder'
    BY <1>3, EndsOrders DEF Fail
  <1> QED
    BY <1>1, <1>2, <1>3, BeginOrders DEF Next

\* There is one session that a transaction locks next.
LEMMA OneNext ==
    ASSUME TypeOK, NEW c \in Connections, conn[c] # None, Sound(conn[c]), conn[c].at = "lock",
           Op(c) # "reschedule",
           NEW s, NextSession(c, s), NEW u, NextSession(c, u)
    PROVE  s = u /\ s \in Sessions /\ s \in Nat
  <1>1. conn[c].request \in Commands!Requests
    BY Running
  <1>2. SessionsOf(conn[c].request) \subseteq Sessions /\ Sessions \subseteq Nat
    BY <1>1, SessionsAreNumbers DEF Sound, Guarded
  <1>3. s \in SessionsOf(conn[c].request) /\ u \in SessionsOf(conn[c].request)
    BY DEF NextSession
  <1>4. CASE Op(c) = "move"
    <2>1. s # u => s < u /\ u < s
      BY <1>4 DEF NextSession, Precedes, Op
    <2> QED
      BY <1>2, <1>3, <2>1
  <1>5. CASE Op(c) # "move"
    BY <1>1, <1>2, <1>3, <1>5, RequestShape DEF SessionsOf, Op
  <1> QED
    BY <1>4, <1>5

\* A transaction that holds a session and waits for another one holds the smaller of the two.
LEMMA HoldsTheSmaller ==
    ASSUME TypeOK, NEW c \in Connections, conn[c] # None, Sound(conn[c]), Ordered(conn[c]),
           conn[c].at = "lock", Op(c) # "reschedule",
           NEW s \in conn[c].held \cap Sessions, NEW u, NextSession(c, u)
    PROVE  s < u
  <1>1. conn[c].request \in Commands!Requests
    BY Running
  <1>2. /\ s \in SessionsOf(conn[c].request) /\ s \in conn[c].held
        /\ u \in SessionsOf(conn[c].request) /\ u \notin conn[c].held
    BY DEF Ordered, NextSession
  <1>3. Op(c) = "move"
    BY <1>1, <1>2, RequestShape DEF SessionsOf, Op
  <1> QED
    BY <1>2, <1>3 DEF Ordered, Op

LEMMA NoCircle ==
    ASSUME TypeOK, Isolated, InOrder
    PROVE  OnlyReschedulesDeadlock
  <1> SUFFICES ASSUME NEW circle \in SUBSET {c \in Connections : conn[c] # None /\ Op(c) # "reschedule"},
                      circle # {}, \A c \in circle : \E d \in circle : WaitsFor(c, d)
               PROVE  FALSE
    BY DEF OnlyReschedulesDeadlock
  <1>1. \A c \in circle : /\ c \in Connections /\ conn[c] # None /\ Op(c) # "reschedule"
                          /\ Sound(conn[c]) /\ Ordered(conn[c])
    BY DEF Isolated, InOrder, Active
  <1>2. ASSUME NEW c \in circle
        PROVE  conn[c].at \in {"begin", "lock"}
    <2>1. PICK d \in circle : WaitsFor(c, d)
      OBVIOUS
    <2>2. PICK e \in circle : WaitsFor(d, e)
      OBVIOUS
    <2>3. ~conn[d].recorded
      BY <1>1, <2>2 DEF WaitsFor, At, Sound, KeyKnown
    <2> QED
      BY <2>1, <2>3 DEF WaitsFor, At
  <1> DEFINE L == {c \in circle : conn[c].at = "lock"}
             Want(c) == CHOOSE s \in Sessions : NextSession(c, s)
             Above(c) == {d \in L : Want(c) < Want(d)}
  <1>3. ASSUME NEW c \in circle, NEW d \in circle, WaitsFor(c, d)
        PROVE  d \in L
    BY <1>1, <1>2, <1>3 DEF WaitsFor, At, Ordered
  <1>4. L # {}
    BY <1>3
  <1>5. ASSUME NEW c \in L, NEW s, NextSession(c, s)
        PROVE  Want(c) = s /\ s \in Sessions /\ s \in Nat
    <2>1. s \in Sessions
      BY <1>1, <1>5, OneNext
    <2>2. NextSession(c, Want(c))
      BY <1>5, <2>1
    <2> HIDE DEF Want
    <2> QED
      BY <1>1, <1>5, <2>2, OneNext
  <1>6. ASSUME NEW c \in L
        PROVE  \E d \in L : Want(c) < Want(d) /\ Want(c) \in Nat /\ Want(d) \in Nat
    <2>1. PICK d \in circle : WaitsFor(c, d)
      OBVIOUS
    <2>2. d \in L
      BY <1>3, <2>1
    <2>3. PICK s \in conn[d].held : NextSession(c, s)
      BY <2>1 DEF WaitsFor, At
    <2>4. PICK e \in circle : WaitsFor(d, e)
      OBVIOUS
    <2>5. PICK u \in conn[e].held : NextSession(d, u)
      BY <2>2, <2>4 DEF WaitsFor, At
    <2>6. /\ Want(c) = s /\ s \in Sessions /\ s \in Nat
          /\ Want(d) = u /\ u \in Nat
      BY <1>5, <2>2, <2>3, <2>5
    <2>7. s < u
      BY <1>1, <2>2, <2>3, <2>5, <2>6, HoldsTheSmaller
    <2> QED
      BY <2>2, <2>6, <2>7
  <1> DEFINE T == {Above(c) : c \in L}
  <1>7. IsFiniteSet(L)
    <2>1. L \in SUBSET Active
      BY DEF Active
    <2> QED
      BY <2>1, FS_Subset DEF InOrder
  <1>8. T \subseteq FiniteSubsetsOf(L) /\ T # {}
    <2>1. \A S \in SUBSET L : IsFiniteSet(S)
      BY <1>7, FS_Subset
    <2>2. \A c \in L : Above(c) \in SUBSET L
      OBVIOUS
    <2>3. \A c \in L : Above(c) \in FiniteSubsetsOf(L)
      BY <2>1, <2>2 DEF FiniteSubsetsOf
    <2> HIDE DEF Above, L
    <2> QED
      BY <1>4, <2>3
  <1> HIDE DEF Want
  <1>9. PICK X \in T : \A Y \in T : <<Y, X>> \notin StrictSubsetOrdering(L)
    <2> HIDE DEF L, T
    <2> QED
      BY <1>8, FS_StrictSubsetOrderingWellFounded, WFMin
  <1>10. PICK c \in L : X = Above(c)
    OBVIOUS
  <1>11. PICK d \in L : Want(c) < Want(d) /\ Want(c) \in Nat /\ Want(d) \in Nat
    BY <1>6
  <1>12. \A e \in L : Want(e) \in Nat
    BY <1>6
  <1> HIDE DEF L
  <1>13. /\ Above(d) \subseteq Above(c) /\ d \in Above(c) /\ d \notin Above(d)
         /\ Above(d) \in T /\ Above(c) \in SUBSET L /\ Above(d) \in SUBSET L
    BY <1>11, <1>12
  <1> QED
    BY <1>9, <1>10, <1>13 DEF StrictSubsetOrdering

\* "Lock both sessions in id order so two opposite moves cannot deadlock"
\* (bookings/repository.py:322): among any number of transactions of the module, none but those
\* of customers' reschedules can close a circle of waiting.
THEOREM OnlyReschedulesCloseCircles == Spec => []OnlyReschedulesDeadlock
  <1>1. Init => InOrder
    <2>1. Init => Active = {}
      BY DEF Init, Active
    <2> QED
      BY <2>1, FS_EmptySet DEF InOrder
  <1>2. Spec => [](TypeOK /\ Isolated /\ InOrder)
    BY <1>1, Isolation, StepOrders, PTL DEF Spec
  <1> QED
    BY <1>2, NoCircle, PTL
=============================================================================
