------------------------- MODULE MCSeatTransactions -------------------------
(***************************************************************************)
(* SeatTransactions for TLC, in one of two parts: three transactions at a  *)
(* time that ask for the two sessions of one seat, or two at a time that   *)
(* ask for the public ones, 2 and 3, the latter of two seats.              *)
(***************************************************************************)
EXTENDS SeatTransactions, Naturals, FiniteSets, TLC

VARIABLE part

OneSeatOrTwo == [s \in Sessions |-> IF s = 3 THEN 2 ELSE 1]

Symmetry == Permutations(Bookings) \cup Permutations(Connections)

Running == {c \in Connections : conn[c] # None}

Bounded ==
    IF part = "three" THEN \A c \in Running : conn[c].request.to # 3
    ELSE Cardinality(Running) <= 2 /\ \A c \in Running : conn[c].request.to # 1

PartsInit == Init /\ part \in {"three", "two"}

PartsNext == Next /\ UNCHANGED part /\ Bounded'

PartsSpec == PartsInit /\ [][PartsNext]_<<vars, part>>
=============================================================================
