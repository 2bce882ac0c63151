-------------------------- MODULE MCBookingLedger --------------------------
(* Small instances of BookingLedger for TLC. *)
EXTENDS BookingLedger, TLC

Symmetric == Permutations(Bookings) \cup Permutations(Sessions)
                                    \cup Permutations(Services)
=============================================================================
