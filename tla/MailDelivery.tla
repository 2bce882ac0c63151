---------------------------- MODULE MailDelivery ----------------------------
(***************************************************************************)
(* What the outbox promises about each message, whatever workers, leases   *)
(* and lost answers do: a queued message is recorded as delivered only     *)
(* after the mail provider accepted it, and leaves the queue only once.    *)
(* EmailOutbox implements this specification.                              *)
(***************************************************************************)

CONSTANT Messages

VARIABLE mail       \* per message: its place, and whether the provider has it

NotQueued == [place |-> "none", accepted |-> FALSE]

Queues(r, n) == r = NotQueued /\ n = [r EXCEPT !.place = "queued"]

\* The provider may accept a message that was withdrawn while it was in flight.
Accepts(r, n) == /\ r.place # "none"
                 /\ n = [place |-> r.place, accepted |-> TRUE]

Delivers(r, n) == /\ r.place = "queued" /\ r.accepted
                  /\ n = [r EXCEPT !.place = "delivered"]

\* A credential was used: only a customer who has the mail can do that.
Uses(r, n) == /\ r.place = "queued" /\ r.accepted
              /\ n = [r EXCEPT !.place = "used"]

\* The row is deleted: its client was erased, its workspace purged, or it is old.
Deletes(r, n) == r.place # "none" /\ n = [r EXCEPT !.place = "deleted"]

Step(r, n) == \/ n = r
              \/ Queues(r, n) \/ Accepts(r, n) \/ Delivers(r, n)
              \/ Uses(r, n) \/ Deletes(r, n)

Init == mail = [m \in Messages |-> NotQueued]

Next == \A m \in Messages : Step(mail[m], mail'[m])

Spec == Init /\ [][Next]_mail
=============================================================================
