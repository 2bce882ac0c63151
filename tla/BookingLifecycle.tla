-------------------------- MODULE BookingLifecycle --------------------------
(***************************************************************************)
(* What a booking promises, whatever sessions, seats and clocks do: three  *)
(* state machines (lifecycle, payment, approval) that move together only   *)
(* at the confirmation gate, at a decline and at a payment expiry.  The    *)
(* ledger in BookingLedger implements this specification.                  *)
(***************************************************************************)

CONSTANT Bookings

VARIABLE life       \* the lifecycle, payment and approval of every booking

Absent == [status |-> "none", payment |-> "none", approval |-> "none"]

\* _confirmation_ready: both gates stand open.
GatesPassed(r) == /\ r.payment \in {"free", "paid"}
                  /\ r.approval \in {"not_required", "approved"}

\* A booking is pending for as long as a gate is shut and confirmed by the
\* command that opens the last one.
Awaits(n) == n.status = IF GatesPassed(n) THEN "confirmed" ELSE "pending"

\* The public page confirms at once when no gate is shut; an operator's booking
\* may stay pending until the explicit confirm.
Books(r, n) == /\ r = Absent
               /\ n.payment \in {"free", "pending"}
               /\ n.approval \in {"not_required", "pending"}
               /\ n.status = "pending" \/ (n.status = "confirmed" /\ GatesPassed(n))

Pays(r, n) == /\ r.status = "pending" /\ r.payment = "pending"
              /\ n.payment = "paid" /\ n.approval = r.approval
              /\ Awaits(n)

Approves(r, n) == /\ r.status = "pending" /\ r.approval = "pending"
                  /\ n.approval = "approved" /\ n.payment = r.payment
                  /\ Awaits(n)

Declines(r, n) == /\ r.status = "pending" /\ r.approval = "pending"
                  /\ n.approval = "declined" /\ n.payment = r.payment
                  /\ n.status = "cancelled"

Confirms(r, n) == /\ r.status = "pending" /\ GatesPassed(r)
                  /\ n = [r EXCEPT !.status = "confirmed"]

\* A cancellation refunds nothing and answers no approval request.
Cancels(r, n) == /\ r.status \in {"pending", "confirmed"}
                 /\ n = [r EXCEPT !.status = "cancelled"]

Expires(r, n) == /\ r.status = "pending" /\ r.payment = "pending"
                 /\ n.payment = "overdue" /\ n.approval = r.approval
                 /\ n.status = "cancelled"

Finishes(r, n) == /\ r.status = "confirmed"
                  /\ \E outcome \in {"completed", "noshow"} :
                       n = [r EXCEPT !.status = outcome]

Step(r, n) == \/ n = r
              \/ Books(r, n) \/ Pays(r, n) \/ Approves(r, n) \/ Declines(r, n)
              \/ Confirms(r, n) \/ Cancels(r, n) \/ Expires(r, n) \/ Finishes(r, n)

Init == life = [b \in Bookings |-> Absent]

\* One transaction of the ledger may move several bookings (an expiry sweep).
Next == \A b \in Bookings : Step(life[b], life'[b])

Spec == Init /\ [][Next]_life
=============================================================================
