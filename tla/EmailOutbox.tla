---------------------------- MODULE EmailOutbox ----------------------------
(***************************************************************************)
(* The transactional email outbox: rows that commands of the application   *)
(* commit, and worker processes that claim a row, post it to the mail      *)
(* provider and record the outcome (email/worker.py, email/repository.py   *)
(* and the functions slotera_email_* of the migrations).  One action per   *)
(* committed transaction, per answer of the provider and per crash.        *)
(*                                                                         *)
(* Abstracted: durations.  A lease of five minutes may run out, and a      *)
(* backoff of 30 * 2^attempts seconds (an hour at most) elapse, at any     *)
(* moment; a worker may take any time.  A claim takes the oldest row, but  *)
(* passes over rows that a transaction in flight has locked (SKIP LOCKED), *)
(* so any claimable row may be the one.  A posted request carries the id   *)
(* of the message as its idempotency key; the provider is external.        *)
(***************************************************************************)
EXTENDS Naturals, FiniteSets

CONSTANTS Messages,      \* ids of outbox rows, a pool
          Credentials,   \* those that carry a one-time link, the others are booking mail
          Workers,
          MaxAttempts,   \* 10 in the code
          None,          \* a row that was not queued yet, a worker with nothing to do
          Gone           \* a row that was deleted

ASSUME OutboxAssumption ==
    /\ Credentials \subseteq Messages
    /\ IsFiniteSet(Workers)
    /\ MaxAttempts \in Nat

VARIABLES outbox,      \* id -> row of email_outbox
          worker,      \* what each worker process has in memory
          accepted,    \* external: the messages that the provider has taken over
          requests,    \* history: how often each message was posted
          lapsed       \* history: the messages whose lease ran out

vars == <<outbox, worker, accepted, requests, lapsed>>

OutboxRow == [claim: {"free", "leased", "expired"},   \* claimed_at
              waiting: BOOLEAN,                       \* available_at is to come
              attempts: 0..MaxAttempts,
              sent: BOOLEAN,
              body: {"full", "delivered", "consumed", "erased"}]

Task == [message: Messages, phase: {"claimed", "accepted", "failed"}]

ASSUME NullAssumption == None \notin OutboxRow \cup Task /\ Gone \notin OutboxRow \cup {None}

TypeOK == /\ outbox \in [Messages -> OutboxRow \cup {None, Gone}]
          /\ worker \in [Workers -> Task \cup {None}]
          /\ accepted \subseteq Messages
          /\ requests \in [Messages -> Nat]
          /\ lapsed \subseteq Messages

Init == /\ outbox = [m \in Messages |-> None]
        /\ worker = [w \in Workers |-> None]
        /\ accepted = {}
        /\ requests = [m \in Messages |-> 0]
        /\ lapsed = {}

-----------------------------------------------------------------------------
(* Commands of the application *)

Row(m) == outbox[m] \notin {None, Gone}
Unsent(m) == Row(m) /\ ~outbox[m].sent

NewRow == [claim |-> "free", waiting |-> FALSE, attempts |-> 0,
           sent |-> FALSE, body |-> "full"]

Enqueue(m) == /\ outbox[m] = None
              /\ outbox' = [outbox EXCEPT ![m] = NewRow]
              /\ UNCHANGED <<worker, accepted, requests, lapsed>>

\* A used link leaves the queue if its mail has not left it; the link is known only
\* from the mail.
ConsumeCredential(m) ==
    /\ m \in Credentials /\ m \in accepted /\ Unsent(m)
    /\ outbox' = [outbox EXCEPT ![m].sent = TRUE, ![m].body = "consumed"]
    /\ UNCHANGED <<worker, accepted, requests, lapsed>>

\* Erasing a client deletes their unsent booking mail and blanks what was sent.
EraseClient(mails) ==
    /\ outbox' = [m \in Messages |->
                    IF m \notin mails \/ ~Row(m) THEN outbox[m]
                    ELSE IF Unsent(m) THEN Gone
                    ELSE [outbox[m] EXCEPT !.body = "erased"]]
    /\ UNCHANGED <<worker, accepted, requests, lapsed>>

\* Purging a closed workspace deletes its unsent booking mail.
PurgeWorkspace(mails) ==
    /\ outbox' = [m \in Messages |->
                    IF m \in mails /\ Unsent(m) THEN Gone ELSE outbox[m]]
    /\ UNCHANGED <<worker, accepted, requests, lapsed>>

\* Maintenance deletes what was sent more than 30 days ago.
CleanUp(old) ==
    /\ outbox' = [m \in Messages |->
                    IF m \in old /\ Row(m) /\ ~Unsent(m) THEN Gone ELSE outbox[m]]
    /\ UNCHANGED <<worker, accepted, requests, lapsed>>

-----------------------------------------------------------------------------
(* The worker *)

\* Mutant of Claimable: one attempt too many.
ClaimableOnceMore(m) == /\ Unsent(m)
                        /\ ~outbox[m].waiting
                        /\ outbox[m].claim # "leased"
                        /\ outbox[m].attempts <= MaxAttempts

\* Mutant of Claimable: does not look at the lease.
ClaimableUnderLease(m) == /\ Unsent(m)
                          /\ ~outbox[m].waiting
                          /\ outbox[m].attempts < MaxAttempts

\* Mutant of Claimable: never takes over the claim of a dead worker.
ClaimableWhenFree(m) == /\ Unsent(m)
                        /\ ~outbox[m].waiting
                        /\ outbox[m].claim = "free"
                        /\ outbox[m].attempts < MaxAttempts

Claimable(m) == /\ Unsent(m)
                /\ ~outbox[m].waiting
                /\ outbox[m].claim # "leased"
                /\ outbox[m].attempts < MaxAttempts

\* Mutant of Claim: leaves counting the attempt to its outcome.
ClaimUncounted(w, m) ==
    /\ worker[w] = None
    /\ Claimable(m)
    /\ outbox' = [outbox EXCEPT ![m].claim = "leased"]
    /\ worker' = [worker EXCEPT ![w] = [message |-> m, phase |-> "claimed"]]
    /\ UNCHANGED <<accepted, requests, lapsed>>

Claim(w, m) ==
    /\ worker[w] = None
    /\ Claimable(m)
    /\ outbox' = [outbox EXCEPT ![m].claim = "leased", ![m].attempts = @ + 1]
    /\ worker' = [worker EXCEPT ![w] = [message |-> m, phase |-> "claimed"]]
    /\ UNCHANGED <<accepted, requests, lapsed>>

Doing(w, phase) == worker[w] # None /\ worker[w].phase = phase

\* The provider takes the message and answers, its answer is lost, or it refuses.
Post(w, answer) ==
    /\ Doing(w, "claimed")
    /\ LET m == worker[w].message
       IN  /\ requests' = [requests EXCEPT ![m] = @ + 1]
           /\ accepted' = IF answer = "refused" THEN accepted ELSE accepted \cup {m}
    /\ worker' = [worker EXCEPT ![w].phase = IF answer = "ok" THEN "accepted" ELSE "failed"]
    /\ UNCHANGED <<outbox, lapsed>>

\* Rendering raises, or no request goes out.
RenderFails(w) ==
    /\ Doing(w, "claimed")
    /\ worker' = [worker EXCEPT ![w].phase = "failed"]
    /\ UNCHANGED <<outbox, accepted, requests, lapsed>>

\* Mutant of MarkSent: records over a credential that was used meanwhile.
MarkSentAgain(w) ==
    /\ Doing(w, "accepted")
    /\ LET m == worker[w].message
       IN  outbox' = IF Row(m)
                     THEN [outbox EXCEPT ![m].sent = TRUE, ![m].claim = "free",
                                         ![m].body = "delivered"]
                     ELSE outbox
    /\ worker' = [worker EXCEPT ![w] = None]
    /\ UNCHANGED <<accepted, requests, lapsed>>

\* Both records touch only an unsent row, but do not ask whose claim it is.
MarkSent(w) ==
    /\ Doing(w, "accepted")
    /\ LET m == worker[w].message
       IN  outbox' = IF Unsent(m)
                     THEN [outbox EXCEPT ![m].sent = TRUE, ![m].claim = "free",
                                         ![m].body = "delivered"]
                     ELSE outbox
    /\ worker' = [worker EXCEPT ![w] = None]
    /\ UNCHANGED <<accepted, requests, lapsed>>

MarkFailed(w) ==
    /\ Doing(w, "failed")
    /\ LET m == worker[w].message
       IN  outbox' = IF Unsent(m)
                     THEN [outbox EXCEPT ![m].claim = "free", ![m].waiting = TRUE]
                     ELSE outbox
    /\ worker' = [worker EXCEPT ![w] = None]
    /\ UNCHANGED <<accepted, requests, lapsed>>

\* The process dies, by itself or because the database failed it, and is restarted.
Crash(w) == /\ worker[w] # None
            /\ worker' = [worker EXCEPT ![w] = None]
            /\ UNCHANGED <<outbox, accepted, requests, lapsed>>

-----------------------------------------------------------------------------
(* Time *)

LeaseRunsOut(m) == /\ Unsent(m) /\ outbox[m].claim = "leased"
                   /\ outbox' = [outbox EXCEPT ![m].claim = "expired"]
                   /\ lapsed' = lapsed \cup {m}
                   /\ UNCHANGED <<worker, accepted, requests>>

BackoffElapses(m) == /\ Unsent(m) /\ outbox[m].waiting
                     /\ outbox' = [outbox EXCEPT ![m].waiting = FALSE]
                     /\ UNCHANGED <<worker, accepted, requests, lapsed>>

-----------------------------------------------------------------------------

WorkerStep(w) ==
    \/ \E m \in Messages : Claim(w, m)
    \/ \E answer \in {"ok", "lost", "refused"} : Post(w, answer)
    \/ RenderFails(w)
    \/ MarkSent(w)
    \/ MarkFailed(w)

Next == \/ \E m \in Messages : Enqueue(m) \/ ConsumeCredential(m)
        \/ \E mails \in SUBSET (Messages \ Credentials) :
              EraseClient(mails) \/ PurgeWorkspace(mails)
        \/ \E old \in SUBSET Messages : CleanUp(old)
        \/ \E w \in Workers : WorkerStep(w) \/ Crash(w)
        \/ \E m \in Messages : LeaseRunsOut(m) \/ BackoffElapses(m)

Spec == Init /\ [][Next]_vars

\* A worker polls for as long as it lives and its container is restarted when it
\* dies; leases and backoffs are finite.
FairSpec == /\ Spec
            /\ \A w \in Workers : WF_vars(WorkerStep(w))
            /\ \A m \in Messages : WF_vars(LeaseRunsOut(m)) /\ WF_vars(BackoffElapses(m))

-----------------------------------------------------------------------------
(* Properties *)

\* Across crashes, retries and overtaken leases each message moves as MailDelivery
\* allows: recorded as delivered only after the provider accepted it, never back into
\* the queue, a used credential never recorded as delivered.
Place(r) == CASE r = None -> "none"
              [] r = Gone -> "deleted"
              [] OTHER -> IF ~r.sent THEN "queued"
                          ELSE IF r.body = "consumed" THEN "used" ELSE "delivered"

Delivery == INSTANCE MailDelivery WITH mail <-
        [m \in Messages |-> [place |-> Place(outbox[m]), accepted |-> m \in accepted]]

ImplementsDelivery == Delivery!Spec

\* "The database applies bounded exponential retry timing" (email/worker.py:74): however
\* often workers die or overtake each other, a message is posted at most MaxAttempts times.
AttemptBudget == \A m \in Messages : requests[m] <= MaxAttempts

\* Claims work with SKIP LOCKED and a lease (docs/DEPLOYMENT.md:21): two workers have the
\* same message in hand only if one of its leases ran out.
Holding(m) == {w \in Workers : worker[w] # None /\ worker[w].message = m}

ExclusiveWithinLease ==
    \A m \in Messages : m \notin lapsed =>
        \A v, w \in Holding(m) : v = w

\* Whatever crashes, a queued message does not stay behind: it is recorded as sent,
\* withdrawn, or was attempted MaxAttempts times.
Settled(m) == ~Unsent(m) \/ outbox[m].attempts = MaxAttempts

Settles == \A m \in Messages : Unsent(m) ~> Settled(m)
=============================================================================
