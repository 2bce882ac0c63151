------------------------- MODULE EmailOutboxProofs -------------------------
(* What the outbox keeps for every pool of messages, every number of       *)
(* workers and every limit of attempts.                                    *)
EXTENDS EmailOutbox, FiniteSetTheorems, TLAPS

-----------------------------------------------------------------------------
(* Rows and tasks *)

\* A row that exists is a typed record.
LEMMA TypedRow ==
    ASSUME TypeOK, NEW m \in Messages, Row(m)
    PROVE  outbox[m] \in OutboxRow
  BY DEF TypeOK, Row

\* A worker that is doing something has a message in hand.
LEMMA TypedTask ==
    ASSUME TypeOK, NEW w \in Workers, worker[w] # None
    PROVE  worker[w] \in Task /\ worker[w].message \in Messages
  BY DEF TypeOK, Task

-----------------------------------------------------------------------------
(* What the actions write *)

\* A row apart from what an action changes of it.
LEMMA EnqueueEffect ==
    ASSUME TypeOK, NEW m \in Messages, Enqueue(m)
    PROVE  /\ outbox[m] = None
           /\ outbox'[m] \in OutboxRow /\ outbox'[m].attempts = 0 /\ ~outbox'[m].sent
           /\ outbox'[m].body = "full"
           /\ \A n \in Messages : n # m => outbox'[n] = outbox[n]
  <1>1. NewRow \in OutboxRow /\ NewRow.attempts = 0 /\ ~NewRow.sent /\ NewRow.body = "full"
    BY OutboxAssumption DEF NewRow, OutboxRow
  <1> QED
    BY <1>1 DEF Enqueue, TypeOK

LEMMA ConsumeEffect ==
    ASSUME TypeOK, NEW m \in Messages, ConsumeCredential(m)
    PROVE  /\ outbox[m] \in OutboxRow /\ ~outbox[m].sent /\ m \in accepted
           /\ outbox'[m] \in OutboxRow /\ outbox'[m].attempts = outbox[m].attempts
           /\ outbox'[m].sent /\ outbox'[m].body = "consumed"
           /\ \A n \in Messages : n # m => outbox'[n] = outbox[n]
  <1> DEFINE row == [outbox[m] EXCEPT !.sent = TRUE, !.body = "consumed"]
  <1>1. outbox[m] \in OutboxRow /\ ~outbox[m].sent /\ m \in accepted
    BY TypedRow DEF ConsumeCredential, Unsent
  <1>2. /\ row \in OutboxRow /\ row.attempts = outbox[m].attempts
        /\ row.sent /\ row.body = "consumed"
    BY <1>1 DEF OutboxRow
  <1>3. outbox' = [outbox EXCEPT ![m] = row]
    BY DEF ConsumeCredential, TypeOK
  <1> HIDE DEF row
  <1> QED
    BY <1>1, <1>2, <1>3 DEF TypeOK

\* Erasure, purge and maintenance delete rows; erasure blanks sent booking mail.
LEMMA DeleteEffect ==
    ASSUME TypeOK, NEW mails \in SUBSET Messages, NEW m \in Messages,
           \/ EraseClient(mails) /\ mails \cap Credentials = {}
           \/ PurgeWorkspace(mails) \/ CleanUp(mails)
    PROVE  \/ outbox'[m] = outbox[m]
           \/ Row(m) /\ outbox'[m] = Gone
           \/ /\ m \notin Credentials
              /\ outbox[m] \in OutboxRow /\ outbox[m].sent
              /\ outbox'[m] \in OutboxRow /\ outbox'[m].attempts = outbox[m].attempts
              /\ outbox'[m].sent /\ outbox'[m].body = "erased"
  <1>1. CASE EraseClient(mails) /\ mails \cap Credentials = {}
    <2> DEFINE row == [outbox[m] EXCEPT !.body = "erased"]
    <2>1. Row(m) /\ ~Unsent(m) =>
             /\ outbox[m] \in OutboxRow /\ outbox[m].sent
             /\ row \in OutboxRow /\ row.attempts = outbox[m].attempts
             /\ row.sent /\ row.body = "erased"
      BY TypedRow DEF OutboxRow, Unsent
    <2>2. \/ outbox'[m] = outbox[m]
          \/ Row(m) /\ outbox'[m] = Gone
          \/ Row(m) /\ ~Unsent(m) /\ m \in mails /\ outbox'[m] = row
      BY <1>1 DEF EraseClient, Unsent
    <2> HIDE DEF row
    <2> QED
      BY <1>1, <2>1, <2>2
  <1>2. CASE PurgeWorkspace(mails) \/ CleanUp(mails)
    BY <1>2 DEF PurgeWorkspace, CleanUp, Unsent
  <1> QED
    BY <1>1, <1>2

LEMMA ClaimEffect ==
    ASSUME TypeOK, NEW w \in Workers, NEW m \in Messages, Claim(w, m)
    PROVE  /\ outbox[m] \in OutboxRow /\ ~outbox[m].sent
           /\ outbox[m].attempts < MaxAttempts
           /\ outbox'[m] \in OutboxRow /\ outbox'[m].attempts = outbox[m].attempts + 1
           /\ ~outbox'[m].sent /\ outbox'[m].claim = "leased"
           /\ outbox'[m].body = outbox[m].body
           /\ \A n \in Messages : n # m => outbox'[n] = outbox[n]
           /\ worker[w] = None
           /\ worker'[w] # None
           /\ worker'[w].message = m /\ worker'[w].phase = "claimed"
           /\ \A v \in Workers : v # w => worker'[v] = worker[v]
  <1> DEFINE row == [outbox[m] EXCEPT !.claim = "leased", !.attempts = @ + 1]
             task == [message |-> m, phase |-> "claimed"]
  <1>1. outbox[m] \in OutboxRow /\ ~outbox[m].sent
    BY TypedRow DEF Claim, Claimable, Unsent
  <1>2. outbox[m].attempts \in 0..MaxAttempts /\ outbox[m].attempts < MaxAttempts
    BY <1>1 DEF OutboxRow, Claim, Claimable
  <1>3. outbox[m].attempts + 1 \in 0..MaxAttempts
    BY <1>2, OutboxAssumption
  <1>4. /\ row \in OutboxRow /\ row.attempts = outbox[m].attempts + 1
        /\ ~row.sent /\ row.claim = "leased" /\ row.body = outbox[m].body
    BY <1>1, <1>3 DEF OutboxRow
  <1>5. outbox' = [outbox EXCEPT ![m] = row]
    BY DEF Claim, TypeOK
  <1>6. task \in Task /\ task # None /\ task.message = m /\ task.phase = "claimed"
    BY NullAssumption DEF Task
  <1> HIDE DEF row
  <1> QED
    BY <1>1, <1>2, <1>4, <1>5, <1>6 DEF Claim, TypeOK

\* Posting and rendering change the phase of the task in hand.
LEMMA PhaseEffect ==
    ASSUME TypeOK, NEW w \in Workers,
           RenderFails(w) \/ \E answer \in {"ok", "lost", "refused"} : Post(w, answer)
    PROVE  /\ worker[w] # None /\ worker[w].phase = "claimed"
           /\ worker'[w] # None
           /\ worker'[w].message = worker[w].message
           /\ worker'[w].phase # "claimed"
           /\ \A v \in Workers : v # w => worker'[v] = worker[v]
           /\ outbox' = outbox
  <1> DEFINE accept == [worker[w] EXCEPT !.phase = "accepted"]
             fail == [worker[w] EXCEPT !.phase = "failed"]
  <1>1. worker[w] # None /\ worker[w].phase = "claimed" /\ worker[w] \in Task
    BY TypedTask DEF RenderFails, Post, Doing
  <1>2. /\ accept \in Task /\ accept.message = worker[w].message /\ accept.phase = "accepted"
        /\ fail \in Task /\ fail.message = worker[w].message /\ fail.phase = "failed"
    BY <1>1 DEF Task
  <1>3. worker' = [worker EXCEPT ![w] = accept] \/ worker' = [worker EXCEPT ![w] = fail]
    BY DEF RenderFails, Post, TypeOK
  <1>4. accept # None /\ fail # None
    BY <1>2, NullAssumption
  <1> HIDE DEF accept, fail
  <1> QED
    BY <1>1, <1>2, <1>3, <1>4 DEF TypeOK, RenderFails, Post

\* Recording an outcome touches the row of the task in hand, if that is unsent.
LEMMA MarkEffect ==
    ASSUME TypeOK, NEW w \in Workers, MarkSent(w) \/ MarkFailed(w)
    PROVE  /\ worker[w] # None /\ worker[w].message \in Messages
           /\ worker'[w] = None
           /\ \A v \in Workers : v # w => worker'[v] = worker[v]
           /\ \A n \in Messages : n # worker[w].message => outbox'[n] = outbox[n]
           /\ \/ outbox' = outbox
              \/ LET m == worker[w].message
                 IN  /\ outbox[m] \in OutboxRow /\ ~outbox[m].sent
                     /\ outbox'[m] \in OutboxRow
                     /\ outbox'[m].attempts = outbox[m].attempts
                     /\ \/ ~outbox'[m].sent /\ outbox'[m].body = outbox[m].body
                        \/ /\ worker[w].phase = "accepted"
                           /\ outbox'[m].sent /\ outbox'[m].body = "delivered"
  <1> DEFINE m == worker[w].message
             sent == [outbox[m] EXCEPT !.sent = TRUE, !.claim = "free", !.body = "delivered"]
             failed == [outbox[m] EXCEPT !.claim = "free", !.waiting = TRUE]
  <1>1. worker[w] # None /\ m \in Messages
    BY TypedTask DEF MarkSent, MarkFailed, Doing
  <1>2. worker'[w] = None /\ \A v \in Workers : v # w => worker'[v] = worker[v]
    BY DEF MarkSent, MarkFailed, TypeOK
  <1>3. CASE ~Unsent(m)
    BY <1>1, <1>2, <1>3 DEF MarkSent, MarkFailed
  <1>4. CASE Unsent(m)
    <2>1. outbox[m] \in OutboxRow /\ ~outbox[m].sent
      BY <1>1, <1>4, TypedRow DEF Unsent
    <2>2. /\ sent \in OutboxRow /\ sent.attempts = outbox[m].attempts
          /\ sent.sent /\ sent.body = "delivered"
          /\ failed \in OutboxRow /\ failed.attempts = outbox[m].attempts /\ ~failed.sent
          /\ failed.body = outbox[m].body
      BY <2>1 DEF OutboxRow
    <2>3. \/ worker[w].phase = "accepted" /\ outbox' = [outbox EXCEPT ![m] = sent]
          \/ outbox' = [outbox EXCEPT ![m] = failed]
      BY <1>1, <1>4 DEF MarkSent, MarkFailed, Doing, TypeOK
    <2> HIDE DEF sent, failed
    <2> QED
      BY <1>1, <1>2, <2>1, <2>2, <2>3 DEF TypeOK
  <1> QED
    BY <1>3, <1>4

LEMMA TimeEffect ==
    ASSUME TypeOK, NEW m \in Messages, LeaseRunsOut(m) \/ BackoffElapses(m)
    PROVE  /\ outbox[m] \in OutboxRow /\ ~outbox[m].sent
           /\ outbox'[m] \in OutboxRow /\ outbox'[m].attempts = outbox[m].attempts
           /\ ~outbox'[m].sent /\ outbox'[m].body = outbox[m].body
           /\ BackoffElapses(m) => outbox'[m].claim = outbox[m].claim
           /\ \A n \in Messages : n # m => outbox'[n] = outbox[n]
  <1> DEFINE expired == [outbox[m] EXCEPT !.claim = "expired"]
             due == [outbox[m] EXCEPT !.waiting = FALSE]
  <1>1. outbox[m] \in OutboxRow /\ ~outbox[m].sent
    BY TypedRow DEF LeaseRunsOut, BackoffElapses, Unsent
  <1>2. /\ expired \in OutboxRow /\ expired.attempts = outbox[m].attempts /\ ~expired.sent
        /\ due \in OutboxRow /\ due.attempts = outbox[m].attempts /\ ~due.sent
        /\ due.claim = outbox[m].claim
        /\ expired.body = outbox[m].body /\ due.body = outbox[m].body
    BY <1>1 DEF OutboxRow
  <1>3. /\ LeaseRunsOut(m) => outbox' = [outbox EXCEPT ![m] = expired]
        /\ BackoffElapses(m) => outbox' = [outbox EXCEPT ![m] = due]
    BY DEF LeaseRunsOut, BackoffElapses, TypeOK
  <1>4. CASE BackoffElapses(m)
    <2> HIDE DEF due
    <2> QED
      BY <1>1, <1>2, <1>3, <1>4 DEF TypeOK
  <1>5. CASE ~BackoffElapses(m)
    <2> HIDE DEF expired
    <2> QED
      BY <1>1, <1>2, <1>3, <1>5 DEF TypeOK
  <1> QED
    BY <1>4, <1>5

-----------------------------------------------------------------------------
(* Types *)

LEMMA StepType == TypeOK /\ [Next]_vars => TypeOK'
  <1> SUFFICES ASSUME TypeOK, [Next]_vars PROVE TypeOK'
    OBVIOUS
  <1>1. ASSUME NEW m \in Messages, Enqueue(m) PROVE TypeOK'
    BY <1>1, EnqueueEffect DEF Enqueue, TypeOK
  <1>2. ASSUME NEW m \in Messages, ConsumeCredential(m) PROVE TypeOK'
    BY <1>2, ConsumeEffect DEF ConsumeCredential, TypeOK
  <1>3. ASSUME NEW mails \in SUBSET (Messages \ Credentials),
               EraseClient(mails) \/ PurgeWorkspace(mails)
        PROVE TypeOK'
    <2>1. mails \in SUBSET Messages /\ mails \cap Credentials = {}
      OBVIOUS
    <2>2. \A m \in Messages : outbox'[m] \in OutboxRow \cup {None, Gone}
      BY <1>3, <2>1, DeleteEffect DEF TypeOK
    <2> QED
      BY <1>3, <2>2 DEF EraseClient, PurgeWorkspace, TypeOK
  <1>4. ASSUME NEW old \in SUBSET Messages, CleanUp(old) PROVE TypeOK'
    BY <1>4 DEF CleanUp, TypeOK
  <1>5. ASSUME NEW w \in Workers, NEW m \in Messages, Claim(w, m) PROVE TypeOK'
    <2>1. [message |-> m, phase |-> "claimed"] \in Task
      BY DEF Task
    <2>2. worker' \in [Workers -> Task \cup {None}]
      BY <1>5, <2>1 DEF Claim, TypeOK
    <2>3. \A n \in Messages : outbox'[n] \in OutboxRow \cup {None, Gone}
      BY <1>5, ClaimEffect DEF TypeOK
    <2>4. outbox' \in [Messages -> OutboxRow \cup {None, Gone}]
      BY <1>5, <2>3 DEF Claim, TypeOK
    <2> QED
      BY <1>5, <2>2, <2>4 DEF Claim, TypeOK
  <1>6. ASSUME NEW w \in Workers, NEW answer \in {"ok", "lost", "refused"}, Post(w, answer)
        PROVE TypeOK'
    <2> DEFINE phase == IF answer = "ok" THEN "accepted" ELSE "failed"
    <2>1. worker[w] \in Task /\ worker[w].message \in Messages
      BY <1>6, TypedTask DEF Post, Doing
    <2>2. [worker[w] EXCEPT !.phase = phase] \in Task
      BY <2>1 DEF Task
    <2>3. worker' \in [Workers -> Task \cup {None}]
      BY <1>6, <2>2 DEF Post, TypeOK
    <2>4. requests' \in [Messages -> Nat] /\ accepted' \subseteq Messages
      BY <1>6, <2>1 DEF Post, TypeOK
    <2> QED
      BY <1>6, <2>3, <2>4 DEF Post, TypeOK
  <1>7. ASSUME NEW w \in Workers, RenderFails(w) PROVE TypeOK'
    <2>1. [worker[w] EXCEPT !.phase = "failed"] \in Task
      BY <1>7, TypedTask DEF RenderFails, Doing, Task
    <2> QED
      BY <1>7, <2>1 DEF RenderFails, TypeOK
  <1>8. ASSUME NEW w \in Workers, MarkSent(w) \/ MarkFailed(w) PROVE TypeOK'
    <2>1. \A m \in Messages : outbox'[m] \in OutboxRow \cup {None, Gone}
      BY <1>8, MarkEffect DEF TypeOK
    <2>2. outbox' \in [Messages -> OutboxRow \cup {None, Gone}]
      BY <1>8, <2>1 DEF MarkSent, MarkFailed, TypeOK
    <2> QED
      BY <1>8, <2>2 DEF MarkSent, MarkFailed, TypeOK
  <1>9. ASSUME NEW w \in Workers, Crash(w) PROVE TypeOK'
    BY <1>9 DEF Crash, TypeOK
  <1>10. ASSUME NEW m \in Messages, LeaseRunsOut(m) \/ BackoffElapses(m) PROVE TypeOK'
    <2>1. outbox' \in [Messages -> OutboxRow \cup {None, Gone}]
      BY <1>10, TimeEffect DEF LeaseRunsOut, BackoffElapses, TypeOK
    <2> QED
      BY <1>10, <2>1 DEF LeaseRunsOut, BackoffElapses, TypeOK
  <1>11. CASE UNCHANGED vars
    BY <1>11 DEF vars, TypeOK
  <1> QED
    BY <1>1, <1>2, <1>3, <1>4, <1>5, <1>6, <1>7, <1>8, <1>9, <1>10, <1>11
       DEF Next, WorkerStep

\* Rows and tasks keep their types (the columns of email_outbox, the worker's memory),
\* whatever the number of messages, workers and attempts.
THEOREM TypeCorrect == Spec => []TypeOK
  <1>1. Init => TypeOK
    BY DEF Init, TypeOK
  <1> QED
    BY <1>1, StepType, PTL DEF Spec

-----------------------------------------------------------------------------
(* What is in a worker's hands *)

\* What the provider has and what a worker holds was queued, and a worker that was
\* answered holds a message that the provider has.
InHand == /\ \A m \in accepted : outbox[m] # None
          /\ \A w \in Workers : worker[w] # None =>
                /\ outbox[worker[w].message] # None
                /\ worker[w].phase = "accepted" => worker[w].message \in accepted

\* No row returns to the time before it was queued.
LEMMA RowsStay ==
    ASSUME TypeOK, [Next]_vars, NEW m \in Messages, outbox[m] # None
    PROVE  outbox'[m] # None
  <1>0. None # Gone /\ None \notin OutboxRow
    BY NullAssumption
  <1>1. ASSUME NEW n \in Messages, Enqueue(n) PROVE outbox'[m] # None
    BY <1>0, <1>1, EnqueueEffect
  <1>2. ASSUME NEW n \in Messages, ConsumeCredential(n) PROVE outbox'[m] # None
    BY <1>0, <1>2, ConsumeEffect
  <1>3. ASSUME NEW mails \in SUBSET Messages,
               \/ EraseClient(mails) /\ mails \cap Credentials = {}
               \/ PurgeWorkspace(mails) \/ CleanUp(mails)
        PROVE outbox'[m] # None
    BY <1>0, <1>3, DeleteEffect
  <1>4. ASSUME NEW w \in Workers, NEW n \in Messages, Claim(w, n) PROVE outbox'[m] # None
    BY <1>0, <1>4, ClaimEffect
  <1>5. ASSUME NEW w \in Workers, MarkSent(w) \/ MarkFailed(w) PROVE outbox'[m] # None
    BY <1>0, <1>5, MarkEffect
  <1>6. ASSUME NEW n \in Messages, LeaseRunsOut(n) \/ BackoffElapses(n)
        PROVE outbox'[m] # None
    BY <1>0, <1>6, TimeEffect
  <1>7. CASE outbox' = outbox
    BY <1>7
  <1>8. \A mails \in SUBSET (Messages \ Credentials) :
           mails \in SUBSET Messages /\ mails \cap Credentials = {}
    OBVIOUS
  <1> QED
    BY <1>1, <1>2, <1>3, <1>4, <1>5, <1>6, <1>7, <1>8
       DEF Next, WorkerStep, Post, RenderFails, Crash, vars

LEMMA StepInHand == TypeOK /\ InHand /\ [Next]_vars => InHand'
  <1> SUFFICES ASSUME TypeOK, InHand, [Next]_vars PROVE InHand'
    OBVIOUS
  <1>1. \A m \in Messages : outbox[m] # None => outbox'[m] # None
    BY RowsStay
  <1>2. CASE worker' = worker /\ accepted' = accepted
    <2>1. \A w \in Workers : worker[w] # None => worker[w].message \in Messages
      BY TypedTask
    <2> QED
      BY <1>1, <1>2, <2>1 DEF InHand, TypeOK
  <1>3. ASSUME NEW w \in Workers, NEW m \in Messages, Claim(w, m) PROVE InHand'
    <2>1. \A v \in Workers : worker[v] # None => worker[v].message \in Messages
      BY TypedTask
    <2>2. outbox'[m] # None /\ accepted' = accepted
      BY <1>3, ClaimEffect, NullAssumption DEF Claim
    <2> QED
      BY <1>1, <1>3, <2>1, <2>2, ClaimEffect DEF InHand, TypeOK
  <1>4. ASSUME NEW w \in Workers, NEW answer \in {"ok", "lost", "refused"}, Post(w, answer)
        PROVE InHand'
    <2> DEFINE m == worker[w].message
    <2>1. \A v \in Workers : worker[v] # None => worker[v].message \in Messages
      BY TypedTask
    <2>2. worker[w] # None /\ m \in Messages /\ outbox[m] # None
      BY <1>4, <2>1 DEF Post, Doing, InHand
    <2>3. worker'[w] = [worker[w] EXCEPT !.phase = IF answer = "ok" THEN "accepted" ELSE "failed"]
      BY <1>4 DEF Post, TypeOK
    <2>4. worker[w] \in Task
      BY <2>2 DEF TypeOK
    <2>5. worker'[w].phase = "accepted" => answer = "ok"
      BY <2>3, <2>4 DEF Task
    <2>6. worker'[w].message = m /\ \A v \in Workers : v # w => worker'[v] = worker[v]
      BY <1>4, PhaseEffect
    <2>7. accepted \subseteq accepted' /\ accepted' \subseteq accepted \cup {m}
      BY <1>4 DEF Post
    <2>8. answer = "ok" => m \in accepted'
      BY <1>4 DEF Post
    <2> HIDE DEF m
    <2>9. \A n \in accepted' : outbox'[n] # None
      BY <1>1, <2>2, <2>7 DEF InHand, TypeOK
    <2> QED
      BY <1>1, <2>1, <2>2, <2>5, <2>6, <2>7, <2>8, <2>9 DEF InHand, TypeOK
  <1>5. ASSUME NEW w \in Workers, RenderFails(w) PROVE InHand'
    <2>1. \A v \in Workers : worker[v] # None => worker[v].message \in Messages
      BY TypedTask
    <2>2. worker'[w] = [worker[w] EXCEPT !.phase = "failed"] /\ worker[w] \in Task
      BY <1>5, TypedTask DEF RenderFails, Doing, TypeOK
    <2>3. worker'[w].phase = "failed"
      BY <2>2 DEF Task
    <2>4. /\ worker[w] # None /\ worker'[w].message = worker[w].message
          /\ \A v \in Workers : v # w => worker'[v] = worker[v]
          /\ accepted' = accepted
      BY <1>5, PhaseEffect DEF RenderFails
    <2> QED
      BY <1>1, <2>1, <2>3, <2>4 DEF InHand, TypeOK
  <1>6. ASSUME NEW w \in Workers, MarkSent(w) \/ MarkFailed(w) \/ Crash(w) PROVE InHand'
    <2>1. \A v \in Workers : worker[v] # None => worker[v].message \in Messages
      BY TypedTask
    <2>2. /\ accepted' = accepted /\ worker'[w] = None
          /\ \A v \in Workers : v # w => worker'[v] = worker[v]
      BY <1>6 DEF MarkSent, MarkFailed, Crash, TypeOK
    <2> QED
      BY <1>1, <2>1, <2>2 DEF InHand, TypeOK
  <1> QED
    BY <1>2, <1>3, <1>4, <1>5, <1>6
       DEF Next, WorkerStep, Enqueue, ConsumeCredential, EraseClient, PurgeWorkspace, CleanUp,
           LeaseRunsOut, BackoffElapses, vars

LEMMA Handed == Spec => []InHand
  <1>1. Init => InHand
    BY DEF Init, InHand
  <1> QED
    BY <1>1, StepInHand, TypeCorrect, PTL DEF Spec

-----------------------------------------------------------------------------
(* Leases *)

\* The strengthening of ExclusiveWithinLease: for as long as no lease of it ran out, a
\* message that a worker has in hand is leased.
Leased == \A m \in Messages : m \notin lapsed =>
             /\ \A v, w \in Holding(m) : v = w
             /\ Holding(m) # {} /\ Unsent(m) => outbox[m].claim = "leased"

LEMMA StepLeased == TypeOK /\ InHand /\ Leased /\ [Next]_vars => Leased'
  <1> SUFFICES ASSUME TypeOK, InHand, Leased, [Next]_vars,
                      NEW m \in Messages, m \notin lapsed'
               PROVE  /\ \A v, w \in Holding(m)' : v = w
                      /\ Holding(m)' # {} /\ Unsent(m)' => outbox'[m].claim = "leased"
    BY DEF Leased
  <1>0. None # Gone /\ None \notin OutboxRow /\ Gone \notin OutboxRow
    BY NullAssumption
  <1>1. m \notin lapsed
    BY DEF Next, WorkerStep, Enqueue, ConsumeCredential, EraseClient, PurgeWorkspace, CleanUp,
           Claim, Post, RenderFails, MarkSent, MarkFailed, Crash, LeaseRunsOut,
           BackoffElapses, vars
  <1>2. /\ \A v, w \in Holding(m) : v = w
        /\ Holding(m) # {} /\ Unsent(m) => outbox[m].claim = "leased"
    BY <1>1 DEF Leased
  <1>3. outbox[m] = None => Holding(m) = {}
    BY DEF InHand, Holding
  <1>4. ASSUME worker' = worker,
               \/ outbox'[m] = outbox[m]
               \/ outbox[m] = None
               \/ outbox'[m] = Gone
               \/ outbox'[m].sent
        PROVE  /\ \A v, w \in Holding(m)' : v = w
               /\ Holding(m)' # {} /\ Unsent(m)' => outbox'[m].claim = "leased"
    BY <1>2, <1>3, <1>4 DEF Holding, Unsent, Row
  <1>5. ASSUME NEW n \in Messages, Enqueue(n) PROVE outbox'[m] = outbox[m] \/ outbox[m] = None
    BY <1>5, EnqueueEffect
  <1>6. ASSUME NEW n \in Messages, ConsumeCredential(n)
        PROVE  outbox'[m] = outbox[m] \/ outbox'[m].sent
    BY <1>6, ConsumeEffect
  <1>7. ASSUME NEW mails \in SUBSET Messages,
               \/ EraseClient(mails) /\ mails \cap Credentials = {}
               \/ PurgeWorkspace(mails) \/ CleanUp(mails)
        PROVE  outbox'[m] = outbox[m] \/ outbox'[m] = Gone \/ outbox'[m].sent
    BY <1>7, DeleteEffect
  <1>8. ASSUME NEW w \in Workers, NEW n \in Messages, Claim(w, n)
        PROVE  /\ \A v, u \in Holding(m)' : v = u
               /\ Holding(m)' # {} /\ Unsent(m)' => outbox'[m].claim = "leased"
    <2>1. CASE n = m
      <3>1. Holding(m) = {}
        BY <1>2, <1>8, <2>1 DEF Claim, Claimable
      <3>2. Holding(m)' = {w} /\ outbox'[m].claim = "leased"
        BY <1>8, <2>1, <3>1, ClaimEffect DEF Holding
      <3> QED
        BY <3>2
    <2>2. CASE n # m
      <3>1. Holding(m)' = Holding(m) /\ outbox'[m] = outbox[m]
        BY <1>8, <2>2, ClaimEffect DEF Holding
      <3> QED
        BY <1>2, <3>1 DEF Unsent, Row
    <2> QED
      BY <2>1, <2>2
  <1>9. ASSUME NEW w \in Workers,
               RenderFails(w) \/ \E answer \in {"ok", "lost", "refused"} : Post(w, answer)
        PROVE  /\ \A v, u \in Holding(m)' : v = u
               /\ Holding(m)' # {} /\ Unsent(m)' => outbox'[m].claim = "leased"
    <2>1. Holding(m)' = Holding(m) /\ outbox'[m] = outbox[m]
      BY <1>9, PhaseEffect DEF Holding
    <2> QED
      BY <1>2, <2>1 DEF Unsent, Row
  <1>10. ASSUME NEW w \in Workers, MarkSent(w) \/ MarkFailed(w) \/ Crash(w)
         PROVE  /\ \A v, u \in Holding(m)' : v = u
                /\ Holding(m)' # {} /\ Unsent(m)' => outbox'[m].claim = "leased"
    <2>1. /\ worker[w] # None /\ worker'[w] = None
          /\ \A v \in Workers : v # w => worker'[v] = worker[v]
      BY <1>10 DEF MarkSent, MarkFailed, Crash, Doing, TypeOK
    <2>2. worker[w].message # m => outbox'[m] = outbox[m]
      BY <1>10, MarkEffect DEF Crash
    <2>3. Holding(m)' = Holding(m) \ {w}
      BY <2>1 DEF Holding
    <2>4. CASE w \in Holding(m)
      BY <1>2, <2>3, <2>4
    <2>5. CASE w \notin Holding(m)
      <3>1. outbox'[m] = outbox[m]
        BY <2>1, <2>2, <2>5 DEF Holding
      <3> QED
        BY <1>2, <2>3, <3>1 DEF Unsent, Row
    <2> QED
      BY <2>4, <2>5
  <1>11. ASSUME NEW n \in Messages, LeaseRunsOut(n) \/ BackoffElapses(n)
         PROVE  /\ \A v, w \in Holding(m)' : v = w
                /\ Holding(m)' # {} /\ Unsent(m)' => outbox'[m].claim = "leased"
    <2>1. Holding(m)' = Holding(m)
      BY <1>11 DEF LeaseRunsOut, BackoffElapses, Holding
    <2>2. CASE n = m
      <3>1. BackoffElapses(m)
        BY <1>11, <2>2 DEF LeaseRunsOut
      <3>2. Unsent(m) /\ outbox'[m].claim = outbox[m].claim
        BY <3>1, TimeEffect DEF BackoffElapses
      <3> QED
        BY <1>2, <2>1, <3>2
    <2>3. CASE n # m
      <3>1. outbox'[m] = outbox[m]
        BY <1>11, <2>3, TimeEffect
      <3> QED
        BY <1>2, <2>1, <3>1 DEF Unsent, Row
    <2> QED
      BY <2>2, <2>3
  <1>12. CASE UNCHANGED vars
    BY <1>4, <1>12 DEF vars
  <1>13. \A mails \in SUBSET (Messages \ Credentials) :
           mails \in SUBSET Messages /\ mails \cap Credentials = {}
    OBVIOUS
  <1>14. ASSUME \/ \E n \in Messages : Enqueue(n) \/ ConsumeCredential(n)
                \/ \E mails \in SUBSET (Messages \ Credentials) :
                      EraseClient(mails) \/ PurgeWorkspace(mails)
                \/ \E old \in SUBSET Messages : CleanUp(old)
         PROVE  worker' = worker
    BY <1>14 DEF Enqueue, ConsumeCredential, EraseClient, PurgeWorkspace, CleanUp
  <1> QED
    BY <1>4, <1>5, <1>6, <1>7, <1>8, <1>9, <1>10, <1>11, <1>12, <1>13, <1>14
       DEF Next, WorkerStep

\* Two workers have the same message in hand only if one of its leases ran out: the
\* lease that slotera_email_claim takes excludes every other worker.
THEOREM LeaseExcludes == Spec => []ExclusiveWithinLease
  <1>1. Init => Leased
    BY DEF Init, Leased, Holding
  <1>2. Leased => ExclusiveWithinLease
    BY DEF Leased, ExclusiveWithinLease
  <1> QED
    BY <1>1, <1>2, StepLeased, TypeCorrect, Handed, PTL DEF Spec

-----------------------------------------------------------------------------
(* Refinement *)

\* Only a message with a link can have been used.
LinksOnly == \A m \in Messages \ Credentials :
                outbox[m] \in OutboxRow => outbox[m].body # "consumed"

LEMMA StepLinksOnly == TypeOK /\ LinksOnly /\ [Next]_vars => LinksOnly'
  <1> SUFFICES ASSUME TypeOK, LinksOnly, [Next]_vars,
                      NEW m \in Messages, m \notin Credentials, outbox'[m] \in OutboxRow
               PROVE  outbox'[m].body # "consumed"
    BY DEF LinksOnly
  <1> DEFINE kept == outbox[m] \in OutboxRow => outbox[m].body # "consumed"
  <1>0. kept /\ Gone \notin OutboxRow
    BY NullAssumption DEF LinksOnly
  <1>1. ASSUME NEW n \in Messages, Enqueue(n) PROVE outbox'[m].body # "consumed"
    BY <1>0, <1>1, EnqueueEffect
  <1>2. ASSUME NEW n \in Messages, ConsumeCredential(n) PROVE outbox'[m].body # "consumed"
    <2>1. outbox'[m] = outbox[m]
      BY <1>2, ConsumeEffect DEF ConsumeCredential
    <2> QED
      BY <1>0, <2>1
  <1>3. ASSUME NEW mails \in SUBSET Messages,
               \/ EraseClient(mails) /\ mails \cap Credentials = {}
               \/ PurgeWorkspace(mails) \/ CleanUp(mails)
        PROVE outbox'[m].body # "consumed"
    BY <1>0, <1>3, DeleteEffect
  <1>4. ASSUME NEW w \in Workers, NEW n \in Messages, Claim(w, n)
        PROVE outbox'[m].body # "consumed"
    BY <1>0, <1>4, ClaimEffect
  <1>5. ASSUME NEW w \in Workers, MarkSent(w) \/ MarkFailed(w)
        PROVE outbox'[m].body # "consumed"
    BY <1>0, <1>5, MarkEffect
  <1>6. ASSUME NEW n \in Messages, LeaseRunsOut(n) \/ BackoffElapses(n)
        PROVE outbox'[m].body # "consumed"
    BY <1>0, <1>6, TimeEffect
  <1>7. CASE outbox' = outbox
    BY <1>0, <1>7
  <1>8. \A mails \in SUBSET (Messages \ Credentials) :
           mails \in SUBSET Messages /\ mails \cap Credentials = {}
    OBVIOUS
  <1> QED
    BY <1>1, <1>2, <1>3, <1>4, <1>5, <1>6, <1>7, <1>8
       DEF Next, WorkerStep, Post, RenderFails, Crash, vars

LEMMA Places ==
    /\ Place(None) = "none" /\ Place(Gone) = "deleted"
    /\ \A r \in OutboxRow :
          Place(r) = IF ~r.sent THEN "queued"
                     ELSE IF r.body = "consumed" THEN "used" ELSE "delivered"
  BY NullAssumption DEF Place

\* The moves that MailDelivery allows.
LEMMA Moves ==
    ASSUME NEW p, NEW q, NEW a \in BOOLEAN, NEW b \in BOOLEAN,
           \/ p = q /\ a = b
           \/ p = "none" /\ q = "queued" /\ ~a /\ ~b
           \/ p # "none" /\ q = p /\ b
           \/ p = "queued" /\ q \in {"delivered", "used"} /\ a /\ b
           \/ p # "none" /\ q = "deleted" /\ a = b
    PROVE  Delivery!Step([place |-> p, accepted |-> a], [place |-> q, accepted |-> b])
  <1> DEFINE r == [place |-> p, accepted |-> a]
             n == [place |-> q, accepted |-> b]
  <1>1. [r EXCEPT !.place = q] = [place |-> q, accepted |-> a]
    OBVIOUS
  <1>2. b => b = TRUE
    OBVIOUS
  <1>3. CASE p = q /\ a = b
    BY <1>3 DEF Delivery!Step
  <1>4. CASE p = "none" /\ q = "queued" /\ ~a /\ ~b
    BY <1>1, <1>4 DEF Delivery!Step, Delivery!Queues, Delivery!NotQueued
  <1>5. CASE p # "none" /\ q = p /\ b
    BY <1>2, <1>5 DEF Delivery!Step, Delivery!Accepts
  <1>6. CASE p = "queued" /\ q \in {"delivered", "used"} /\ a /\ b
    BY <1>1, <1>6 DEF Delivery!Step, Delivery!Delivers, Delivery!Uses
  <1>7. CASE p # "none" /\ q = "deleted" /\ a = b
    BY <1>1, <1>7 DEF Delivery!Step, Delivery!Deletes
  <1> QED
    BY <1>3, <1>4, <1>5, <1>6, <1>7

\* Every step of the outbox is, for each message, a move of MailDelivery.
LEMMA StepDelivers ==
    ASSUME TypeOK, InHand, LinksOnly, [Next]_vars, NEW m \in Messages
    PROVE  Delivery!Step([place |-> Place(outbox[m]), accepted |-> m \in accepted],
                         [place |-> Place(outbox'[m]), accepted |-> m \in accepted'])
  <1> DEFINE p == Place(outbox[m])
             q == Place(outbox'[m])
             a == m \in accepted
             b == m \in accepted'
             move == \/ p = q /\ a = b
                     \/ p = "none" /\ q = "queued" /\ ~a /\ ~b
                     \/ p # "none" /\ q = p /\ b
                     \/ p = "queued" /\ q \in {"delivered", "used"} /\ a /\ b
                     \/ p # "none" /\ q = "deleted" /\ a = b
  <1>0. outbox[m] # None => p # "none"
    BY Places DEF TypeOK
  <1>1. ASSUME outbox'[m] = outbox[m], accepted' = accepted PROVE move
    BY <1>1
  <1>2. ASSUME NEW n \in Messages, Enqueue(n) PROVE move
    <2>1. accepted' = accepted
      BY <1>2 DEF Enqueue
    <2>2. CASE n = m
      <3>1. m \notin accepted
        BY <1>2, <2>2 DEF Enqueue, InHand
      <3>2. p = "none" /\ q = "queued"
        BY <1>2, <2>2, EnqueueEffect, Places
      <3> QED
        BY <2>1, <3>1, <3>2
    <2> QED
      BY <1>1, <1>2, <2>1, <2>2, EnqueueEffect
  <1>3. ASSUME NEW n \in Messages, ConsumeCredential(n) PROVE move
    <2>1. accepted' = accepted
      BY <1>3 DEF ConsumeCredential
    <2>2. CASE n = m
      <3>1. p = "queued" /\ q = "used" /\ a
        BY <1>3, <2>2, ConsumeEffect, Places
      <3> QED
        BY <2>1, <3>1
    <2> QED
      BY <1>1, <1>3, <2>1, <2>2, ConsumeEffect
  <1>4. ASSUME NEW mails \in SUBSET Messages,
               \/ EraseClient(mails) /\ mails \cap Credentials = {}
               \/ PurgeWorkspace(mails) \/ CleanUp(mails)
        PROVE  move
    <2>1. accepted' = accepted
      BY <1>4 DEF EraseClient, PurgeWorkspace, CleanUp
    <2>2. CASE outbox'[m] = outbox[m]
      BY <1>1, <2>1, <2>2
    <2>3. CASE Row(m) /\ outbox'[m] = Gone
      BY <1>0, <2>1, <2>3, Places DEF Row
    <2>4. CASE /\ outbox[m] \in OutboxRow /\ outbox[m].sent
               /\ outbox'[m] \in OutboxRow /\ outbox'[m].sent /\ outbox'[m].body = "erased"
               /\ m \notin Credentials
      <3>1. q = "delivered" /\ p = "delivered"
        BY <2>4, Places DEF LinksOnly
      <3> QED
        BY <2>1, <3>1
    <2> QED
      BY <1>4, <2>2, <2>3, <2>4, DeleteEffect
  <1>5. ASSUME NEW w \in Workers, NEW n \in Messages, Claim(w, n) PROVE move
    <2>1. accepted' = accepted
      BY <1>5 DEF Claim
    <2>2. p = q
      BY <1>5, ClaimEffect, Places
    <2> QED
      BY <2>1, <2>2
  <1>6. ASSUME NEW w \in Workers, NEW answer \in {"ok", "lost", "refused"}, Post(w, answer)
        PROVE  move
    <2>1. outbox' = outbox /\ (b <=> a \/ (answer # "refused" /\ m = worker[w].message))
      BY <1>6 DEF Post
    <2>2. outbox[worker[w].message] # None
      BY <1>6 DEF Post, Doing, InHand
    <2> QED
      BY <1>0, <2>1, <2>2
  <1>7. ASSUME NEW w \in Workers, MarkSent(w) \/ MarkFailed(w) PROVE move
    <2>1. accepted' = accepted
      BY <1>7 DEF MarkSent, MarkFailed
    <2>2. CASE outbox'[m] = outbox[m]
      BY <1>1, <2>1, <2>2
    <2>3. CASE /\ m = worker[w].message
               /\ outbox[m] \in OutboxRow /\ ~outbox[m].sent /\ outbox'[m] \in OutboxRow
               /\ \/ ~outbox'[m].sent
                  \/ /\ worker[w].phase = "accepted"
                     /\ outbox'[m].sent /\ outbox'[m].body = "delivered"
      <3>1. worker[w].phase = "accepted" => a
        BY <1>7, <2>3, MarkEffect DEF InHand
      <3>2. p = "queued" /\ (q = "queued" \/ (q = "delivered" /\ a))
        BY <2>3, <3>1, Places
      <3> QED
        BY <2>1, <3>2
    <2> QED
      BY <1>7, <2>2, <2>3, MarkEffect
  <1>8. ASSUME NEW n \in Messages, LeaseRunsOut(n) \/ BackoffElapses(n) PROVE move
    <2>1. accepted' = accepted
      BY <1>8 DEF LeaseRunsOut, BackoffElapses
    <2>2. p = q
      BY <1>8, TimeEffect, Places
    <2> QED
      BY <2>1, <2>2
  <1>9. ASSUME NEW w \in Workers, RenderFails(w) \/ Crash(w) PROVE move
    BY <1>1, <1>9 DEF RenderFails, Crash
  <1>10. ASSUME UNCHANGED vars PROVE move
    BY <1>1, <1>10 DEF vars
  <1>11. \A mails \in SUBSET (Messages \ Credentials) :
           mails \in SUBSET Messages /\ mails \cap Credentials = {}
    OBVIOUS
  <1> HIDE DEF move
  <1>12. move
    BY <1>2, <1>3, <1>4, <1>5, <1>6, <1>7, <1>8, <1>9, <1>10, <1>11 DEF Next, WorkerStep
  <1>13. a \in BOOLEAN /\ b \in BOOLEAN
    OBVIOUS
  <1> HIDE DEF p, q, a, b
  <1>14. Delivery!Step([place |-> p, accepted |-> a], [place |-> q, accepted |-> b])
    BY <1>12, <1>13, Moves DEF move
  <1> QED
    BY <1>14 DEF p, q, a, b

\* The outbox implements MailDelivery: a message is recorded as delivered only after the
\* provider accepted it and leaves the queue once, whatever crashes and overtakes.
THEOREM OutboxDelivers == Spec => ImplementsDelivery
  <1> DEFINE mail == [m \in Messages |-> [place |-> Place(outbox[m]),
                                          accepted |-> m \in accepted]]
  <1>1. Init => Delivery!Init
    <2> SUFFICES ASSUME Init PROVE Delivery!Init
      OBVIOUS
    <2>1. \A m \in Messages :
             [place |-> Place(outbox[m]), accepted |-> m \in accepted] = Delivery!NotQueued
      <3> SUFFICES ASSUME NEW m \in Messages
                   PROVE  [place |-> Place(outbox[m]), accepted |-> m \in accepted]
                             = Delivery!NotQueued
        OBVIOUS
      <3>1. outbox[m] = None /\ (m \in accepted) = FALSE
        BY DEF Init
      <3>2. Place(outbox[m]) = "none"
        BY <3>1, Places
      <3> QED
        BY <3>1, <3>2 DEF Delivery!NotQueued
    <2> QED
      BY <2>1 DEF Delivery!Init
  <1>2. Init => LinksOnly
    BY NullAssumption DEF Init, LinksOnly
  <1>3. TypeOK /\ InHand /\ LinksOnly /\ [Next]_vars => [Delivery!Next]_mail
    <2> SUFFICES ASSUME TypeOK, InHand, LinksOnly, [Next]_vars PROVE Delivery!Next
      OBVIOUS
    <2>1. \A m \in Messages :
             Delivery!Step([place |-> Place(outbox[m]), accepted |-> m \in accepted],
                           [place |-> Place(outbox'[m]), accepted |-> m \in accepted'])
      BY StepDelivers
    <2> QED
      BY <2>1 DEF Delivery!Next
  <1> QED
    BY <1>1, <1>2, <1>3, TypeCorrect, Handed, StepLinksOnly, PTL
       DEF Spec, ImplementsDelivery, Delivery!Spec
-----------------------------------------------------------------------------
(* Attempts *)

\* A claim entitles to one post: the claims that were not used yet.
Unposted(m) == {w \in Workers : worker[w] # None /\ worker[w].message = m
                                  /\ worker[w].phase = "claimed"}

\* The attempts that a message was charged for.
Spent(m) == IF outbox[m] = None THEN 0
            ELSE IF outbox[m] = Gone THEN MaxAttempts ELSE outbox[m].attempts

\* The strengthening of AttemptBudget: posts and the claims that may still become one
\* are paid for in advance.
PaidAhead == \A m \in Messages : requests[m] + Cardinality(Unposted(m)) <= Spent(m)

LEMMA SpentType ==
    ASSUME TypeOK, NEW m \in Messages
    PROVE  Spent(m) \in 0..MaxAttempts
  BY OutboxAssumption DEF TypeOK, Spent, OutboxRow

\* No step gives an attempt back.
LEMMA SpentGrows ==
    ASSUME TypeOK, TypeOK', [Next]_vars, NEW m \in Messages
    PROVE  Spent(m) <= Spent(m)'
  <1>0. /\ Spent(m) \in 0..MaxAttempts /\ Spent(m)' \in 0..MaxAttempts /\ MaxAttempts \in Nat
        /\ None # Gone /\ None \notin OutboxRow /\ Gone \notin OutboxRow
    BY SpentType, OutboxAssumption, NullAssumption DEF TypeOK, Spent, OutboxRow
  <1>1. ASSUME outbox'[m] = outbox[m] PROVE Spent(m) <= Spent(m)'
    BY <1>0, <1>1 DEF Spent
  <1>2. ASSUME outbox[m] = None PROVE Spent(m) <= Spent(m)'
    BY <1>0, <1>2 DEF Spent
  <1>3. ASSUME outbox'[m] = Gone PROVE Spent(m) <= Spent(m)'
    BY <1>0, <1>3 DEF Spent
  <1>4. ASSUME outbox[m] \in OutboxRow, outbox'[m] \in OutboxRow,
               \/ outbox'[m].attempts = outbox[m].attempts
               \/ outbox'[m].attempts = outbox[m].attempts + 1
        PROVE  Spent(m) <= Spent(m)'
    BY <1>0, <1>4 DEF Spent
  <1>5. ASSUME NEW n \in Messages, Enqueue(n) PROVE Spent(m) <= Spent(m)'
    BY <1>1, <1>2, <1>5, EnqueueEffect
  <1>6. ASSUME NEW n \in Messages, ConsumeCredential(n) PROVE Spent(m) <= Spent(m)'
    BY <1>1, <1>4, <1>6, ConsumeEffect
  <1>7. ASSUME NEW mails \in SUBSET Messages,
               \/ EraseClient(mails) /\ mails \cap Credentials = {}
               \/ PurgeWorkspace(mails) \/ CleanUp(mails)
        PROVE Spent(m) <= Spent(m)'
    BY <1>1, <1>3, <1>4, <1>7, DeleteEffect
  <1>8. ASSUME NEW w \in Workers, NEW n \in Messages, Claim(w, n) PROVE Spent(m) <= Spent(m)'
    BY <1>1, <1>4, <1>8, ClaimEffect
  <1>9. ASSUME NEW w \in Workers, MarkSent(w) \/ MarkFailed(w) PROVE Spent(m) <= Spent(m)'
    BY <1>1, <1>4, <1>9, MarkEffect
  <1>10. ASSUME NEW n \in Messages, LeaseRunsOut(n) \/ BackoffElapses(n)
         PROVE Spent(m) <= Spent(m)'
    BY <1>1, <1>4, <1>10, TimeEffect
  <1>11. ASSUME outbox' = outbox PROVE Spent(m) <= Spent(m)'
    BY <1>1, <1>11
  <1>12. \A mails \in SUBSET (Messages \ Credentials) :
           mails \in SUBSET Messages /\ mails \cap Credentials = {}
    OBVIOUS
  <1> QED
    BY <1>5, <1>6, <1>7, <1>8, <1>9, <1>10, <1>11, <1>12
       DEF Next, WorkerStep, Post, RenderFails, Crash, vars

LEMMA StepPaidAhead == TypeOK /\ TypeOK' /\ PaidAhead /\ [Next]_vars => PaidAhead'
  <1> SUFFICES ASSUME TypeOK, TypeOK', PaidAhead, [Next]_vars, NEW m \in Messages
               PROVE  requests'[m] + Cardinality(Unposted(m)') <= Spent(m)'
    BY DEF PaidAhead
  <1>1. /\ requests[m] \in Nat /\ Spent(m) \in 0..MaxAttempts /\ MaxAttempts \in Nat
        /\ Spent(m)' \in 0..MaxAttempts
    BY SpentType, OutboxAssumption DEF TypeOK, Spent, OutboxRow
  <1>2. IsFiniteSet(Unposted(m)) /\ IsFiniteSet(Unposted(m)')
    BY OutboxAssumption, FS_Subset DEF Unposted
  <1>3. Cardinality(Unposted(m)) \in Nat /\ Cardinality(Unposted(m)') \in Nat
    BY <1>2, FS_CardinalityType
  <1>4. requests[m] + Cardinality(Unposted(m)) <= Spent(m)
    BY DEF PaidAhead
  <1>5. Spent(m) <= Spent(m)'
    BY SpentGrows
  <1>6. ASSUME requests'[m] = requests[m], Unposted(m)' \subseteq Unposted(m)
        PROVE  requests'[m] + Cardinality(Unposted(m)') <= Spent(m)'
    <2>1. Cardinality(Unposted(m)') <= Cardinality(Unposted(m))
      BY <1>2, <1>6, FS_Subset
    <2> QED
      BY <1>1, <1>3, <1>4, <1>5, <1>6, <2>1
  <1>7. ASSUME NEW w \in Workers, NEW n \in Messages, Claim(w, n)
        PROVE  requests'[m] + Cardinality(Unposted(m)') <= Spent(m)'
    <2>1. requests' = requests
      BY <1>7 DEF Claim
    <2>2. CASE n = m
      <3>1. Unposted(m)' = Unposted(m) \cup {w} /\ w \notin Unposted(m)
        BY <1>7, <2>2, ClaimEffect DEF Unposted
      <3>2. Cardinality(Unposted(m)') = Cardinality(Unposted(m)) + 1
        BY <1>2, <3>1, FS_AddElement
      <3>3. Spent(m)' = Spent(m) + 1
        BY <1>7, <2>2, ClaimEffect, NullAssumption DEF Spent
      <3> QED
        BY <1>1, <1>3, <1>4, <2>1, <3>2, <3>3
    <2>3. CASE n # m
      <3>1. Unposted(m)' \subseteq Unposted(m)
        BY <1>7, <2>3, ClaimEffect DEF Unposted
      <3> QED
        BY <1>6, <2>1, <3>1
    <2> QED
      BY <2>2, <2>3
  <1>8. ASSUME NEW w \in Workers, NEW answer \in {"ok", "lost", "refused"}, Post(w, answer)
        PROVE  requests'[m] + Cardinality(Unposted(m)') <= Spent(m)'
    <2>1. Unposted(m)' = Unposted(m) \ {w}
      BY <1>8, PhaseEffect DEF Unposted
    <2>2. CASE worker[w].message = m
      <3>1. w \in Unposted(m)
        BY <1>8, <2>2 DEF Post, Doing, Unposted
      <3>2. Cardinality(Unposted(m)') = Cardinality(Unposted(m)) - 1
        BY <1>2, <2>1, <3>1, FS_RemoveElement
      <3>3. requests'[m] = requests[m] + 1
        BY <1>8, <2>2 DEF Post, TypeOK
      <3> QED
        BY <1>1, <1>3, <1>4, <1>5, <3>2, <3>3
    <2>3. CASE worker[w].message # m
      <3>1. requests'[m] = requests[m]
        BY <1>8, <2>3 DEF Post, TypeOK
      <3> QED
        BY <1>6, <2>1, <3>1
    <2> QED
      BY <2>2, <2>3
  <1>9. ASSUME NEW w \in Workers, RenderFails(w) \/ MarkSent(w) \/ MarkFailed(w) \/ Crash(w)
        PROVE  requests'[m] + Cardinality(Unposted(m)') <= Spent(m)'
    <2>1. requests' = requests
      BY <1>9 DEF RenderFails, MarkSent, MarkFailed, Crash
    <2>2. RenderFails(w) => Unposted(m)' \subseteq Unposted(m)
      BY PhaseEffect DEF Unposted
    <2>3. MarkSent(w) \/ MarkFailed(w) \/ Crash(w) => Unposted(m)' \subseteq Unposted(m)
      BY DEF MarkSent, MarkFailed, Crash, TypeOK, Unposted
    <2> QED
      BY <1>6, <1>9, <2>1, <2>2, <2>3
  <1>10. ASSUME worker' = worker, requests' = requests
         PROVE  requests'[m] + Cardinality(Unposted(m)') <= Spent(m)'
    BY <1>6, <1>10 DEF Unposted
  <1> QED
    BY <1>7, <1>8, <1>9, <1>10
       DEF Next, WorkerStep, Enqueue, ConsumeCredential, EraseClient, PurgeWorkspace, CleanUp,
           LeaseRunsOut, BackoffElapses, vars

\* However often workers die, retry and overtake each other, no message is posted more
\* often than MaxAttempts: slotera_email_claim counts the attempt before it is made.
THEOREM BudgetKept == Spec => []AttemptBudget
  <1>1. Init => PaidAhead
    <2> SUFFICES ASSUME Init, NEW m \in Messages
                 PROVE  requests[m] + Cardinality(Unposted(m)) <= Spent(m)
      BY DEF PaidAhead
    <2>1. Unposted(m) = {} /\ requests[m] = 0 /\ Spent(m) = 0
      BY DEF Init, Unposted, Spent
    <2> QED
      BY <2>1, FS_EmptySet
  <1>2. TypeOK /\ PaidAhead => AttemptBudget
    <2> SUFFICES ASSUME TypeOK, PaidAhead, NEW m \in Messages PROVE requests[m] <= MaxAttempts
      BY DEF AttemptBudget
    <2>1. IsFiniteSet(Unposted(m))
      BY OutboxAssumption, FS_Subset DEF Unposted
    <2>2. Cardinality(Unposted(m)) \in Nat
      BY <2>1, FS_CardinalityType
    <2> QED
      BY <2>2, SpentType, OutboxAssumption DEF PaidAhead, TypeOK
  <1> QED
    BY <1>1, <1>2, StepPaidAhead, TypeCorrect, PTL DEF Spec
=============================================================================
