---------------------------- MODULE BatchScoring ----------------------------
(***************************************************************************)
(* Asynchronous batch scoring of the candidates of one job.                *)
(*                                                                         *)
(*   API request    ScoreService.batch_score_async (scores/service.py)     *)
(*   coordinator    qstash_batch_score_coordinator_webhook                 *)
(*   worker         qstash_batch_score_worker_webhook, and                 *)
(*                  ScoreService.score_candidate_sync which it calls       *)
(*   status poll    get_task_status (tasks/router.py), which also fails    *)
(*                  batches nobody has updated for 24 hours                *)
(*   broker         QStash: at-least-once delivery of every accepted       *)
(*                  message, MaxAttempts attempts, dropped when answered   *)
(*                  with a 2xx, deduplicated by id for a while (external)  *)
(*                                                                         *)
(* Batches of different jobs share neither rows nor locks, so one job is   *)
(* enough.  Every action is one transaction, one message or one answer of  *)
(* a handler; handlers run concurrently and may die between any two steps. *)
(***************************************************************************)
EXTENDS BatchRow, Sequences

CONSTANTS
    Batches,         \* identifiers of the batches that may ever be created
    Known,           \* the candidates that exist in the tenant
    Lists,           \* candidate lists a batch is created with (may repeat or be empty)
    ForceModes,      \* the values of force_rescore callers use
    Requests,        \* calls of POST /jobs/{job_id}/score-batch
    Coordinators,    \* coordinator invocations that can be in flight together
    Workers,         \* worker invocations that can be in flight together
    Pollers,         \* status polls that can be in flight together
    MaxAttempts,     \* deliveries the broker makes of one accepted message
    MaxFaults,       \* bound on failed calls and dying handlers
    Nobody           \* the advisory lock is free

ASSUME ConstantsOK ==
    /\ Known \subseteq Candidates
    /\ Lists \subseteq Seq(Candidates)
    /\ ForceModes \subseteq BOOLEAN
    /\ MaxAttempts \in Nat \ {0}
    /\ MaxFaults \in Nat
    /\ Nobody \notin Requests
    /\ IsFiniteSet(Workers)

VARIABLES
    batch,       \* table batch_score_jobs: batch -> Row
    payload,     \* the coordinator message of a batch: candidate list and force flag
    jobLock,     \* holder of the advisory transaction lock of the job
    request,     \* state of every API call
    coordLeft,   \* deliveries left of the coordinator message of a batch
    workLeft,    \* deliveries left of the worker message of a batch and candidate
    sent,        \* worker messages whose deduplication id the broker has seen
    coordinator, \* state of every coordinator invocation
    worker,      \* state of every worker invocation
    poller,      \* state of every status poll
    linked,      \* candidates bound to the job (table job_candidates)
    current,     \* candidates with a current score for the job
    fresh,       \* those whose current score is less than 24 hours old
    recentRows,  \* score rows a batch has written for a candidate, less than 24 hours old
    faults       \* failures still to come

messages == <<coordLeft, workLeft, sent>>
scores == <<linked, current, fresh, recentRows>>
callers == <<jobLock, request>>
vars == <<batch, payload, callers, messages, coordinator, worker, poller, scores, faults>>

Entries(list) == {list[i] : i \in DOMAIN list}
Targets(b) == Entries(payload[b].list)

Idle == [pc |-> "idle"]

Init ==
    /\ batch = [b \in Batches |-> NoRow]
    /\ payload = [b \in Batches |-> [list |-> <<>>, force |-> FALSE]]
    /\ jobLock = Nobody
    /\ request = [r \in Requests |-> Idle]
    /\ coordLeft = [b \in Batches |-> 0]
    /\ workLeft = [b \in Batches |-> [c \in Candidates |-> 0]]
    /\ sent = [b \in Batches |-> {}]
    /\ coordinator = [k \in Coordinators |-> Idle]
    /\ worker = [w \in Workers |-> Idle]
    /\ poller = [p \in Pollers |-> Idle]
    /\ linked \in SUBSET Known
    /\ current \in SUBSET linked
    /\ fresh \in SUBSET current
    /\ recentRows = [b \in Batches |-> [c \in Candidates |-> 0]]
    /\ faults = MaxFaults

Fault == faults > 0 /\ faults' = faults - 1
-----------------------------------------------------------------------------
(* The API request.                                                        *)

\* Mutant: no advisory lock is waited for.
MutantLockIgnored(r) ==
    /\ request[r] = Idle
    /\ jobLock' = r
    /\ request' = [request EXCEPT ![r] = [pc |-> "locked"]]
    /\ UNCHANGED <<batch, payload, messages, coordinator, worker, poller, scores, faults>>

\* pg_advisory_xact_lock: blocks while another transaction holds the lock.
LockJob(r) ==
    /\ request[r] = Idle
    /\ jobLock = Nobody
    /\ jobLock' = r
    /\ request' = [request EXCEPT ![r] = [pc |-> "locked"]]
    /\ UNCHANGED <<batch, payload, messages, coordinator, worker, poller, scores, faults>>

Release(r) == jobLock' = IF jobLock = r THEN Nobody ELSE jobLock

\* An active batch exists: answer with it; the session closes, which ends the
\* transaction and releases the lock.
ReuseActive(r) ==
    /\ request[r].pc = "locked"
    /\ \E b \in Batches : IsActive(batch[b])
    /\ Release(r)
    /\ request' = [request EXCEPT ![r] = [pc |-> "done"]]
    /\ UNCHANGED <<batch, payload, messages, coordinator, worker, poller, scores, faults>>

\* Mutant: no look-up of an active batch before the INSERT.
MutantNoActiveCheck(r) ==
    /\ request[r].pc = "locked"
    /\ \E b \in Batches, list \in Lists, force \in ForceModes :
          /\ batch[b].status = "absent"
          /\ request' = [request EXCEPT ![r] = [pc |-> "inserted", batch |-> b,
                                                list |-> list, force |-> force]]
    /\ UNCHANGED <<batch, payload, jobLock, messages, coordinator, worker, poller, scores, faults>>

\* INSERT of a row that nobody else sees before the commit.
InsertBatch(r) ==
    /\ request[r].pc = "locked"
    /\ \A b \in Batches : ~IsActive(batch[b])
    /\ \E b \in Batches, list \in Lists, force \in ForceModes :
          /\ batch[b].status = "absent"
          /\ request' = [request EXCEPT ![r] = [pc |-> "inserted", batch |-> b,
                                                list |-> list, force |-> force]]
    /\ UNCHANGED <<batch, payload, jobLock, messages, coordinator, worker, poller, scores, faults>>

CommitBatch(r) ==
    /\ request[r].pc = "inserted"
    /\ LET new == request[r] IN
          /\ batch' = [batch EXCEPT ![new.batch] = NewRow(Len(new.list))]
          /\ payload' = [payload EXCEPT ![new.batch] = [list |-> new.list, force |-> new.force]]
          /\ request' = [request EXCEPT ![r] = [pc |-> "committed", batch |-> new.batch]]
    /\ Release(r)
    /\ UNCHANGED <<messages, coordinator, worker, poller, scores, faults>>

PublishCoordinator(r) ==
    /\ request[r].pc = "committed"
    /\ coordLeft' = [coordLeft EXCEPT ![request[r].batch] = MaxAttempts]
    /\ request' = [request EXCEPT ![r] = [pc |-> "done"]]
    /\ UNCHANGED <<batch, payload, jobLock, workLeft, sent, coordinator, worker, poller, scores, faults>>

\* publish raises; the broker may have stored the message all the same.  The
\* row stays pending: it was committed before.
PublishCoordinatorFails(r) ==
    /\ request[r].pc = "committed"
    /\ Fault
    /\ \E left \in {0, MaxAttempts} :
          coordLeft' = [coordLeft EXCEPT ![request[r].batch] = left]
    /\ request' = [request EXCEPT ![r] = [pc |-> "done"]]
    /\ UNCHANGED <<batch, payload, jobLock, workLeft, sent, coordinator, worker, poller, scores>>

\* The process serving the call dies, or a statement fails: PostgreSQL rolls
\* the open transaction back and frees its lock.
RequestDies(r) ==
    /\ request[r].pc \in {"locked", "inserted", "committed"}
    /\ Fault
    /\ Release(r)
    /\ request' = [request EXCEPT ![r] = [pc |-> "done"]]
    /\ UNCHANGED <<batch, payload, messages, coordinator, worker, poller, scores>>

-----------------------------------------------------------------------------
(* The coordinator webhook.                                                *)

\* A delivery, up to and including the read of the batch row: a terminal
\* batch is acknowledged; an empty one is set to completed in the session but
\* never committed, so that the row keeps its state and only the answer says
\* "completed".
DeliverCoordinator(k, b) ==
    /\ coordinator[k] = Idle
    /\ coordLeft[b] > 0
    /\ coordLeft' = [coordLeft EXCEPT ![b] = @ - 1]
    /\ \/ /\ IsTerminal(batch[b])
          /\ coordinator' = [coordinator EXCEPT ![k] = [pc |-> "answer", batch |-> b]]
       \/ /\ IsActive(batch[b])
          /\ batch[b].queued = 0 \/ payload[b].list = <<>>
          /\ coordinator' = [coordinator EXCEPT ![k] = [pc |-> "zero", batch |-> b]]
       \/ /\ IsActive(batch[b])
          /\ batch[b].queued # 0 /\ payload[b].list # <<>>
          /\ coordinator' = [coordinator EXCEPT ![k] =
                                [pc |-> "read", batch |-> b, seen |-> batch[b].status]]
    /\ UNCHANGED <<batch, payload, callers, workLeft, sent, worker, poller, scores, faults>>

\* The conditional transition, committed before the first worker message; a
\* transition that somebody else has made meanwhile is not an error.
CommitProcessing(k) ==
    /\ coordinator[k].pc = "read"
    /\ LET b == coordinator[k].batch IN
          /\ batch' = IF coordinator[k].seen = "pending"
                      THEN [batch EXCEPT ![b] = TransitionToProcessing(@)]
                      ELSE batch
          /\ coordinator' = [coordinator EXCEPT ![k] = [pc |-> "fanout", batch |-> b, next |-> 1]]
    /\ UNCHANGED <<payload, callers, messages, worker, poller, scores, faults>>

\* The broker stores the worker message for candidate c of batch b.
Store(b, c) ==
    /\ workLeft' = [workLeft EXCEPT ![b][c] = @ + MaxAttempts]
    /\ sent' = [sent EXCEPT ![b] = @ \cup {c}]

\* A second message with a deduplication id the broker remembers is accepted
\* and dropped; the broker forgets ids after a while.
Deduplicate(b, c) ==
    /\ c \in sent[b]
    /\ UNCHANGED <<workLeft, sent>>

PublishWorker(k) ==
    /\ coordinator[k].pc = "fanout"
    /\ LET b == coordinator[k].batch
           n == coordinator[k].next
           c == payload[b].list[n]
       IN  /\ Store(b, c) \/ Deduplicate(b, c)
           /\ coordinator' = [coordinator EXCEPT ![k] =
                 IF n < Len(payload[b].list)
                 THEN [pc |-> "fanout", batch |-> b, next |-> n + 1]
                 ELSE [pc |-> "answer", batch |-> b]]
    /\ UNCHANGED <<batch, payload, callers, coordLeft, worker, poller, scores, faults>>

\* publish raises (with the message stored or not): 500, the broker retries
\* the coordinator, counters stay as they are.
PublishWorkerFails(k) ==
    /\ coordinator[k].pc = "fanout"
    /\ Fault
    /\ LET b == coordinator[k].batch
           c == payload[b].list[coordinator[k].next]
       IN  Store(b, c) \/ UNCHANGED <<workLeft, sent>>
    /\ coordinator' = [coordinator EXCEPT ![k] = Idle]
    /\ UNCHANGED <<batch, payload, callers, coordLeft, worker, poller, scores>>

\* A 2xx answer: the broker drops the copy it answers for.  Deliveries of
\* other copies stay, and so does this one when the answer is lost.
CoordinatorAnswers(k) ==
    /\ coordinator[k].pc \in {"answer", "zero"}
    /\ \E left \in 0 .. coordLeft[coordinator[k].batch] :
          coordLeft' = [coordLeft EXCEPT ![coordinator[k].batch] = left]
    /\ coordinator' = [coordinator EXCEPT ![k] = Idle]
    /\ UNCHANGED <<batch, payload, callers, workLeft, sent, worker, poller, scores, faults>>

CoordinatorDies(k) ==
    /\ coordinator[k] # Idle
    /\ Fault
    /\ coordinator' = [coordinator EXCEPT ![k] = Idle]
    /\ UNCHANGED <<batch, payload, callers, messages, worker, poller, scores>>
-----------------------------------------------------------------------------
(* The worker webhook.                                                     *)

\* Mutant: the 24-hour cache of scores is not consulted.
MutantNoCachedScore(w, b, c) ==
    /\ worker[w] = Idle
    /\ workLeft[b][c] > 0
    /\ workLeft' = [workLeft EXCEPT ![b][c] = @ - 1]
    /\ worker' = [worker EXCEPT ![w] = [batch |-> b, cand |-> c,
                      pc |-> CASE c \notin Known -> "failed"
                               [] c \in Known \ linked -> "rejected"
                               [] OTHER -> "evaluating"]]
    /\ UNCHANGED <<batch, payload, callers, coordLeft, sent, coordinator, poller, scores, faults>>

\* A delivery, up to and including the look-ups of score_candidate_sync: an
\* unknown candidate is claimed as failed; one that is not bound to the job is
\* bound without a stage, which the NOT NULL of current_stage_id refuses, so
\* that the flush raises; a score younger than 24 hours is returned unless
\* force_rescore is set; anything else goes to the model.
DeliverWorker(w, b, c) ==
    /\ worker[w] = Idle
    /\ workLeft[b][c] > 0
    /\ workLeft' = [workLeft EXCEPT ![b][c] = @ - 1]
    /\ \/ /\ c \notin Known
          /\ worker' = [worker EXCEPT ![w] = [pc |-> "failed", batch |-> b, cand |-> c]]
       \/ /\ c \in Known \ linked
          /\ worker' = [worker EXCEPT ![w] = [pc |-> "rejected", batch |-> b, cand |-> c]]
       \/ /\ c \in linked /\ c \in fresh /\ ~payload[b].force
          /\ worker' = [worker EXCEPT ![w] = [pc |-> "succeeded", batch |-> b, cand |-> c]]
       \/ /\ c \in linked /\ (c \notin fresh \/ payload[b].force)
          /\ worker' = [worker EXCEPT ![w] = [pc |-> "evaluating", batch |-> b, cand |-> c]]
    /\ UNCHANGED <<batch, payload, callers, coordLeft, sent, coordinator, poller, scores, faults>>

Goto(w, pc) == worker' = [worker EXCEPT ![w].pc = pc]

\* Mutant: the score is not committed before the claim.
MutantScoreNotCommitted(w) ==
    /\ worker[w].pc = "evaluating"
    /\ Goto(w, "succeeded")
    /\ UNCHANGED <<batch, payload, callers, messages, coordinator, poller, scores, faults>>

\* The model answers and create_score is committed, in a transaction of its
\* own: the claim below is another one.  CurrentScore models the inside of it.
Evaluated(w) ==
    /\ worker[w].pc = "evaluating"
    /\ LET b == worker[w].batch
           c == worker[w].cand
       IN  /\ current' = current \cup {c}
           /\ fresh' = fresh \cup {c}
           /\ recentRows' = [recentRows EXCEPT ![b][c] = @ + 1]
    /\ Goto(w, "succeeded")
    /\ UNCHANGED <<batch, payload, callers, messages, coordinator, poller, linked, faults>>

\* 429, 5xx, timeout, network or database error: a non-2xx answer without any
\* claim; the broker retries while it has deliveries left.
EvaluationRetryable(w) ==
    /\ worker[w].pc = "evaluating"
    /\ Fault
    /\ worker' = [worker EXCEPT ![w] = Idle]
    /\ UNCHANGED <<batch, payload, callers, messages, coordinator, poller, scores>>

\* Any other 4xx of the model: the engine raises an HTTPException ...
EvaluationRejected(w) ==
    /\ worker[w].pc = "evaluating"
    /\ Fault
    /\ Goto(w, "rejected")
    /\ UNCHANGED <<batch, payload, callers, messages, coordinator, poller, scores>>

\* ... which the webhook re-raises, as it turns an unexpected exception into a
\* 500: no claim, the session rolls back, and the broker retries.
AnswerRejected(w) ==
    /\ worker[w].pc = "rejected"
    /\ worker' = [worker EXCEPT ![w] = Idle]
    /\ UNCHANGED <<batch, payload, callers, messages, coordinator, poller, scores, faults>>

\* The model's answer does not validate: a terminal failure of the candidate.
EvaluationInvalid(w) ==
    /\ worker[w].pc = "evaluating"
    /\ Goto(w, "failed")
    /\ UNCHANGED <<batch, payload, callers, messages, coordinator, poller, scores, faults>>

ClaimWorkerSuccess(w) ==
    /\ worker[w].pc = "succeeded"
    /\ batch' = [batch EXCEPT ![worker[w].batch] = ClaimSuccess(@, worker[w].cand)]
    /\ Goto(w, "answer")
    /\ UNCHANGED <<payload, callers, messages, coordinator, poller, scores, faults>>

ClaimWorkerFailure(w) ==
    /\ worker[w].pc = "failed"
    /\ batch' = [batch EXCEPT ![worker[w].batch] = ClaimFailure(@, worker[w].cand)]
    /\ Goto(w, "answer")
    /\ UNCHANGED <<payload, callers, messages, coordinator, poller, scores, faults>>

WorkerAnswers(w) ==
    /\ worker[w].pc = "answer"
    /\ LET b == worker[w].batch
           c == worker[w].cand
       IN  \E left \in 0 .. workLeft[b][c] : workLeft' = [workLeft EXCEPT ![b][c] = left]
    /\ worker' = [worker EXCEPT ![w] = Idle]
    /\ UNCHANGED <<batch, payload, callers, coordLeft, sent, coordinator, poller, scores, faults>>

WorkerDies(w) ==
    /\ worker[w] # Idle
    /\ Fault
    /\ worker' = [worker EXCEPT ![w] = Idle]
    /\ UNCHANGED <<batch, payload, callers, messages, coordinator, poller, scores>>

-----------------------------------------------------------------------------
(* Time and the status poll.                                               *)

\* 24 hours pass without an update of an active batch.
Age(b) ==
    /\ IsActive(batch[b])
    /\ ~batch[b].aged
    /\ batch' = [batch EXCEPT ![b].aged = TRUE]
    /\ UNCHANGED <<payload, callers, messages, coordinator, worker, poller, scores, faults>>

\* A score turns 24 hours old, and so have the rows before it.
ScoreExpires(c) ==
    /\ c \in fresh
    /\ fresh' = fresh \ {c}
    /\ recentRows' = [b \in Batches |-> [recentRows[b] EXCEPT ![c] = 0]]
    /\ UNCHANGED <<batch, payload, callers, messages, coordinator, worker, poller,
                   linked, current, faults>>

\* Somebody adds a candidate of the tenant to the job; nobody is ever taken off
\* while job and candidate exist.
AddToJob(c) ==
    /\ c \in Known \ linked
    /\ linked' = linked \cup {c}
    /\ UNCHANGED <<batch, payload, callers, messages, coordinator, worker, poller,
                   current, fresh, recentRows, faults>>

\* Mutant: the 24-hour check forgets pending batches.
MutantReapsOnlyProcessing(p, b) ==
    /\ poller[p] = Idle
    /\ batch[b].status = "processing"
    /\ batch[b].aged
    /\ poller' = [poller EXCEPT ![p] = [pc |-> "reaping", batch |-> b]]
    /\ UNCHANGED <<batch, payload, callers, messages, coordinator, worker, scores, faults>>

\* The poll reads a stale active row ...
PollRead(p, b) ==
    /\ poller[p] = Idle
    /\ IsActive(batch[b])
    /\ batch[b].aged
    /\ poller' = [poller EXCEPT ![p] = [pc |-> "reaping", batch |-> b]]
    /\ UNCHANGED <<batch, payload, callers, messages, coordinator, worker, scores, faults>>

\* ... and writes its verdict, whatever the row has become.
PollWrite(p) ==
    /\ poller[p].pc = "reaping"
    /\ batch' = [batch EXCEPT ![poller[p].batch] = Reaped(@)]
    /\ poller' = [poller EXCEPT ![p] = Idle]
    /\ UNCHANGED <<payload, callers, messages, coordinator, worker, scores, faults>>

-----------------------------------------------------------------------------
RequestStep(r) ==
    \/ LockJob(r) \/ ReuseActive(r) \/ InsertBatch(r) \/ CommitBatch(r)
    \/ PublishCoordinator(r) \/ PublishCoordinatorFails(r) \/ RequestDies(r)

CoordinatorStep(k) ==
    \/ \E b \in Batches : DeliverCoordinator(k, b)
    \/ CommitProcessing(k) \/ PublishWorker(k) \/ PublishWorkerFails(k)
    \/ CoordinatorAnswers(k) \/ CoordinatorDies(k)

WorkerStep(w) ==
    \/ \E b \in Batches, c \in Candidates : DeliverWorker(w, b, c)
    \/ Evaluated(w) \/ EvaluationRetryable(w) \/ EvaluationRejected(w) \/ AnswerRejected(w)
    \/ EvaluationInvalid(w) \/ ClaimWorkerSuccess(w) \/ ClaimWorkerFailure(w)
    \/ WorkerAnswers(w) \/ WorkerDies(w)

PollerStep(p) == (\E b \in Batches : PollRead(p, b)) \/ PollWrite(p)

TimeStep ==
    \/ \E b \in Batches : Age(b)
    \/ \E c \in Candidates : ScoreExpires(c) \/ AddToJob(c)

Next ==
    \/ \E r \in Requests : RequestStep(r)
    \/ \E k \in Coordinators : CoordinatorStep(k)
    \/ \E w \in Workers : WorkerStep(w)
    \/ \E p \in Pollers : PollerStep(p)
    \/ TimeStep

Spec == Init /\ [][Next]_vars
-----------------------------------------------------------------------------
(* Type invariant.                                                         *)

RequestState ==
    {Idle} \cup [pc : {"locked", "done"}]
           \cup [pc : {"inserted"}, batch : Batches, list : Lists, force : BOOLEAN]
           \cup [pc : {"committed"}, batch : Batches]

CoordinatorState ==
    {Idle} \cup [pc : {"read"}, batch : Batches, seen : ActiveStatus]
           \cup [pc : {"fanout"}, batch : Batches, next : Nat \ {0}]
           \cup [pc : {"zero", "answer"}, batch : Batches]

WorkerState ==
    {Idle} \cup [pc : {"evaluating", "rejected", "succeeded", "failed", "answer"},
                 batch : Batches, cand : Candidates]

PollerState == {Idle} \cup [pc : {"reaping"}, batch : Batches]

\* Every variable stays in its type.
TypeOK ==
    /\ batch \in [Batches -> Row]
    /\ payload \in [Batches -> [list : Seq(Candidates), force : BOOLEAN]]
    /\ jobLock \in Requests \cup {Nobody}
    /\ request \in [Requests -> RequestState]
    /\ coordLeft \in [Batches -> Nat]
    /\ workLeft \in [Batches -> [Candidates -> Nat]]
    /\ sent \in [Batches -> SUBSET Candidates]
    /\ coordinator \in [Coordinators -> CoordinatorState]
    /\ worker \in [Workers -> WorkerState]
    /\ poller \in [Pollers -> PollerState]
    /\ linked \in SUBSET Known
    /\ current \in SUBSET linked
    /\ fresh \in SUBSET current
    /\ recentRows \in [Batches -> [Candidates -> Nat]]
    /\ faults \in Nat

-----------------------------------------------------------------------------
(* Safety.                                                                 *)

\* However many calls race, a job has at most one active batch: the look-up
\* for an active batch and the INSERT are covered by the advisory lock
\* (batch_score_async).
OneActiveBatch ==
    \A b1, b2 \in Batches : IsActive(batch[b1]) /\ IsActive(batch[b2]) => b1 = b2

\* Duplicate, concurrent and late deliveries never make the counters of a
\* batch differ from the candidates it recorded, and nobody is recorded both
\* as completed and as failed (the claim statements).
LedgerConsistent == \A b \in Batches : CountersMatchArrays(batch[b])

\* Status and counters agree after every step: no batch that has accounted
\* for its last entry is left active, none is completed early, and none is
\* completed with every candidate failed (_recompute_batch_status).
StatusConsistent == \A b \in Batches : StatusMatchesCounters(batch[b])

\* A candidate is recorded as completed only when it has a current score: the
\* score is committed before the claim (score_candidate_sync, worker webhook).
ScoredBeforeClaimed == \A b \in Batches : batch[b].completedIds \subseteq current

\* No worker message exists, and no worker runs, while its batch still reads
\* pending: the coordinator commits "processing" before it publishes.
FanOutAfterCommit ==
    \A b \in Batches : batch[b].status \in {"absent", "pending"} =>
        /\ sent[b] = {}
        /\ \A c \in Candidates : workLeft[b][c] = 0
        /\ \A w \in Workers : worker[w] # Idle => worker[w].batch # b

\* Once terminal, a batch never becomes active again and its counters and
\* arrays never change: late workers are fenced off (test_zombie_worker_fence).
TerminalIsFrozen ==
    [][\A b \in Batches : IsTerminal(batch[b]) =>
          /\ IsTerminal(batch'[b])
          /\ Processed(batch'[b]) = Processed(batch[b])
          /\ batch'[b].completedIds = batch[b].completedIds
          /\ batch'[b].failedIds = batch[b].failedIds]_vars

(* The parts of the inductive invariant that no property above states.      *)

\* The lock is held from its acquisition to the end of the transaction.
LockHeld == \A r \in Requests : request[r].pc \in {"locked", "inserted"} => jobLock = r

\* While a row is inserted but not committed, the job has no active batch.
InsertExclusive ==
    \A r \in Requests : request[r].pc = "inserted" =>
        /\ batch[request[r].batch].status = "absent"
        /\ \A b \in Batches : ~IsActive(batch[b])

\* An absent row has no content, a committed one counts its list.
RowMatchesPayload ==
    \A b \in Batches :
        /\ batch[b].status = "absent" => batch[b] = NoRow
        /\ batch[b].status # "absent" => batch[b].queued = Len(payload[b].list)

\* Whoever refers to a batch refers to a committed row ...
RequestsCommitted ==
    \A r \in Requests : request[r].pc = "committed" =>
        batch[request[r].batch].status # "absent"

MessagesCommitted == \A b \in Batches : coordLeft[b] > 0 => batch[b].status # "absent"

PollersCommitted ==
    \A p \in Pollers : poller[p] # Idle => batch[poller[p].batch].status # "absent"

\* ... and a coordinator that publishes has left "pending" behind.
CoordinatorsCommitted ==
    \A k \in Coordinators : coordinator[k] # Idle =>
        LET b == coordinator[k].batch IN
        /\ batch[b].status # "absent"
        /\ coordinator[k].pc = "read" =>
              /\ payload[b].list # <<>>
              /\ coordinator[k].seen = "processing" => batch[b].status # "pending"
        /\ coordinator[k].pc = "fanout" =>
              /\ batch[b].status # "pending"
              /\ coordinator[k].next \in 1 .. Len(payload[b].list)

ReferencesCommitted ==
    /\ RequestsCommitted /\ MessagesCommitted
    /\ PollersCommitted /\ CoordinatorsCommitted

\* Messages, workers and the row only ever name candidates of the request.
RowsNameTargets ==
    \A b \in Batches : batch[b].completedIds \cup batch[b].failedIds \subseteq Targets(b)

MessagesNameTargets ==
    \A b \in Batches :
        /\ sent[b] \subseteq Targets(b)
        /\ \A c \in Candidates : workLeft[b][c] > 0 => c \in Targets(b)

WorkersNameTargets ==
    \A w \in Workers : worker[w] # Idle => worker[w].cand \in Targets(worker[w].batch)

OnlyTargets == RowsNameTargets /\ MessagesNameTargets /\ WorkersNameTargets

\* A worker about to claim a success has a current score to show for it.
SuccessHasScore == \A w \in Workers : worker[w].pc = "succeeded" => worker[w].cand \in current

\* Only candidates of the job are evaluated.
EvaluatesLinked == \A w \in Workers : worker[w].pc = "evaluating" => worker[w].cand \in linked

\* The inductive invariant of Scoring_proofs: lock, payloads, references
\* and scores are what keeps the properties above true from step to step.
IInv ==
    /\ TypeOK
    /\ LockHeld /\ InsertExclusive /\ RowMatchesPayload /\ ReferencesCommitted
    /\ OnlyTargets /\ SuccessHasScore /\ EvaluatesLinked
    /\ OneActiveBatch /\ LedgerConsistent /\ StatusConsistent
    /\ ScoredBeforeClaimed /\ FanOutAfterCommit

\* Batch scoring implements the ledger: the mapping forgets counters,
\* messages and handlers.
Book == [b \in Batches |-> [status |-> batch[b].status, size |-> batch[b].queued,
                            scored |-> batch[b].completedIds,
                            failed |-> batch[b].failedIds]]

Ledger == INSTANCE BatchLedger WITH Sizes <- {Len(list) : list \in Lists}, ledger <- Book

ImplementsLedger == Ledger!Spec

-----------------------------------------------------------------------------
(* Paid evaluations.                                                        *)

Evaluating(b, c) == {w \in Workers : worker[w] = [pc |-> "evaluating", batch |-> b, cand |-> c]}

\* Without force_rescore, once a batch has written a score of a candidate no
\* delivery goes to the model for it again as long as that score is valid,
\* whether it is a duplicate, late, or follows a worker that died between the
\* score and the claim (score_candidate_sync).  Those already at the model may
\* still write theirs.
PaidOnce ==
    [][\A b \in Batches, c \in Candidates :
          ~payload[b].force /\ recentRows[b][c] > 0 => Evaluating(b, c)' \subseteq Evaluating(b, c)]_vars

\* So within 24 hours a batch writes no more scores of a candidate than worker
\* invocations overlap: one row if they do not.
OneScorePerWorker ==
    \A b \in Batches, c \in Candidates :
        ~payload[b].force => recentRows[b][c] <= Cardinality(Workers)

(* What it takes to prove them, beside IInv.                                *)

\* A batch has no score rows before its fan-out.
RowsAfterFanOut ==
    \A b \in Batches : batch[b].status \in {"absent", "pending"} =>
        \A c \in Candidates : recentRows[b][c] = 0

\* A recent row is one of a candidate whose score is valid.
RowsAreFresh ==
    \A b \in Batches, c \in Candidates : recentRows[b][c] > 0 => c \in fresh

\* Rows written and rows to come.
RowsAndEvaluations ==
    \A b \in Batches, c \in Candidates :
        ~payload[b].force =>
            recentRows[b][c] + Cardinality(Evaluating(b, c)) <= Cardinality(Workers)

ScoreIInv == RowsAfterFanOut /\ RowsAreFresh /\ RowsAndEvaluations

-----------------------------------------------------------------------------
(* Liveness.                                                               *)

\* Between its delivery and its answer an invocation runs on, unless it dies.
CoordinatorRuns(k) == CommitProcessing(k) \/ PublishWorker(k) \/ CoordinatorAnswers(k)

WorkerRuns(w) ==
    \/ Evaluated(w) \/ EvaluationInvalid(w) \/ AnswerRejected(w)
    \/ ClaimWorkerSuccess(w) \/ ClaimWorkerFailure(w) \/ WorkerAnswers(w)

\* The broker delivers what it has accepted, and invocations run on.
FairDelivery ==
    /\ \A k \in Coordinators : WF_vars(CoordinatorRuns(k))
    /\ \A w \in Workers : WF_vars(WorkerRuns(w))
    /\ \A b \in Batches :
          /\ WF_vars(\E k \in Coordinators : DeliverCoordinator(k, b))
          /\ \A c \in Candidates : WF_vars(\E w \in Workers : DeliverWorker(w, b, c))

\* Time passes, and the client polls the status url of its batch until it
\* reads a terminal status.
FairPolling ==
    /\ \A b \in Batches : WF_vars(Age(b)) /\ WF_vars(\E p \in Pollers : PollRead(p, b))
    /\ \A p \in Pollers : WF_vars(PollWrite(p))

\* No repetition and somebody to score.
WellFormed(list) == list # <<>> /\ Cardinality(Entries(list)) = Len(list)

\* With fewer failures than delivery attempts, an accepted coordinator message
\* of a well-formed batch ends in a terminal batch, by deliveries alone:
\* nobody has to poll.  That is, if by then all its candidates are bound to the
\* job or are none of the tenant's: every delivery for another one raises
\* (score_candidate_sync) and is never claimed.
AcceptedBatchSettles ==
    FairDelivery =>
        \A b \in Batches :
            /\ coordLeft[b] = MaxAttempts
            /\ WellFormed(payload[b].list)
            /\ Targets(b) \cap Known \subseteq linked
            ~> IsTerminal(batch[b])

\* Whatever is lost, an active batch that is polled becomes terminal, so that
\* the job can be scored again: the 24-hour check of get_task_status.  Neither
\* the broker nor the handlers need to be fair.
PolledBatchSettles ==
    FairPolling => \A b \in Batches : IsActive(batch[b]) ~> IsTerminal(batch[b])
=============================================================================
