---------------------------- MODULE ResumeParsing ----------------------------
(***************************************************************************)
(* The life of one resume row after its upload has been committed.         *)
(*                                                                         *)
(*   calls      the end of ResumeService.upload_resume, and any number of  *)
(*              ResumeService.retry_parse (resumes/service.py); each       *)
(*              commits a pending row and publishes one parse message      *)
(*   workers    parse_resume_webhook and parse_resume_pipeline             *)
(*              (apps/worker/src/main.py, pipeline.py)                     *)
(*   broker     QStash (external): every accepted message is delivered at  *)
(*              least once and at most MaxAttempts times, a new attempt    *)
(*              may start while an earlier one still runs                  *)
(*                                                                         *)
(* Every participant works on a copy of the row that its session loaded    *)
(* once.  The session's UPDATE names only the columns whose new value      *)
(* differs from that copy and has no condition but the id, so that what    *)
(* reaches the table depends on what was read, possibly long before.       *)
(***************************************************************************)
EXTENDS Integers, FiniteSets

CONSTANTS
    Upload,       \* the upload call
    Retries,      \* calls of retry_parse
    Workers,      \* webhook invocations that can be in flight together
    MaxAttempts,  \* deliveries the broker makes of one accepted message
    MaxFaults     \* bound on failed calls and dying processes

ASSUME ParsingConstantsOK ==
    /\ Upload \notin Retries
    /\ MaxAttempts \in Nat \ {0}
    /\ MaxFaults \in Nat

VARIABLES
    row,       \* status and parse_error of the resume; `data': parsed_data is set
    readable,  \* can text be extracted from the stored file?
    taken,     \* would the enrichment store an address of another candidate?
    clashed,   \* has that ever failed a delivery?
    call,      \* state of every call
    left,      \* deliveries left of the message each call publishes
    worker,    \* state of every worker invocation
    embedding, \* has the embedding of the candidate been asked for?
    faults     \* failures still to come

address == <<taken, clashed>>
vars == <<row, readable, address, call, left, worker, embedding, faults>>

Calls == {Upload} \cup Retries

\* parse_error: NULL, cleared by a retry or a success, or a message.
Errors == {"null", "cleared", "queue", "parse"}
Statuses == {"pending", "processing", "parsed", "failed"}
Row == [status : Statuses, error : Errors, data : BOOLEAN]

Terminal == {"parsed", "failed"}

Idle == [pc |-> "idle"]
Done == [pc |-> "done"]

At(pc, seen) == [pc |-> pc, seen |-> seen]

Fault == faults > 0 /\ faults' = faults - 1

\* The upload has committed a pending row with its file.
Init ==
    /\ row = [status |-> "pending", error |-> "null", data |-> FALSE]
    /\ readable \in BOOLEAN
    /\ taken \in BOOLEAN
    /\ clashed = FALSE
    /\ call = [c \in Calls |-> IF c = Upload THEN At("committed", row) ELSE Idle]
    /\ left = [c \in Calls |-> 0]
    /\ worker = [w \in Workers |-> Idle]
    /\ embedding = FALSE
    /\ faults = MaxFaults

\* Mutant: every flush writes all the columns of the session's copy.
MutantWritesWholeRow(seen, new) == new

\* The table after a session that has loaded `seen' flushes and commits `new':
\* only the columns that differ from the copy are written.
Flushed(seen, new) ==
    LET Column(f) == IF new[f] = seen[f] THEN row[f] ELSE new[f]
    IN  [status |-> Column("status"), error |-> Column("error"), data |-> Column("data")]

-----------------------------------------------------------------------------
(* The calls.                                                              *)

\* retry_parse goes on only with a failed resume.
RetryReads(t) ==
    /\ call[t].pc = "idle"
    /\ row.status = "failed"
    /\ call' = [call EXCEPT ![t] = At("retrying", row)]
    /\ UNCHANGED <<row, readable, address, left, worker, embedding, faults>>

RetryCommits(t) ==
    /\ call[t].pc = "retrying"
    /\ LET seen == call[t].seen
           new == [seen EXCEPT !.status = "pending", !.error = "cleared"]
       IN  /\ row' = Flushed(seen, new)
           /\ call' = [call EXCEPT ![t] = At("committed", new)]
    /\ UNCHANGED <<readable, address, left, worker, embedding, faults>>

\* Mutant: one deduplication id per resume; the broker drops the second message.
MutantConstantDedupId(c) ==
    /\ call[c].pc = "committed"
    /\ left' = [left EXCEPT ![c] = IF c = Upload THEN MaxAttempts ELSE 0]
    /\ call' = [call EXCEPT ![c] = Done]
    /\ UNCHANGED <<row, readable, address, worker, embedding, faults>>

\* _enqueue_parse_task: the deduplication id is new every time.
Publish(c) ==
    /\ call[c].pc = "committed"
    /\ left' = [left EXCEPT ![c] = MaxAttempts]
    /\ call' = [call EXCEPT ![c] = Done]
    /\ UNCHANGED <<row, readable, address, worker, embedding, faults>>

\* publish raises; the broker may have stored the message all the same.
PublishFails(c) ==
    /\ call[c].pc = "committed"
    /\ Fault
    /\ \E n \in {0, MaxAttempts} : left' = [left EXCEPT ![c] = n]
    /\ call' = [call EXCEPT ![c] = At("unqueued", @.seen)]
    /\ UNCHANGED <<row, readable, address, worker, embedding>>

\* The call records the queue error on the row it committed before.
MarkUnqueued(c) ==
    /\ call[c].pc = "unqueued"
    /\ LET seen == call[c].seen
       IN  row' = Flushed(seen, [seen EXCEPT !.status = "failed", !.error = "queue"])
    /\ call' = [call EXCEPT ![c] = Done]
    /\ UNCHANGED <<readable, address, left, worker, embedding, faults>>

CallDies(c) ==
    /\ call[c].pc \in {"retrying", "committed", "unqueued"}
    /\ Fault
    /\ call' = [call EXCEPT ![c] = Done]
    /\ UNCHANGED <<row, readable, address, left, worker, embedding>>

-----------------------------------------------------------------------------
(* The worker.                                                             *)

\* Mutant: a resume that somebody has begun to parse is skipped as well.
MutantSkipsProcessing(w, c) ==
    /\ worker[w].pc = "idle"
    /\ left[c] > 0
    /\ left' = [left EXCEPT ![c] = @ - 1]
    /\ worker' = [worker EXCEPT ![w] =
          [pc |-> IF row.status = "pending" THEN "read" ELSE "answer",
           seen |-> row, message |-> c]]
    /\ UNCHANGED <<row, readable, address, call, embedding, faults>>

\* A delivery, up to and including the read of the row: a terminal resume is
\* skipped and acknowledged.
Deliver(w, c) ==
    /\ worker[w].pc = "idle"
    /\ left[c] > 0
    /\ left' = [left EXCEPT ![c] = @ - 1]
    /\ worker' = [worker EXCEPT ![w] =
          [pc |-> IF row.status \in Terminal THEN "answer" ELSE "read",
           seen |-> row, message |-> c]]
    /\ UNCHANGED <<row, readable, address, call, embedding, faults>>

\* Position and session copy of a worker.
Moves(w, pc, seen) ==
    worker' = [worker EXCEPT ![w] = [pc |-> pc, seen |-> seen, message |-> @.message]]

\* A worker commits `new', which is then its session's copy.
Commits(w, pc, new) == row' = Flushed(worker[w].seen, new) /\ Moves(w, pc, new)

\* "processing" is committed before the file is fetched.
MarkProcessing(w) ==
    /\ worker[w].pc = "read"
    /\ Commits(w, "parsing", [worker[w].seen EXCEPT !.status = "processing"])
    /\ UNCHANGED <<readable, address, call, left, embedding, faults>>

\* The parser answers, or has failed for good and the deterministic parser
\* steps in: result, enriched candidate and audit record in one commit.
ParseSucceeds(w) ==
    /\ worker[w].pc = "parsing"
    /\ readable /\ ~taken
    /\ Commits(w, "trigger", [status |-> "parsed", error |-> "cleared", data |-> TRUE])
    /\ UNCHANGED <<readable, address, call, left, embedding, faults>>

\* The enrichment would give the candidate an address that another one of the
\* tenant holds: the unique index refuses its flush, at this delivery and at
\* every other until the address is free, and the whole session rolls back.
EnrichmentClashes(w) ==
    /\ worker[w].pc = "parsing"
    /\ readable /\ taken
    /\ clashed' = TRUE
    /\ worker' = [worker EXCEPT ![w] = Idle]
    /\ UNCHANGED <<row, readable, taken, call, left, embedding, faults>>

\* ResumeParseFailedError: the webhook commits the failure and acknowledges.
ExtractionFails(w) ==
    /\ worker[w].pc = "parsing"
    /\ ~readable
    /\ Commits(w, "answer", [worker[w].seen EXCEPT !.status = "failed", !.error = "parse"])
    /\ UNCHANGED <<readable, address, call, left, embedding, faults>>

\* Mutant: the webhook commits whatever exception it has caught.
MutantCommitsTransientFailure(w) ==
    /\ worker[w].pc = "parsing"
    /\ Fault
    /\ Commits(w, "answer", [worker[w].seen EXCEPT !.status = "failed", !.error = "parse"])
    /\ UNCHANGED <<readable, address, call, left, embedding>>

\* Any other exception: the pipeline sets "failed" in the session, the webhook
\* re-raises, the session rolls back, and the broker may deliver again.
TransientFailure(w) ==
    /\ worker[w].pc = "parsing"
    /\ Fault
    /\ worker' = [worker EXCEPT ![w] = Idle]
    /\ UNCHANGED <<row, readable, address, call, left, embedding>>

\* _trigger_candidate_embedding: an exception of the publish is swallowed.
TriggerEmbedding(w) ==
    /\ worker[w].pc = "trigger"
    /\ \/ embedding' = TRUE /\ UNCHANGED faults
       \/ Fault /\ UNCHANGED embedding
    /\ Moves(w, "answer", worker[w].seen)
    /\ UNCHANGED <<row, readable, address, call, left>>

\* 200: the broker makes no further attempt of this message.
WorkerAnswers(w) ==
    /\ worker[w].pc = "answer"
    /\ left' = [left EXCEPT ![worker[w].message] = 0]
    /\ worker' = [worker EXCEPT ![w] = Idle]
    /\ UNCHANGED <<row, readable, address, call, embedding, faults>>

\* The invocation dies, or its answer is lost.
WorkerDies(w) ==
    /\ worker[w].pc # "idle"
    /\ Fault
    /\ worker' = [worker EXCEPT ![w] = Idle]
    /\ UNCHANGED <<row, readable, address, call, left, embedding>>

\* Meanwhile the other candidate gets or loses the address, or this one gets
\* another by hand.
AddressChangesHands ==
    /\ taken' = ~taken
    /\ UNCHANGED <<row, readable, clashed, call, left, worker, embedding, faults>>

-----------------------------------------------------------------------------
CallStep(c) == Publish(c) \/ PublishFails(c) \/ MarkUnqueued(c) \/ CallDies(c)

WorkerRuns(w) ==
    \/ MarkProcessing(w) \/ ParseSucceeds(w) \/ EnrichmentClashes(w)
    \/ ExtractionFails(w) \/ TriggerEmbedding(w) \/ WorkerAnswers(w)

Next ==
    \/ \E t \in Retries : RetryReads(t) \/ RetryCommits(t)
    \/ \E c \in Calls : CallStep(c)
    \/ \E w \in Workers, c \in Calls : Deliver(w, c)
    \/ \E w \in Workers : WorkerRuns(w) \/ TransientFailure(w) \/ WorkerDies(w)
    \/ AddressChangesHands

Spec == Init /\ [][Next]_vars

\* The broker delivers what it has accepted, and invocations run on.
FairSpec ==
    /\ Spec
    /\ \A w \in Workers : WF_vars(WorkerRuns(w))
    /\ \A c \in Calls : WF_vars(\E w \in Workers : Deliver(w, c))

-----------------------------------------------------------------------------
CallState ==
    {Idle, Done} \cup [pc : {"retrying", "committed", "unqueued"}, seen : Row]

WorkerState ==
    {Idle} \cup [pc : {"read", "parsing", "trigger", "answer"}, seen : Row, message : Calls]

\* Every variable stays in its type.
TypeOK ==
    /\ row \in Row
    /\ readable \in BOOLEAN
    /\ taken \in BOOLEAN
    /\ clashed \in BOOLEAN
    /\ call \in [Calls -> CallState]
    /\ left \in [Calls -> Nat]
    /\ worker \in [Workers -> WorkerState]
    /\ embedding \in BOOLEAN
    /\ faults \in 0..MaxFaults

Settled == row.status \in Terminal

NothingFailed == faults = MaxFaults

\* The verdict fits the file: a timeout, a dying worker or an outage of the
\* parser never condemns a readable resume; only a publish that raised can.
VerdictIsRight ==
    /\ row.status = "parsed" => readable
    /\ row.status = "failed" /\ readable => ~NothingFailed /\ row.error # "parse"

\* Somebody still works, or will be made to work, on the resume.
InProgress ==
    \/ \E c \in Calls : call[c].pc = "committed" \/ left[c] > 0
    \/ \E w \in Workers : worker[w].pc \in {"read", "parsing"}

\* As long as nothing has failed and no address has clashed, no interleaving of
\* deliveries, retries and answers leaves a resume pending or processing with
\* nobody working on it.
NoResumeForgotten == NothingFailed /\ ~clashed => Settled \/ InProgress

\* The embedding is asked for only when the parsed data is committed, so that
\* the embedding worker finds the text.
EmbeddingAfterParse == embedding => row.data

\* Parsed data is never lost again, whatever is retried or delivered late, and
\* no step asks for the embedding before the data is committed.
DataIsKept == [][(row.data => row'.data) /\ (embedding' => row'.data)]_vars

(* The parts of the inductive invariant that no property above states.      *)

\* A session that has loaded the row.
Open(c) == call[c].pc \in {"retrying", "committed", "unqueued"}
Busy(w) == worker[w].pc # "idle"

\* A session's copy never knows of data that the table does not have.
CopiesHaveNoMoreData ==
    /\ \A c \in Calls : Open(c) /\ call[c].seen.data => row.data
    /\ \A w \in Workers : Busy(w) /\ worker[w].seen.data => row.data

\* Nobody has seen a parse error on a readable resume.
ReadableHasNoParseError ==
    readable =>
        /\ row.error # "parse"
        /\ \A c \in Calls : Open(c) => call[c].seen.error # "parse"
        /\ \A w \in Workers : Busy(w) => worker[w].seen.error # "parse"

\* Only a failed publish leads to "unqueued".
UnqueuedByFailure == \A c \in Calls : call[c].pc = "unqueued" => ~NothingFailed

\* A call that has not published has no message, and nobody handles it.
UnsentHasNoMessage ==
    \A c \in Calls : call[c].pc \in {"idle", "retrying", "committed"} =>
        /\ left[c] = 0
        /\ \A w \in Workers : Busy(w) => worker[w].message # c

\* What a worker knows of the row at the places where it matters.
WorkersKnow ==
    \A w \in Workers :
        /\ worker[w].pc = "parsing" => worker[w].seen.status = "processing"
        /\ worker[w].pc = "trigger" => row.data

\* Who is responsible for an unsettled resume: a call about to publish, a
\* worker on its way to a verdict, or a message that no worker is about to
\* acknowledge.
Responsible ==
    \/ \E c \in Calls : call[c].pc = "committed"
    \/ \E w \in Workers : worker[w].pc \in {"read", "parsing"}
    \/ \E c \in Calls :
          /\ left[c] > 0
          /\ \A w \in Workers : worker[w].pc \in {"trigger", "answer"} => worker[w].message # c

SomebodyIsResponsible == NothingFailed /\ ~clashed => Settled \/ Responsible

\* The inductive invariant of ResumeParsing_proofs.
IInv ==
    /\ TypeOK /\ CopiesHaveNoMoreData /\ ReadableHasNoParseError /\ UnqueuedByFailure
    /\ UnsentHasNoMessage /\ WorkersKnow /\ SomebodyIsResponsible
    /\ VerdictIsRight /\ NoResumeForgotten /\ EmbeddingAfterParse

(* Liveness.                                                                *)

\* With fewer failures than attempts, a message the broker has just accepted
\* settles the resume, by deliveries alone, unless the address of the resume
\* clashes: then every attempt may fail, and the resume stays in processing.
AcceptedResumeSettles == \A c \in Calls : left[c] = MaxAttempts ~> Settled \/ clashed
=============================================================================
