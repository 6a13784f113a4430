------------------------------ MODULE BatchRow ------------------------------
(***************************************************************************)
(* One row of the table batch_score_jobs (scores/models.py) and the SQL    *)
(* statements of scores/repository.py that write it.  Each statement is a  *)
(* single UPDATE, so under PostgreSQL's READ COMMITTED isolation it waits  *)
(* for the row lock and evaluates its WHERE clause on the newest committed *)
(* version: an operator from the row to its next version is faithful.      *)
(***************************************************************************)
EXTENDS Integers, FiniteSets

CONSTANT Candidates      \* the candidate identifiers a batch may name

\* Postgres arrays of distinct members are compared by membership only.
ASSUME CandidatesFinite == IsFiniteSet(Candidates)

ActiveStatus == {"pending", "processing"}
TerminalStatus == {"completed", "failed"}

\* The columns; `aged' says that updated_at lies more than 24 hours back, and
\* the status "absent" that no such row has been committed.
Row == [status         : {"absent"} \cup ActiveStatus \cup TerminalStatus,
        queued         : Nat,
        completedCount : Nat,
        failedCount    : Nat,
        completedIds   : SUBSET Candidates,
        failedIds      : SUBSET Candidates,
        aged           : BOOLEAN]

RowWith(status, n) ==
    [status |-> status, queued |-> n, completedCount |-> 0, failedCount |-> 0,
     completedIds |-> {}, failedIds |-> {}, aged |-> FALSE]

NoRow == RowWith("absent", 0)

\* INSERT by create_batch_score_job
NewRow(n) == RowWith("pending", n)

IsActive(row) == row.status \in ActiveStatus
IsTerminal(row) == row.status \in TerminalStatus

Processed(row) == row.completedCount + row.failedCount

\* Mutant: the transition forgets its condition on the status.
MutantUnconditionalTransition(row) ==
    [row EXCEPT !.status = "processing", !.aged = FALSE]

\* UPDATE ... SET status = 'processing' WHERE status = 'pending'; any UPDATE
\* refreshes updated_at.
TransitionToProcessing(row) ==
    IF row.status = "pending"
    THEN [row EXCEPT !.status = "processing", !.aged = FALSE]
    ELSE row

\* Mutant: the CASE forgets the branch that completes a batch.
MutantNeverFinishes(row) ==
    [row EXCEPT !.status = IF row.failedCount = row.queued THEN "failed" ELSE "processing"]

\* Mutant: off by one in the comparison with queued_count.
MutantFinishesEarly(row) ==
    [row EXCEPT !.status = IF Processed(row) + 1 < row.queued
                           THEN "processing" ELSE "completed"]

\* The CASE expression of _recompute_batch_status: SQL takes the first branch
\* that applies.
RecomputeBatchStatus(row) ==
    [row EXCEPT !.status =
        IF Processed(row) < row.queued      THEN "processing"
        ELSE IF row.failedCount = row.queued THEN "failed"
        ELSE IF Processed(row) = row.queued THEN "completed"
        ELSE @]

\* Mutant: the claim forgets the array conditions.
MutantClaimIgnoresIds(row, c) == IsActive(row)

\* Mutant: the claim forgets the fence on the status.
MutantClaimIgnoresStatus(row, c) == c \notin row.completedIds \cup row.failedIds

\* The WHERE clause shared by both claims.
Claimable(row, c) ==
    /\ IsActive(row)
    /\ c \notin row.completedIds
    /\ c \notin row.failedIds

\* claim_batch_score_worker_success: count and append in one UPDATE, then
\* recompute the status in the same transaction.
ClaimSuccess(row, c) ==
    IF Claimable(row, c)
    THEN RecomputeBatchStatus([row EXCEPT !.completedCount = @ + 1,
                                          !.completedIds = @ \cup {c},
                                          !.aged = FALSE])
    ELSE row

\* claim_batch_score_worker_failure
ClaimFailure(row, c) ==
    IF Claimable(row, c)
    THEN RecomputeBatchStatus([row EXCEPT !.failedCount = @ + 1,
                                          !.failedIds = @ \cup {c},
                                          !.aged = FALSE])
    ELSE row

\* The ORM assignment of the status poll: UPDATE ... SET status = 'failed'
\* WHERE id = ..., with no condition on the status the row has by then.
Reaped(row) == [row EXCEPT !.status = "failed", !.aged = FALSE]

-----------------------------------------------------------------------------
(* What every committed row satisfies; named parts of the invariants that   *)
(* BatchScoring states and Scoring_proofs proves.                           *)

\* The counters are the sizes of the two disjoint arrays.
CountersMatchArrays(row) ==
    /\ row.completedCount = Cardinality(row.completedIds)
    /\ row.failedCount = Cardinality(row.failedIds)
    /\ row.completedIds \cap row.failedIds = {}

\* An active row still waits for somebody; a row completed by its claims has
\* accounted for every queued entry and not every one failed.
StatusMatchesCounters(row) ==
    /\ row.status = "pending" => Processed(row) = 0
    /\ IsActive(row) => Processed(row) < row.queued \/ row.queued = 0
    /\ row.status = "completed" => /\ Processed(row) = row.queued
                                   /\ row.failedCount < row.queued
    /\ Processed(row) <= row.queued
=============================================================================
