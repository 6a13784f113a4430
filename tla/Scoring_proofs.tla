--------------------------- MODULE Scoring_proofs ---------------------------
(***************************************************************************)
(* Proofs about the two components of scoring, for any number of batches,  *)
(* calls, handlers, candidates, deliveries and failures: BatchScoring, the *)
(* batches of a job, and CurrentScore, the rows of one candidate.          *)
(*                                                                         *)
(* The inductive invariant of BatchScoring is IInv; its parts are grouped  *)
(* below by the variables they depend on, so that an action only has to    *)
(* say something about the groups it can disturb.  That of CurrentScore is *)
(* PairIInv: whoever has passed the unique index holds the locks of all    *)
(* current rows, locks are exclusive, and so the commit of a row replaces  *)
(* the whole of what was current.                                          *)
(***************************************************************************)
EXTENDS BatchScoring, CurrentScore, FiniteSetTheorems, TLAPS

-----------------------------------------------------------------------------
(* The statements of BatchRow: what each UPDATE preserves, on every row    *)
(* and for every set of candidates.                                        *)

\* A row whose counters, arrays and status agree.
SoundRow(row) ==
    /\ row \in Row
    /\ CountersMatchArrays(row)
    /\ StatusMatchesCounters(row)

\* What no UPDATE of a row ever does: lose soundness, create or delete the row,
\* resize it, send it back to pending or activate it again, and change the
\* accounting of a terminal row.
RowStep(old, new) ==
    /\ SoundRow(new)
    /\ new.queued = old.queued
    /\ new.status = "absent" <=> old.status = "absent"
    /\ new.status = "absent" => new = old
    /\ new.status = "pending" => old.status = "pending"
    /\ IsActive(new) => IsActive(old)
    /\ IsTerminal(old) => /\ IsTerminal(new)
                          /\ new.completedCount = old.completedCount
                          /\ new.failedCount = old.failedCount
                          /\ new.completedIds = old.completedIds
                          /\ new.failedIds = old.failedIds

\* Both arrays are finite.
LEMMA ArraysFinite ==
  ASSUME NEW row \in Row
  PROVE  IsFiniteSet(row.completedIds) /\ IsFiniteSet(row.failedIds)
  BY CandidatesFinite, FS_Subset DEF Row

\* An absent and a new row are sound.
LEMMA NewRowSound ==
  ASSUME NEW n \in Nat
  PROVE  SoundRow(NewRow(n)) /\ SoundRow(NoRow)
  BY FS_EmptySet DEF SoundRow, Row, NewRow, NoRow, RowWith, CountersMatchArrays,
     StatusMatchesCounters, Processed, IsActive, ActiveStatus, TerminalStatus

\* The conditional transition.
LEMMA TransitionStep ==
  ASSUME NEW row, SoundRow(row)
  PROVE  /\ RowStep(row, TransitionToProcessing(row))
         /\ TransitionToProcessing(row).status # "pending"
         /\ TransitionToProcessing(row).completedIds = row.completedIds
         /\ TransitionToProcessing(row).failedIds = row.failedIds
  BY DEF RowStep, SoundRow, Row, TransitionToProcessing, CountersMatchArrays,
     StatusMatchesCounters, Processed, IsActive, IsTerminal, ActiveStatus, TerminalStatus

\* Recomputing the status of a row with at least one queued entry, whose
\* counters have not overtaken it.
LEMMA RecomputeSound ==
  ASSUME NEW row \in Row, CountersMatchArrays(row),
         row.queued > 0, 0 < Processed(row), Processed(row) <= row.queued
  PROVE  /\ SoundRow(RecomputeBatchStatus(row))
         /\ RecomputeBatchStatus(row) =
               [row EXCEPT !.status = RecomputeBatchStatus(row).status]
         /\ RecomputeBatchStatus(row).status \in {"processing", "completed", "failed"}
  <1> DEFINE new == RecomputeBatchStatus(row)
  <1>1. /\ row.queued \in Nat /\ row.completedCount \in Nat /\ row.failedCount \in Nat
        /\ Processed(row) \in Nat
    BY DEF Row, Processed
  <1>2. PICK s \in {"processing", "completed", "failed"} :
          /\ new = [row EXCEPT !.status = s]
          /\ s = "processing" => Processed(row) < row.queued
          /\ s = "completed" => Processed(row) = row.queued /\ row.failedCount # row.queued
    <2>1. CASE Processed(row) < row.queued
      BY <2>1, <1>1 DEF RecomputeBatchStatus
    <2>2. CASE ~(Processed(row) < row.queued) /\ row.failedCount = row.queued
      BY <2>2, <1>1 DEF RecomputeBatchStatus
    <2>3. CASE row.failedCount # row.queued /\ Processed(row) = row.queued
      BY <2>3, <1>1 DEF RecomputeBatchStatus
    <2> QED
      BY <2>1, <2>2, <2>3, <1>1
  <1>3. /\ new \in Row
        /\ new.status = s /\ new.queued = row.queued
        /\ new.completedCount = row.completedCount /\ new.failedCount = row.failedCount
        /\ new.completedIds = row.completedIds /\ new.failedIds = row.failedIds
    BY <1>2 DEF Row, ActiveStatus, TerminalStatus
  <1>4. CountersMatchArrays(new)
    BY <1>3 DEF CountersMatchArrays
  <1>5. StatusMatchesCounters(new)
    BY <1>1, <1>2, <1>3 DEF StatusMatchesCounters, Processed, IsActive, ActiveStatus
  <1> QED
    BY <1>2, <1>3, <1>4, <1>5 DEF SoundRow

\* A successful claim counts the candidate it appends.
LEMMA ClaimSuccessStep ==
  ASSUME NEW row, SoundRow(row), NEW c \in Candidates, row.queued > 0
  PROVE  /\ RowStep(row, ClaimSuccess(row, c))
         /\ ClaimSuccess(row, c).completedIds \subseteq row.completedIds \cup {c}
         /\ ClaimSuccess(row, c).failedIds = row.failedIds
  <1>1. CASE ~Claimable(row, c)
    BY <1>1 DEF ClaimSuccess, RowStep, SoundRow
  <1>2. CASE Claimable(row, c)
    <2> DEFINE mid == [row EXCEPT !.completedCount = @ + 1,
                                  !.completedIds = @ \cup {c},
                                  !.aged = FALSE]
    <2>1. row \in Row /\ IsFiniteSet(row.completedIds)
      BY ArraysFinite DEF SoundRow
    <2>2. Cardinality(row.completedIds \cup {c}) = Cardinality(row.completedIds) + 1
      BY <1>2, <2>1, FS_AddElement DEF Claimable
    <2>3. mid \in Row
      <3>1. row.completedCount + 1 \in Nat /\ row.completedIds \cup {c} \in SUBSET Candidates
        BY <2>1 DEF Row
      <3> QED
        BY <2>1, <3>1 DEF Row
    <2>4. CountersMatchArrays(mid)
      BY <1>2, <2>1, <2>2 DEF SoundRow, CountersMatchArrays, Claimable, Row
    <2>5. mid.queued > 0 /\ 0 < Processed(mid) /\ Processed(mid) <= mid.queued
      BY <1>2, <2>1 DEF SoundRow, StatusMatchesCounters, Processed, Claimable, Row
    <2>6. ClaimSuccess(row, c) = RecomputeBatchStatus(mid)
      BY <1>2 DEF ClaimSuccess
    <2> HIDE DEF mid
    <2>7. /\ SoundRow(RecomputeBatchStatus(mid))
          /\ RecomputeBatchStatus(mid) = [mid EXCEPT !.status = RecomputeBatchStatus(mid).status]
          /\ RecomputeBatchStatus(mid).status \in {"processing", "completed", "failed"}
      BY <2>3, <2>4, <2>5, RecomputeSound
    <2> QED
      BY <1>2, <2>1, <2>6, <2>7
         DEF mid, RowStep, Claimable, IsActive, IsTerminal, ActiveStatus, TerminalStatus, Row
  <1> QED
    BY <1>1, <1>2

\* A failed one too.
LEMMA ClaimFailureStep ==
  ASSUME NEW row, SoundRow(row), NEW c \in Candidates, row.queued > 0
  PROVE  /\ RowStep(row, ClaimFailure(row, c))
         /\ ClaimFailure(row, c).failedIds \subseteq row.failedIds \cup {c}
         /\ ClaimFailure(row, c).completedIds = row.completedIds
  <1>1. CASE ~Claimable(row, c)
    BY <1>1 DEF ClaimFailure, RowStep, SoundRow
  <1>2. CASE Claimable(row, c)
    <2> DEFINE mid == [row EXCEPT !.failedCount = @ + 1,
                                  !.failedIds = @ \cup {c},
                                  !.aged = FALSE]
    <2>1. row \in Row /\ IsFiniteSet(row.failedIds)
      BY ArraysFinite DEF SoundRow
    <2>2. Cardinality(row.failedIds \cup {c}) = Cardinality(row.failedIds) + 1
      BY <1>2, <2>1, FS_AddElement DEF Claimable
    <2>3. mid \in Row
      <3>1. row.failedCount + 1 \in Nat /\ row.failedIds \cup {c} \in SUBSET Candidates
        BY <2>1 DEF Row
      <3> QED
        BY <2>1, <3>1 DEF Row
    <2>4. CountersMatchArrays(mid)
      BY <1>2, <2>1, <2>2 DEF SoundRow, CountersMatchArrays, Claimable, Row
    <2>5. mid.queued > 0 /\ 0 < Processed(mid) /\ Processed(mid) <= mid.queued
      BY <1>2, <2>1 DEF SoundRow, StatusMatchesCounters, Processed, Claimable, Row
    <2>6. ClaimFailure(row, c) = RecomputeBatchStatus(mid)
      BY <1>2 DEF ClaimFailure
    <2> HIDE DEF mid
    <2>7. /\ SoundRow(RecomputeBatchStatus(mid))
          /\ RecomputeBatchStatus(mid) = [mid EXCEPT !.status = RecomputeBatchStatus(mid).status]
          /\ RecomputeBatchStatus(mid).status \in {"processing", "completed", "failed"}
      BY <2>3, <2>4, <2>5, RecomputeSound
    <2> QED
      BY <1>2, <2>1, <2>6, <2>7
         DEF mid, RowStep, Claimable, IsActive, IsTerminal, ActiveStatus, TerminalStatus, Row
  <1> QED
    BY <1>1, <1>2

\* The status that goes with the accounted candidates.
SettledStatus(n, s, f) ==
    IF Cardinality(s) + Cardinality(f) < n THEN "processing"
    ELSE IF Cardinality(f) = n THEN "failed" ELSE "completed"

\* A claim that applies accounts for its candidate and sets the status to match.
LEMMA ClaimSuccessStatus ==
  ASSUME NEW row, SoundRow(row), NEW c \in Candidates, row.queued > 0, Claimable(row, c)
  PROVE  LET new == ClaimSuccess(row, c) IN
         /\ new.completedIds = row.completedIds \cup {c} /\ new.failedIds = row.failedIds
         /\ new.status = SettledStatus(row.queued, new.completedIds, new.failedIds)
  <1> DEFINE mid == [row EXCEPT !.completedCount = @ + 1,
                                !.completedIds = @ \cup {c},
                                !.aged = FALSE]
             new == ClaimSuccess(row, c)
  <1>1. RowStep(row, new)
    BY ClaimSuccessStep
  <1>2. /\ new.queued = row.queued /\ row.queued \in Nat
        /\ new.completedCount \in Nat /\ new.failedCount \in Nat
        /\ new.completedCount = Cardinality(new.completedIds)
        /\ new.failedCount = Cardinality(new.failedIds)
        /\ new.completedCount + new.failedCount <= new.queued
    BY <1>1 DEF RowStep, SoundRow, CountersMatchArrays, StatusMatchesCounters, Processed, Row
  <1>3. new = RecomputeBatchStatus(mid)
    BY DEF ClaimSuccess
  <1>4. /\ mid.completedIds = row.completedIds \cup {c} /\ mid.failedIds = row.failedIds
        /\ mid.queued = row.queued
    BY DEF SoundRow, Row
  <1>5. /\ new.completedIds = mid.completedIds /\ new.failedIds = mid.failedIds
        /\ new.completedCount = mid.completedCount /\ new.failedCount = mid.failedCount
        /\ new.status = IF Processed(mid) < mid.queued THEN "processing"
                        ELSE IF mid.failedCount = mid.queued THEN "failed"
                        ELSE IF Processed(mid) = mid.queued THEN "completed"
                        ELSE mid.status
    BY <1>3 DEF RecomputeBatchStatus, SoundRow, Row
  <1> HIDE DEF mid, new
  <1>6. new.status = SettledStatus(row.queued, new.completedIds, new.failedIds)
    BY <1>2, <1>4, <1>5 DEF Processed, SettledStatus
  <1> QED
    BY <1>4, <1>5, <1>6 DEF new

LEMMA ClaimFailureStatus ==
  ASSUME NEW row, SoundRow(row), NEW c \in Candidates, row.queued > 0, Claimable(row, c)
  PROVE  LET new == ClaimFailure(row, c) IN
         /\ new.failedIds = row.failedIds \cup {c} /\ new.completedIds = row.completedIds
         /\ new.status = SettledStatus(row.queued, new.completedIds, new.failedIds)
  <1> DEFINE mid == [row EXCEPT !.failedCount = @ + 1,
                                !.failedIds = @ \cup {c},
                                !.aged = FALSE]
             new == ClaimFailure(row, c)
  <1>1. RowStep(row, new)
    BY ClaimFailureStep
  <1>2. /\ new.queued = row.queued /\ row.queued \in Nat
        /\ new.completedCount \in Nat /\ new.failedCount \in Nat
        /\ new.completedCount = Cardinality(new.completedIds)
        /\ new.failedCount = Cardinality(new.failedIds)
        /\ new.completedCount + new.failedCount <= new.queued
    BY <1>1 DEF RowStep, SoundRow, CountersMatchArrays, StatusMatchesCounters, Processed, Row
  <1>3. new = RecomputeBatchStatus(mid)
    BY DEF ClaimFailure
  <1>4. /\ mid.failedIds = row.failedIds \cup {c} /\ mid.completedIds = row.completedIds
        /\ mid.queued = row.queued
    BY DEF SoundRow, Row
  <1>5. /\ new.completedIds = mid.completedIds /\ new.failedIds = mid.failedIds
        /\ new.completedCount = mid.completedCount /\ new.failedCount = mid.failedCount
        /\ new.status = IF Processed(mid) < mid.queued THEN "processing"
                        ELSE IF mid.failedCount = mid.queued THEN "failed"
                        ELSE IF Processed(mid) = mid.queued THEN "completed"
                        ELSE mid.status
    BY <1>3 DEF RecomputeBatchStatus, SoundRow, Row
  <1> HIDE DEF mid, new
  <1>6. new.status = SettledStatus(row.queued, new.completedIds, new.failedIds)
    BY <1>2, <1>4, <1>5 DEF Processed, SettledStatus
  <1> QED
    BY <1>4, <1>5, <1>6 DEF new

\* The verdict of a poll, on any committed row.
LEMMA ReapedStep ==
  ASSUME NEW row, SoundRow(row), row.status # "absent"
  PROVE  RowStep(row, Reaped(row))
  BY DEF RowStep, SoundRow, Row, Reaped, CountersMatchArrays, StatusMatchesCounters,
     Processed, IsActive, IsTerminal, ActiveStatus, TerminalStatus

\* An active row that nobody updates gets old.
LEMMA AgeStep ==
  ASSUME NEW row, SoundRow(row), IsActive(row)
  PROVE  RowStep(row, [row EXCEPT !.aged = TRUE])
  BY DEF RowStep, SoundRow, Row, CountersMatchArrays, StatusMatchesCounters,
     Processed, IsActive, IsTerminal, ActiveStatus, TerminalStatus

-----------------------------------------------------------------------------
(* The parts of the invariant.                                             *)

RowsPart == OneActiveBatch /\ LedgerConsistent /\ StatusConsistent /\ RowMatchesPayload
CallersPart == LockHeld /\ InsertExclusive /\ RequestsCommitted
LinksPart == MessagesCommitted /\ PollersCommitted /\ CoordinatorsCommitted
ScoresPart == SuccessHasScore /\ ScoredBeforeClaimed /\ EvaluatesLinked

\* The invariant is the conjunction of its groups.
LEMMA Groups ==
  IInv <=> TypeOK /\ RowsPart /\ CallersPart /\ LinksPart /\ OnlyTargets /\ ScoresPart
              /\ FanOutAfterCommit
  BY DEF IInv, RowsPart, CallersPart, LinksPart, ScoresPart, ReferencesCommitted

LEMMA GroupsPrime ==
  IInv' <=> /\ TypeOK' /\ RowsPart' /\ CallersPart' /\ LinksPart' /\ OnlyTargets'
            /\ ScoresPart' /\ FanOutAfterCommit'
  BY DEF IInv, RowsPart, CallersPart, LinksPart, ScoresPart, ReferencesCommitted

\* Every row has made a RowStep, which for most of them is none.
Evolved ==
    /\ batch' \in [Batches -> Row]
    /\ \A b \in Batches : RowStep(batch[b], batch'[b])

ArraysKept ==
    \A b \in Batches : /\ batch'[b].completedIds = batch[b].completedIds
                       /\ batch'[b].failedIds = batch[b].failedIds

-----------------------------------------------------------------------------
(* Rows.                                                                   *)

\* Rows are sound.
LEMMA RowsSound ==
  ASSUME IInv, NEW b \in Batches
  PROVE  SoundRow(batch[b])
  BY DEF IInv, TypeOK, LedgerConsistent, StatusConsistent, SoundRow

\* A step that leaves the table alone.
LEMMA RowsUnchanged ==
  ASSUME IInv, UNCHANGED batch
  PROVE  Evolved /\ ArraysKept
  BY RowsSound DEF Evolved, ArraysKept, RowStep, IInv, TypeOK

\* A step that updates one row.
LEMMA RowUpdated ==
  ASSUME IInv, NEW b \in Batches, NEW new, RowStep(batch[b], new),
         batch' = [batch EXCEPT ![b] = new]
  PROVE  /\ Evolved
         /\ batch'[b] = new
         /\ \A x \in Batches \ {b} : batch'[x] = batch[x]
  <1>1. batch \in [Batches -> Row] /\ new \in Row
    BY DEF IInv, TypeOK, RowStep, SoundRow
  <1>2. /\ batch' \in [Batches -> Row]
        /\ batch'[b] = new
        /\ \A x \in Batches \ {b} : batch'[x] = batch[x]
    BY <1>1
  <1>3. \A x \in Batches \ {b} : RowStep(batch[x], batch'[x])
    BY <1>2, RowsSound DEF RowStep
  <1> QED
    BY <1>2, <1>3 DEF Evolved

\* What the state of a call or of a handler carries.
LEMMA RequestShape ==
  ASSUME TypeOK, NEW r \in Requests
  PROVE  /\ request[r].pc = "inserted" =>
               request[r] \in [pc : {"inserted"}, batch : Batches, list : Lists, force : BOOLEAN]
         /\ request[r].pc = "committed" => request[r] \in [pc : {"committed"}, batch : Batches]
  <1>1. request[r] \in RequestState
    BY DEF TypeOK
  <1> QED
    BY <1>1 DEF RequestState, Idle

LEMMA CoordinatorShape ==
  ASSUME TypeOK, NEW k \in Coordinators, coordinator[k] # Idle
  PROVE  /\ coordinator[k].batch \in Batches
         /\ coordinator[k].pc \in {"read", "fanout", "zero", "answer"}
         /\ coordinator[k].pc = "read" =>
               coordinator[k] \in [pc : {"read"}, batch : Batches, seen : ActiveStatus]
         /\ coordinator[k].pc = "fanout" =>
               coordinator[k] \in [pc : {"fanout"}, batch : Batches, next : Nat \ {0}]
  <1>1. coordinator[k] \in CoordinatorState
    BY DEF TypeOK
  <1> QED
    BY <1>1 DEF CoordinatorState, Idle

LEMMA WorkerShape ==
  ASSUME TypeOK, NEW w \in Workers, worker[w] # Idle
  PROVE  worker[w] \in [pc : {"evaluating", "rejected", "succeeded", "failed", "answer"},
                        batch : Batches, cand : Candidates]
  BY DEF TypeOK, WorkerState

LEMMA PollerShape ==
  ASSUME TypeOK, NEW p \in Pollers, poller[p] # Idle
  PROVE  poller[p] \in [pc : {"reaping"}, batch : Batches]
  BY DEF TypeOK, PollerState

\* Updates never disturb the agreement of rows among each other and with the
\* payloads, ...
LEMMA RowsFrame ==
  ASSUME IInv, Evolved, UNCHANGED payload
  PROVE  RowsPart'
  <1> USE DEF IInv, Evolved
  <1>1. OneActiveBatch'
    BY DEF OneActiveBatch, RowStep
  <1>2. (LedgerConsistent /\ StatusConsistent)'
    BY DEF LedgerConsistent, StatusConsistent, RowStep, SoundRow
  <1>3. RowMatchesPayload'
    BY DEF RowMatchesPayload, RowStep
  <1> QED
    BY <1>1, <1>2, <1>3 DEF RowsPart

\* ... nor what the calls rely on, ...
LEMMA CallersFrame ==
  ASSUME IInv, Evolved, UNCHANGED callers
  PROVE  CallersPart'
  <1> USE DEF IInv, Evolved, callers
  <1>1. LockHeld'
    BY DEF LockHeld
  <1>2. InsertExclusive'
    BY RequestShape DEF InsertExclusive, RowStep
  <1>3. RequestsCommitted'
    BY RequestShape DEF ReferencesCommitted, RequestsCommitted, RowStep
  <1> QED
    BY <1>1, <1>2, <1>3 DEF CallersPart

\* ... nor messages, coordinators and polls.
LEMMA LinksFrame ==
  ASSUME IInv, Evolved, UNCHANGED <<payload, coordLeft, coordinator, poller>>
  PROVE  LinksPart'
  <1> USE DEF IInv, Evolved, ReferencesCommitted
  <1>1. MessagesCommitted'
    BY DEF MessagesCommitted, RowStep
  <1>2. PollersCommitted'
    BY PollerShape DEF PollersCommitted, RowStep
  <1>3. CoordinatorsCommitted'
    BY CoordinatorShape DEF CoordinatorsCommitted, RowStep
  <1> QED
    BY <1>1, <1>2, <1>3 DEF LinksPart

\* With the worker messages and the workers left alone, the rest stays too.
LEMMA WorkFrame ==
  ASSUME IInv, Evolved, ArraysKept, UNCHANGED <<payload, workLeft, sent, worker, current>>, linked \subseteq linked'
  PROVE  (OnlyTargets /\ ScoresPart /\ FanOutAfterCommit)'
  <1> USE DEF IInv, Evolved, ArraysKept
  <1>1. OnlyTargets'
    BY DEF OnlyTargets, RowsNameTargets, MessagesNameTargets, WorkersNameTargets, Targets
  <1>2. ScoresPart'
    BY DEF ScoresPart, SuccessHasScore, ScoredBeforeClaimed, EvaluatesLinked
  <1>3. FanOutAfterCommit'
    BY DEF FanOutAfterCommit, RowStep
  <1> QED
    BY <1>1, <1>2, <1>3

-----------------------------------------------------------------------------
(* The calls.                                                              *)

\* A call that only changes its own state and the lock leaves everything but
\* CallersPart as it was.
LEMMA OnlyCallers ==
  ASSUME IInv,
         UNCHANGED <<batch, payload, workLeft, sent, coordinator, worker, poller, scores>>,
         \A b \in Batches : coordLeft'[b] = coordLeft[b] \/ batch[b].status # "absent"
  PROVE  (RowsPart /\ LinksPart /\ OnlyTargets /\ ScoresPart /\ FanOutAfterCommit)'
  <1>1. Evolved /\ ArraysKept
    BY RowsUnchanged
  <1>2. RowsPart'
    BY <1>1, RowsFrame
  <1>3. (OnlyTargets /\ ScoresPart /\ FanOutAfterCommit)'
    BY <1>1, WorkFrame DEF scores
  <1>4. LinksPart'
    BY DEF LinksPart, IInv, ReferencesCommitted, MessagesCommitted, PollersCommitted,
           CoordinatorsCommitted
  <1> QED
    BY <1>2, <1>3, <1>4

\* Taking the lock.
LEMMA LockJobIInv ==
  ASSUME IInv, NEW r \in Requests, LockJob(r)
  PROVE  IInv'
  <1> USE DEF LockJob
  <1>1. TypeOK'
    BY DEF IInv, TypeOK, RequestState, messages, scores
  <1>2. (RowsPart /\ LinksPart /\ OnlyTargets /\ ScoresPart /\ FanOutAfterCommit)'
    BY OnlyCallers DEF messages
  <1>3. request' = [request EXCEPT ![r] = [pc |-> "locked"]] /\ request \in [Requests -> RequestState]
    BY DEF IInv, TypeOK
  <1>4. \A u \in Requests : request[u].pc \notin {"locked", "inserted"}
    BY ConstantsOK DEF IInv, LockHeld
  <1>5. LockHeld'
    BY <1>3, <1>4 DEF LockHeld
  <1>6. (InsertExclusive /\ RequestsCommitted)'
    BY <1>3, <1>4 DEF IInv, InsertExclusive, ReferencesCommitted, RequestsCommitted
  <1> QED
    BY <1>1, <1>2, <1>5, <1>6, GroupsPrime DEF CallersPart

\* A call that ends, whatever it had done, and frees the lock if it held it.
LEMMA CallEnds ==
  ASSUME IInv, NEW r \in Requests, UNCHANGED batch,
         request' = [request EXCEPT ![r] = [pc |-> "done"]],
         Release(r) \/ (request[r].pc = "committed" /\ UNCHANGED jobLock)
  PROVE  CallersPart'
  <1>1. /\ request'[r] = [pc |-> "done"]
        /\ \A u \in Requests \ {r} : request'[u] = request[u]
    BY DEF IInv, TypeOK
  <1>2. LockHeld'
    BY <1>1 DEF IInv, LockHeld, Release
  <1>3. (InsertExclusive /\ RequestsCommitted)'
    BY <1>1 DEF IInv, InsertExclusive, ReferencesCommitted, RequestsCommitted
  <1> QED
    BY <1>2, <1>3 DEF CallersPart

LEMMA ReuseActiveIInv ==
  ASSUME IInv, NEW r \in Requests, ReuseActive(r)
  PROVE  IInv'
  <1> USE DEF ReuseActive
  <1>1. TypeOK'
    BY DEF IInv, TypeOK, RequestState, messages, scores, Release
  <1>2. (RowsPart /\ LinksPart /\ OnlyTargets /\ ScoresPart /\ FanOutAfterCommit)'
    BY OnlyCallers DEF messages
  <1> QED
    BY <1>1, <1>2, CallEnds, GroupsPrime

LEMMA RequestDiesIInv ==
  ASSUME IInv, NEW r \in Requests, RequestDies(r)
  PROVE  IInv'
  <1> USE DEF RequestDies
  <1>1. TypeOK'
    BY DEF IInv, TypeOK, RequestState, messages, scores, Release, Fault
  <1>2. (RowsPart /\ LinksPart /\ OnlyTargets /\ ScoresPart /\ FanOutAfterCommit)'
    BY OnlyCallers DEF messages
  <1> QED
    BY <1>1, <1>2, CallEnds, GroupsPrime

\* The publish of the coordinator message, whatever comes of it.
LEMMA PublishIInv ==
  ASSUME IInv, NEW r \in Requests, PublishCoordinator(r) \/ PublishCoordinatorFails(r)
  PROVE  IInv'
  <1> USE DEF PublishCoordinator, PublishCoordinatorFails
  <1>1. PICK left \in {0, MaxAttempts} : coordLeft' = [coordLeft EXCEPT ![request[r].batch] = left]
    OBVIOUS
  <1>2. request[r].batch \in Batches /\ batch[request[r].batch].status # "absent"
    BY RequestShape DEF IInv, ReferencesCommitted, RequestsCommitted
  <1>3. TypeOK'
    <2>1. coordLeft' \in [Batches -> Nat]
      BY <1>1, <1>2, ConstantsOK DEF IInv, TypeOK
    <2>2. faults' \in Nat
      BY DEF IInv, TypeOK, Fault
    <2>3. request' \in [Requests -> RequestState]
      BY DEF IInv, TypeOK, RequestState
    <2> QED
      BY <2>1, <2>2, <2>3 DEF IInv, TypeOK, scores
  <1>4. \A b \in Batches : coordLeft'[b] = coordLeft[b] \/ batch[b].status # "absent"
    BY <1>1, <1>2 DEF IInv, TypeOK
  <1>5. (RowsPart /\ LinksPart /\ OnlyTargets /\ ScoresPart /\ FanOutAfterCommit)'
    BY <1>4, OnlyCallers
  <1>6. CallersPart'
    BY CallEnds
  <1> QED
    BY <1>3, <1>5, <1>6, GroupsPrime

\* The INSERT, while no other call can hold the lock.
LEMMA InsertBatchIInv ==
  ASSUME IInv, NEW r \in Requests, InsertBatch(r)
  PROVE  IInv'
  <1> USE DEF InsertBatch
  <1>1. PICK b \in Batches, list \in Lists, force \in ForceModes :
          /\ batch[b].status = "absent"
          /\ request' = [request EXCEPT ![r] = [pc |-> "inserted", batch |-> b,
                                                list |-> list, force |-> force]]
    OBVIOUS
  <1>2. TypeOK'
    BY <1>1, ConstantsOK DEF IInv, TypeOK, RequestState, messages, scores
  <1>3. (RowsPart /\ LinksPart /\ OnlyTargets /\ ScoresPart /\ FanOutAfterCommit)'
    BY OnlyCallers DEF messages
  <1>4. /\ request'[r] = [pc |-> "inserted", batch |-> b, list |-> list, force |-> force]
        /\ \A u \in Requests \ {r} : request'[u] = request[u]
    BY <1>1 DEF IInv, TypeOK
  <1>5. LockHeld'
    BY <1>4 DEF IInv, LockHeld
  <1>6. (InsertExclusive /\ RequestsCommitted)'
    BY <1>1, <1>4 DEF IInv, InsertExclusive, ReferencesCommitted, RequestsCommitted
  <1> QED
    BY <1>2, <1>3, <1>5, <1>6, GroupsPrime DEF CallersPart

\* The commit of a batch: the only step that makes a row appear.  Nothing can
\* refer to it yet, and its call holds the lock, so that no other row is active
\* and no other call is about to commit one.
LEMMA CommitBatchIInv ==
  ASSUME IInv, NEW r \in Requests, CommitBatch(r)
  PROVE  IInv'
  <1> DEFINE b == request[r].batch
             list == request[r].list
  <1> USE DEF CommitBatch
  <1>1. /\ request[r].pc = "inserted"
        /\ b \in Batches /\ list \in Seq(Candidates) /\ request[r].force \in BOOLEAN
    BY RequestShape, ConstantsOK DEF IInv
  <1>2. /\ batch[b].status = "absent"
        /\ \A x \in Batches : ~IsActive(batch[x])
    BY <1>1 DEF IInv, InsertExclusive
  <1>3. /\ request'[r] = [pc |-> "committed", batch |-> b]
        /\ \A u \in Requests \ {r} : request'[u] = request[u] /\ request[u].pc \notin {"locked", "inserted"}
    BY <1>1 DEF IInv, TypeOK, LockHeld
  <1>4. /\ Len(list) \in Nat
        /\ SoundRow(NewRow(Len(list)))
        /\ NewRow(Len(list)).status = "pending" /\ NewRow(Len(list)).queued = Len(list)
        /\ NewRow(Len(list)).completedIds = {} /\ NewRow(Len(list)).failedIds = {}
    BY <1>1, NewRowSound DEF NewRow, RowWith
  <1>5. /\ batch' \in [Batches -> Row]
        /\ batch'[b] = NewRow(Len(list))
        /\ \A x \in Batches \ {b} : batch'[x] = batch[x]
    BY <1>1, <1>4 DEF IInv, TypeOK, SoundRow
  <1>6. /\ payload' \in [Batches -> [list : Seq(Candidates), force : BOOLEAN]]
        /\ payload'[b].list = list
        /\ \A x \in Batches \ {b} : payload'[x] = payload[x]
    BY <1>1 DEF IInv, TypeOK
  <1> HIDE DEF b, list
  <1>7. TypeOK'
    <2>1. request' \in [Requests -> RequestState]
      BY <1>1 DEF IInv, TypeOK, RequestState, b
    <2>2. jobLock' \in Requests \cup {Nobody}
      BY DEF IInv, TypeOK, Release
    <2> QED
      BY <1>5, <1>6, <2>1, <2>2 DEF IInv, TypeOK, messages, scores
  <1>8. RowsPart'
    <2>1. OneActiveBatch'
      BY <1>2, <1>5 DEF OneActiveBatch
    <2>2. (LedgerConsistent /\ StatusConsistent)'
      BY <1>4, <1>5 DEF IInv, LedgerConsistent, StatusConsistent, SoundRow
    <2>3. RowMatchesPayload'
      BY <1>4, <1>5, <1>6 DEF IInv, RowMatchesPayload
    <2> QED
      BY <2>1, <2>2, <2>3 DEF RowsPart
  <1>9. CallersPart'
    <2>1. LockHeld'
      BY <1>3 DEF LockHeld
    <2>2. InsertExclusive'
      BY <1>3 DEF InsertExclusive
    <2>3. RequestsCommitted'
      BY <1>3, <1>4, <1>5 DEF IInv, ReferencesCommitted, RequestsCommitted
    <2> QED
      BY <2>1, <2>2, <2>3 DEF CallersPart
  <1>10. LinksPart'
    <2> USE <1>1, <1>2, <1>4, <1>5, <1>6 DEF IInv, ReferencesCommitted
    <2>1. MessagesCommitted'
      BY DEF MessagesCommitted, messages
    <2>2. PollersCommitted'
      BY DEF PollersCommitted
    <2>3. CoordinatorsCommitted'
      BY CoordinatorShape DEF CoordinatorsCommitted
    <2> QED
      BY <2>1, <2>2, <2>3 DEF LinksPart
  <1>11. sent[b] = {} /\ \A c \in Candidates : workLeft[b][c] = 0
    BY <1>1, <1>2 DEF IInv, FanOutAfterCommit
  <1>12. \A w \in Workers : worker[w] # Idle => worker[w].batch # b
    BY <1>1, <1>2 DEF IInv, FanOutAfterCommit
  <1>13. OnlyTargets'
    <2> USE <1>4, <1>5, <1>6, <1>11, <1>12 DEF IInv, OnlyTargets, Targets, messages
    <2>1. RowsNameTargets'
      BY DEF RowsNameTargets
    <2>2. MessagesNameTargets'
      BY DEF MessagesNameTargets
    <2>3. WorkersNameTargets'
      BY WorkerShape DEF WorkersNameTargets
    <2> QED
      BY <2>1, <2>2, <2>3
  <1>14. ScoresPart'
    BY <1>4, <1>5 DEF ScoresPart, IInv, SuccessHasScore, ScoredBeforeClaimed, EvaluatesLinked, scores
  <1>15. FanOutAfterCommit'
    BY <1>5, <1>11, <1>12 DEF IInv, FanOutAfterCommit, messages
  <1> QED
    BY <1>7, <1>8, <1>9, <1>10, <1>13, <1>14, <1>15, GroupsPrime

-----------------------------------------------------------------------------
(* The coordinator.                                                        *)

\* A coordinator that goes idle or only waits for its answer.
LEMMA CoordinatorRests ==
  ASSUME IInv, NEW k \in Coordinators, NEW state, UNCHANGED <<batch, payload, poller>>,
         coordinator' = [coordinator EXCEPT ![k] = state],
         \/ state = Idle
         \/ \E b \in Batches : /\ batch[b].status # "absent"
                               /\ state \in [pc : {"zero", "answer"}, batch : {b}],
         \A b \in Batches : coordLeft'[b] > 0 => coordLeft[b] > 0
  PROVE  coordinator' \in [Coordinators -> CoordinatorState] /\ LinksPart'
  <1> USE DEF IInv, ReferencesCommitted
  <1>1. coordinator' \in [Coordinators -> CoordinatorState]
    BY DEF TypeOK, CoordinatorState
  <1>2. /\ coordinator'[k] = state
        /\ \A j \in Coordinators \ {k} : coordinator'[j] = coordinator[j]
    BY DEF TypeOK
  <1>3. MessagesCommitted' /\ PollersCommitted'
    BY DEF MessagesCommitted, PollersCommitted
  <1>4. CoordinatorsCommitted'
    BY <1>2 DEF CoordinatorsCommitted, Idle
  <1> QED
    BY <1>1, <1>3, <1>4 DEF LinksPart

\* A delivery.
LEMMA DeliverCoordinatorIInv ==
  ASSUME IInv, NEW k \in Coordinators, NEW b \in Batches, DeliverCoordinator(k, b)
  PROVE  IInv'
  <1> USE DEF DeliverCoordinator
  <1>1. /\ coordLeft' \in [Batches -> Nat]
        /\ \A x \in Batches : coordLeft'[x] > 0 => coordLeft[x] > 0
    BY DEF IInv, TypeOK
  <1>2. batch[b].status # "absent"
    BY DEF IInv, ReferencesCommitted, MessagesCommitted
  <1>3. Evolved /\ ArraysKept
    BY RowsUnchanged
  <1>4. RowsPart' /\ CallersPart'
    BY <1>3, RowsFrame, CallersFrame
  <1>5. (OnlyTargets /\ ScoresPart /\ FanOutAfterCommit)'
    BY <1>3, WorkFrame DEF scores
  <1>6. coordinator' \in [Coordinators -> CoordinatorState] /\ LinksPart'
    <2>1. ASSUME NEW at \in {"zero", "answer"},
                 coordinator' = [coordinator EXCEPT ![k] = [pc |-> at, batch |-> b]]
          PROVE  coordinator' \in [Coordinators -> CoordinatorState] /\ LinksPart'
      BY <2>1, <1>1, <1>2, CoordinatorRests
    <2>2. ASSUME IsActive(batch[b]), payload[b].list # <<>>,
                 coordinator' = [coordinator EXCEPT ![k] =
                                    [pc |-> "read", batch |-> b, seen |-> batch[b].status]]
          PROVE  coordinator' \in [Coordinators -> CoordinatorState] /\ LinksPart'
      <3>1. coordinator' \in [Coordinators -> CoordinatorState]
        BY <2>2 DEF IInv, TypeOK, CoordinatorState, IsActive
      <3>2. /\ coordinator'[k] = [pc |-> "read", batch |-> b, seen |-> batch[b].status]
            /\ \A j \in Coordinators \ {k} : coordinator'[j] = coordinator[j]
        BY <2>2 DEF IInv, TypeOK
      <3>3. MessagesCommitted' /\ PollersCommitted'
        BY <1>1 DEF IInv, ReferencesCommitted, MessagesCommitted, PollersCommitted
      <3>4. CoordinatorsCommitted'
        BY <1>2, <2>2, <3>2 DEF IInv, ReferencesCommitted, CoordinatorsCommitted
      <3> QED
        BY <3>1, <3>3, <3>4 DEF LinksPart
    <2> QED
      BY <2>1, <2>2
  <1>7. TypeOK'
    BY <1>1, <1>6 DEF IInv, TypeOK, scores, callers
  <1> QED
    BY <1>4, <1>5, <1>6, <1>7, GroupsPrime

\* The transition updates the row of the batch, and leaves "pending" behind.
LEMMA TransitionRow ==
  ASSUME IInv, NEW k \in Coordinators, CommitProcessing(k)
  PROVE  LET b == coordinator[k].batch
             new == TransitionToProcessing(batch[b])
         IN  /\ b \in Batches /\ batch[b].status # "absent" /\ payload[b].list # <<>>
             /\ RowStep(batch[b], new)
             /\ new.completedIds = batch[b].completedIds /\ new.failedIds = batch[b].failedIds
             /\ \/ batch' = [batch EXCEPT ![b] = new]
                \/ UNCHANGED batch /\ batch[b].status # "pending"
             /\ Evolved /\ ArraysKept /\ batch'[b].status # "pending"
  <1> DEFINE b == coordinator[k].batch
             new == TransitionToProcessing(batch[b])
  <1> USE DEF CommitProcessing
  <1>1. /\ b \in Batches /\ coordinator[k] # Idle
        /\ coordinator[k].seen \in ActiveStatus
    BY CoordinatorShape DEF IInv, Idle
  <1>2. /\ batch[b].status # "absent" /\ payload[b].list # <<>>
        /\ coordinator[k].seen = "processing" => batch[b].status # "pending"
    BY <1>1 DEF IInv, ReferencesCommitted, CoordinatorsCommitted
  <1>3. /\ RowStep(batch[b], new) /\ new.status # "pending"
        /\ new.completedIds = batch[b].completedIds /\ new.failedIds = batch[b].failedIds
    BY <1>1, RowsSound, TransitionStep
  <1>4. CASE coordinator[k].seen = "pending"
    <2>1. batch' = [batch EXCEPT ![b] = new]
      BY <1>4
    <2>2. /\ Evolved
          /\ batch'[b] = new
          /\ \A x \in Batches \ {b} : batch'[x] = batch[x]
      BY <1>1, <1>3, <2>1, RowUpdated
    <2> QED
      BY <1>1, <1>2, <1>3, <2>1, <2>2 DEF ArraysKept
  <1>5. CASE coordinator[k].seen # "pending"
    BY <1>1, <1>2, <1>3, <1>5, RowsUnchanged DEF ActiveStatus
  <1> QED
    BY <1>4, <1>5

\* The transition to processing.
LEMMA CommitProcessingIInv ==
  ASSUME IInv, NEW k \in Coordinators, CommitProcessing(k)
  PROVE  IInv'
  <1> DEFINE b == coordinator[k].batch
  <1>1. /\ b \in Batches /\ batch[b].status # "absent" /\ payload[b].list # <<>>
        /\ Evolved /\ ArraysKept /\ batch'[b].status # "pending"
    BY TransitionRow
  <1> USE DEF CommitProcessing
  <1>2. /\ coordinator'[k] = [pc |-> "fanout", batch |-> b, next |-> 1]
        /\ \A j \in Coordinators \ {k} : coordinator'[j] = coordinator[j]
    BY DEF IInv, TypeOK
  <1>3. 1 \in 1 .. Len(payload[b].list)
    BY <1>1 DEF IInv, TypeOK
  <1>4. TypeOK'
    <2>1. coordinator' \in [Coordinators -> CoordinatorState]
      BY <1>1 DEF IInv, TypeOK, CoordinatorState
    <2> QED
      BY <1>1, <2>1 DEF IInv, TypeOK, Evolved, messages, scores, callers
  <1> HIDE DEF b
  <1>5. RowsPart' /\ CallersPart'
    BY <1>1, RowsFrame, CallersFrame
  <1>6. LinksPart'
    <2> USE <1>1 DEF IInv, ReferencesCommitted, Evolved
    <2>1. MessagesCommitted'
      BY DEF MessagesCommitted, RowStep, messages
    <2>2. PollersCommitted'
      BY PollerShape DEF PollersCommitted, RowStep
    <2>3. CoordinatorsCommitted'
      <3> SUFFICES ASSUME NEW j \in Coordinators, coordinator'[j] # Idle
                   PROVE  LET x == coordinator'[j].batch IN
                          /\ batch'[x].status # "absent"
                          /\ coordinator'[j].pc = "read" =>
                                /\ payload'[x].list # <<>>
                                /\ coordinator'[j].seen = "processing" => batch'[x].status # "pending"
                          /\ coordinator'[j].pc = "fanout" =>
                                /\ batch'[x].status # "pending"
                                /\ coordinator'[j].next \in 1 .. Len(payload'[x].list)
        BY DEF CoordinatorsCommitted
      <3>1. CASE j = k
        <4>1. batch'[b].status # "absent" /\ payload' = payload
          BY <1>1 DEF RowStep
        <4> QED
          BY <1>1, <1>2, <1>3, <3>1, <4>1
      <3>2. CASE j # k
        <4>1. /\ coordinator'[j] = coordinator[j] /\ coordinator[j] # Idle
              /\ coordinator[j].batch \in Batches /\ payload' = payload
          BY <1>2, <3>2, CoordinatorShape
        <4>2. /\ batch'[coordinator[j].batch].status = "absent" => batch[coordinator[j].batch].status = "absent"
              /\ batch'[coordinator[j].batch].status = "pending" => batch[coordinator[j].batch].status = "pending"
          BY <1>1, <4>1 DEF RowStep
        <4> QED
          BY <4>1, <4>2 DEF CoordinatorsCommitted
      <3> QED
        BY <3>1, <3>2
    <2> QED
      BY <2>1, <2>2, <2>3 DEF LinksPart
  <1>7. (OnlyTargets /\ ScoresPart /\ FanOutAfterCommit)'
    BY <1>1, WorkFrame DEF messages, scores
  <1> QED
    BY <1>4, <1>5, <1>6, <1>7, GroupsPrime

\* A worker message of the request, stored for a batch that is past "pending".
LEMMA StoreKeeps ==
  ASSUME IInv, NEW b \in Batches, NEW c \in Candidates, c \in Targets(b),
         batch[b].status \notin {"absent", "pending"},
         Store(b, c) \/ UNCHANGED <<workLeft, sent>>,
         UNCHANGED <<batch, payload, worker, linked, current>>
  PROVE  /\ workLeft' \in [Batches -> [Candidates -> Nat]]
         /\ sent' \in [Batches -> SUBSET Candidates]
         /\ (OnlyTargets /\ ScoresPart /\ FanOutAfterCommit)'
  <1>1. CASE UNCHANGED <<workLeft, sent>>
    BY <1>1, RowsUnchanged, WorkFrame DEF IInv, TypeOK
  <1>2. CASE Store(b, c)
    <2>1. /\ workLeft' \in [Batches -> [Candidates -> Nat]]
          /\ sent' \in [Batches -> SUBSET Candidates]
      BY <1>2, ConstantsOK DEF Store, IInv, TypeOK
    <2>2. \A x \in Batches, y \in Candidates :
              workLeft'[x][y] = workLeft[x][y] \/ (x = b /\ y = c)
      BY <1>2 DEF Store, IInv, TypeOK
    <2>3. \A x \in Batches : sent'[x] = sent[x] \/ (x = b /\ sent'[x] = sent[x] \cup {c})
      BY <1>2 DEF Store, IInv, TypeOK
    <2>4. OnlyTargets'
      BY <2>2, <2>3 DEF IInv, OnlyTargets, RowsNameTargets, MessagesNameTargets,
                       WorkersNameTargets, Targets
    <2>5. ScoresPart'
      BY DEF IInv, ScoresPart, SuccessHasScore, ScoredBeforeClaimed, EvaluatesLinked
    <2>6. FanOutAfterCommit'
      BY <2>2, <2>3 DEF IInv, FanOutAfterCommit
    <2> QED
      BY <2>1, <2>4, <2>5, <2>6
  <1> QED
    BY <1>1, <1>2

\* The entry a coordinator is about to publish.
LEMMA FanOutFacts ==
  ASSUME IInv, NEW k \in Coordinators, coordinator[k].pc = "fanout"
  PROVE  LET b == coordinator[k].batch
             n == coordinator[k].next
             c == payload[b].list[n]
         IN  /\ b \in Batches /\ batch[b].status \notin {"absent", "pending"}
             /\ n \in 1 .. Len(payload[b].list)
             /\ c \in Candidates /\ c \in Targets(b)
  <1>1. coordinator[k] # Idle
    BY DEF Idle
  <1>2. coordinator[k].batch \in Batches
    BY <1>1, CoordinatorShape DEF IInv
  <1>3. payload[coordinator[k].batch].list \in Seq(Candidates)
    BY <1>2 DEF IInv, TypeOK
  <1> QED
    BY <1>1, <1>2, <1>3 DEF IInv, ReferencesCommitted, CoordinatorsCommitted, Targets, Entries

\* One worker message.
LEMMA PublishWorkerIInv ==
  ASSUME IInv, NEW k \in Coordinators, PublishWorker(k)
  PROVE  IInv'
  <1> DEFINE b == coordinator[k].batch
             n == coordinator[k].next
             c == payload[b].list[n]
             next == IF n < Len(payload[b].list)
                     THEN [pc |-> "fanout", batch |-> b, next |-> n + 1]
                     ELSE [pc |-> "answer", batch |-> b]
  <1>0. /\ coordinator[k].pc = "fanout"
        /\ Store(b, c) \/ UNCHANGED <<workLeft, sent>>
        /\ coordinator' = [coordinator EXCEPT ![k] = next]
        /\ UNCHANGED <<batch, payload, callers, coordLeft, worker, poller, scores, faults>>
    BY DEF PublishWorker, Deduplicate
  <1>1. /\ b \in Batches /\ batch[b].status \notin {"absent", "pending"}
        /\ n \in 1 .. Len(payload[b].list)
        /\ c \in Candidates /\ c \in Targets(b)
    BY <1>0, FanOutFacts
  <1>2. Len(payload[b].list) \in Nat
    BY <1>1 DEF IInv, TypeOK
  <1>3. coordinator' \in [Coordinators -> CoordinatorState]
    <2>1. next \in CoordinatorState
      <3>1. n + 1 \in Nat \ {0}
        BY <1>1, <1>2
      <3> QED
        BY <1>1, <3>1 DEF CoordinatorState
    <2> HIDE DEF next
    <2> QED
      BY <1>0, <2>1 DEF IInv, TypeOK
  <1>4. /\ coordinator'[k] = next
        /\ \A j \in Coordinators \ {k} : coordinator'[j] = coordinator[j]
    BY <1>0 DEF IInv, TypeOK
  <1>5. next.batch = b /\ next.pc # "read" /\ (next.pc = "fanout" => next.next \in 1 .. Len(payload[b].list))
    BY <1>1, <1>2
  <1> HIDE DEF b, n, c, next
  <1>6. /\ workLeft' \in [Batches -> [Candidates -> Nat]]
        /\ sent' \in [Batches -> SUBSET Candidates]
        /\ (OnlyTargets /\ ScoresPart /\ FanOutAfterCommit)'
    BY <1>0, <1>1, StoreKeeps DEF scores
  <1>7. TypeOK'
    BY <1>0, <1>3, <1>6 DEF IInv, TypeOK, scores, callers
  <1>8. RowsPart' /\ CallersPart'
    BY <1>0, RowsUnchanged, RowsFrame, CallersFrame
  <1>9. LinksPart'
    <2>1. MessagesCommitted' /\ PollersCommitted'
      BY <1>0 DEF IInv, ReferencesCommitted, MessagesCommitted, PollersCommitted
    <2>2. CoordinatorsCommitted'
      BY <1>0, <1>1, <1>4, <1>5 DEF IInv, ReferencesCommitted, CoordinatorsCommitted
    <2> QED
      BY <2>1, <2>2 DEF LinksPart
  <1> QED
    BY <1>6, <1>7, <1>8, <1>9, GroupsPrime

LEMMA PublishWorkerFailsIInv ==
  ASSUME IInv, NEW k \in Coordinators, PublishWorkerFails(k)
  PROVE  IInv'
  <1> DEFINE b == coordinator[k].batch
             c == payload[b].list[coordinator[k].next]
  <1> USE DEF PublishWorkerFails
  <1>1. /\ b \in Batches /\ batch[b].status \notin {"absent", "pending"}
        /\ c \in Candidates /\ c \in Targets(b)
    BY FanOutFacts
  <1>2. /\ workLeft' \in [Batches -> [Candidates -> Nat]]
        /\ sent' \in [Batches -> SUBSET Candidates]
        /\ (OnlyTargets /\ ScoresPart /\ FanOutAfterCommit)'
    BY <1>1, StoreKeeps DEF scores
  <1>3. coordinator' \in [Coordinators -> CoordinatorState] /\ LinksPart'
    BY CoordinatorRests
  <1>4. TypeOK'
    <2>1. faults' \in Nat
      BY DEF IInv, TypeOK, Fault
    <2>2. UNCHANGED <<batch, payload, callers, coordLeft, worker, poller, scores>>
      OBVIOUS
    <2> QED
      BY <1>2, <1>3, <2>1, <2>2 DEF IInv, TypeOK, scores, callers
  <1>5. RowsPart' /\ CallersPart'
    BY RowsUnchanged, RowsFrame, CallersFrame
  <1> QED
    BY <1>2, <1>3, <1>4, <1>5, GroupsPrime

LEMMA CoordinatorAnswersIInv ==
  ASSUME IInv, NEW k \in Coordinators, CoordinatorAnswers(k)
  PROVE  IInv'
  <1> DEFINE b == coordinator[k].batch
  <1> USE DEF CoordinatorAnswers
  <1>1. b \in Batches
    BY CoordinatorShape DEF IInv, Idle
  <1>2. PICK left \in 0 .. coordLeft[b] : coordLeft' = [coordLeft EXCEPT ![b] = left]
    OBVIOUS
  <1>3. /\ coordLeft' \in [Batches -> Nat]
        /\ \A x \in Batches : coordLeft'[x] > 0 => coordLeft[x] > 0
    BY <1>1, <1>2 DEF IInv, TypeOK
  <1>4. coordinator' \in [Coordinators -> CoordinatorState] /\ LinksPart'
    BY <1>3, CoordinatorRests
  <1>5. TypeOK'
    BY <1>3, <1>4 DEF IInv, TypeOK, scores, callers
  <1>6. RowsPart' /\ CallersPart'
    BY RowsUnchanged, RowsFrame, CallersFrame
  <1>7. (OnlyTargets /\ ScoresPart /\ FanOutAfterCommit)'
    BY RowsUnchanged, WorkFrame DEF scores
  <1> QED
    BY <1>4, <1>5, <1>6, <1>7, GroupsPrime

LEMMA CoordinatorDiesIInv ==
  ASSUME IInv, NEW k \in Coordinators, CoordinatorDies(k)
  PROVE  IInv'
  <1> USE DEF CoordinatorDies
  <1>1. coordinator' \in [Coordinators -> CoordinatorState] /\ LinksPart'
    BY CoordinatorRests DEF messages
  <1>2. TypeOK'
    BY <1>1 DEF IInv, TypeOK, scores, callers, messages, Fault
  <1>3. RowsPart' /\ CallersPart'
    BY RowsUnchanged, RowsFrame, CallersFrame
  <1>4. (OnlyTargets /\ ScoresPart /\ FanOutAfterCommit)'
    BY RowsUnchanged, WorkFrame DEF scores, messages
  <1> QED
    BY <1>1, <1>2, <1>3, <1>4, GroupsPrime

-----------------------------------------------------------------------------
(* The worker.                                                             *)

\* A running worker works for a batch past "pending" on one of its entries.
LEMMA WorkerFacts ==
  ASSUME IInv, NEW w \in Workers, worker[w] # Idle
  PROVE  LET b == worker[w].batch
             c == worker[w].cand
         IN  /\ b \in Batches /\ c \in Candidates /\ c \in Targets(b)
             /\ batch[b].status \notin {"absent", "pending"}
             /\ batch[b].queued > 0
  <1> DEFINE b == worker[w].batch
             c == worker[w].cand
  <1>1. b \in Batches /\ c \in Candidates
    BY WorkerShape DEF IInv
  <1>2. c \in Targets(b) /\ batch[b].status \notin {"absent", "pending"}
    BY <1>1 DEF IInv, OnlyTargets, WorkersNameTargets, FanOutAfterCommit
  <1>3. payload[b].list \in Seq(Candidates) /\ batch[b].queued = Len(payload[b].list)
    BY <1>1, <1>2 DEF IInv, TypeOK, RowMatchesPayload
  <1>4. Len(payload[b].list) > 0
    BY <1>2, <1>3 DEF Targets, Entries
  <1> QED
    BY <1>1, <1>2, <1>3, <1>4

\* A worker that goes idle, or goes on with candidate c of batch b.
LEMMA WorkerFrame ==
  ASSUME IInv, Evolved, NEW w \in Workers, NEW b \in Batches, NEW c \in Candidates,
         c \in Targets(b), batch[b].status \notin {"absent", "pending"},
         NEW state,
         \/ state = Idle
         \/ state \in [pc : {"evaluating", "rejected", "succeeded", "failed", "answer"},
                       batch : {b}, cand : {c}],
         worker' = [worker EXCEPT ![w] = state],
         UNCHANGED <<payload, callers, coordLeft, sent, coordinator, poller>>,
         workLeft' \in [Batches -> [Candidates -> Nat]],
         \A x \in Batches, y \in Candidates : workLeft'[x][y] > 0 => workLeft[x][y] > 0,
         current \subseteq current',
         state.pc = "succeeded" => c \in current',
         linked \subseteq linked',
         state.pc = "evaluating" => c \in linked',
         \A x \in Batches :
             /\ batch'[x].completedIds \subseteq
                   batch[x].completedIds \cup (IF x = b /\ c \in current THEN {c} ELSE {})
             /\ batch'[x].failedIds \subseteq
                   batch[x].failedIds \cup (IF x = b THEN {c} ELSE {})
  PROVE  /\ worker' \in [Workers -> WorkerState]
         /\ (RowsPart /\ CallersPart /\ LinksPart /\ OnlyTargets /\ ScoresPart /\ FanOutAfterCommit)'
  <1>1. worker' \in [Workers -> WorkerState]
    BY DEF IInv, TypeOK, WorkerState
  <1>2. /\ worker'[w] = state
        /\ \A v \in Workers \ {w} : worker'[v] = worker[v]
    BY DEF IInv, TypeOK
  <1>3. (RowsPart /\ CallersPart /\ LinksPart)'
    BY RowsFrame, CallersFrame, LinksFrame
  <1>4. OnlyTargets'
    <2> USE DEF IInv, OnlyTargets, Targets
    <2>1. RowsNameTargets'
      BY DEF RowsNameTargets
    <2>2. MessagesNameTargets'
      BY DEF MessagesNameTargets, TypeOK
    <2>3. WorkersNameTargets'
      BY <1>2 DEF WorkersNameTargets
    <2> QED
      BY <2>1, <2>2, <2>3
  <1>5. SuccessHasScore' /\ EvaluatesLinked'
    BY <1>2 DEF IInv, SuccessHasScore, EvaluatesLinked, Idle
  <1>6. ScoredBeforeClaimed'
    BY DEF IInv, ScoredBeforeClaimed
  <1>7. FanOutAfterCommit'
    <2> SUFFICES ASSUME NEW x \in Batches, batch'[x].status \in {"absent", "pending"}
                 PROVE  /\ sent'[x] = {}
                        /\ \A y \in Candidates : workLeft'[x][y] = 0
                        /\ \A v \in Workers : worker'[v] # Idle => worker'[v].batch # x
      BY DEF FanOutAfterCommit
    <2>1. batch[x].status \in {"absent", "pending"}
      BY DEF Evolved, RowStep
    <2>2. sent[x] = {} /\ \A y \in Candidates : workLeft[x][y] = 0
      BY <2>1 DEF IInv, FanOutAfterCommit
    <2>3. \A v \in Workers : worker'[v] # Idle => worker'[v].batch # x
      BY <1>2, <2>1 DEF IInv, FanOutAfterCommit
    <2>4. \A y \in Candidates : workLeft'[x][y] = 0
      BY <2>2
    <2> QED
      BY <2>2, <2>3, <2>4
  <1> QED
    BY <1>1, <1>3, <1>4, <1>5, <1>6, <1>7 DEF ScoresPart

\* A delivery.
LEMMA DeliverWorkerIInv ==
  ASSUME IInv, NEW w \in Workers, NEW b \in Batches, NEW c \in Candidates, DeliverWorker(w, b, c)
  PROVE  IInv'
  <1>1. PICK at \in {"failed", "rejected", "succeeded", "evaluating"} :
          /\ worker' = [worker EXCEPT ![w] = [pc |-> at, batch |-> b, cand |-> c]]
          /\ at = "succeeded" => c \in fresh
          /\ at = "evaluating" => c \in linked
    BY DEF DeliverWorker
  <1> USE DEF DeliverWorker
  <1>2. c \in Targets(b) /\ batch[b].status \notin {"absent", "pending"}
    BY DEF IInv, OnlyTargets, MessagesNameTargets, FanOutAfterCommit
  <1>3. /\ workLeft' \in [Batches -> [Candidates -> Nat]]
        /\ \A x \in Batches, y \in Candidates : workLeft'[x][y] > 0 => workLeft[x][y] > 0
    BY DEF IInv, TypeOK
  <1>4. Evolved /\ ArraysKept
    BY RowsUnchanged
  <1>5. /\ current \subseteq current' /\ linked' = linked
        /\ at = "succeeded" => c \in current'
    BY <1>1 DEF IInv, TypeOK, scores
  <1> DEFINE state == [pc |-> at, batch |-> b, cand |-> c]
  <1>6. /\ worker' \in [Workers -> WorkerState]
        /\ (RowsPart /\ CallersPart /\ LinksPart /\ OnlyTargets /\ ScoresPart /\ FanOutAfterCommit)'
    <2>1. state \in [pc : {"evaluating", "rejected", "succeeded", "failed", "answer"},
                     batch : {b}, cand : {c}]
      OBVIOUS
    <2>2. /\ worker' = [worker EXCEPT ![w] = state]
          /\ state.pc = "succeeded" => c \in current'
          /\ state.pc = "evaluating" => c \in linked'
      BY <1>1, <1>5
    <2> HIDE DEF state
    <2> QED
      BY <1>2, <1>3, <1>4, <1>5, <2>1, <2>2, WorkerFrame DEF ArraysKept
  <1>7. TypeOK'
    BY <1>3, <1>6 DEF IInv, TypeOK, scores, callers
  <1> QED
    BY <1>6, <1>7, GroupsPrime

\* A worker that ends without a claim.
LEMMA WorkerStops ==
  ASSUME IInv, NEW w \in Workers, worker[w] # Idle,
         worker' = [worker EXCEPT ![w] = Idle],
         workLeft' \in [Batches -> [Candidates -> Nat]],
         \A x \in Batches, y \in Candidates : workLeft'[x][y] > 0 => workLeft[x][y] > 0,
         faults' \in Nat,
         UNCHANGED <<batch, payload, callers, coordLeft, sent, coordinator, poller, scores>>
  PROVE  IInv'
  <1>1. Evolved /\ ArraysKept
    BY RowsUnchanged
  <1>2. /\ worker' \in [Workers -> WorkerState]
        /\ (RowsPart /\ CallersPart /\ LinksPart /\ OnlyTargets /\ ScoresPart /\ FanOutAfterCommit)'
    BY <1>1, WorkerFacts, WorkerFrame DEF ArraysKept, scores, Idle
  <1>3. TypeOK'
    BY <1>2 DEF IInv, TypeOK, scores, callers
  <1> QED
    BY <1>2, <1>3, GroupsPrime

\* A worker that goes on without a claim.
LEMMA WorkerGoesOn ==
  ASSUME IInv, NEW w \in Workers, worker[w].pc = "evaluating",
         NEW at \in {"rejected", "succeeded", "failed"}, Goto(w, at),
         UNCHANGED <<batch, payload, callers, messages, coordinator, poller>>,
         faults' \in Nat,
         linked' = linked, current' \in SUBSET linked, fresh' \in SUBSET current',
         current \subseteq current',
         recentRows' \in [Batches -> [Candidates -> Nat]],
         at = "succeeded" => worker[w].cand \in current'
  PROVE  IInv'
  <1> DEFINE b == worker[w].batch
             c == worker[w].cand
             state == [worker[w] EXCEPT !.pc = at]
  <1>1. worker[w] # Idle
    BY DEF Idle
  <1>2. /\ b \in Batches /\ c \in Candidates /\ c \in Targets(b)
        /\ batch[b].status \notin {"absent", "pending"}
    BY <1>1, WorkerFacts
  <1>3. /\ state \in [pc : {"evaluating", "rejected", "succeeded", "failed", "answer"},
                      batch : {b}, cand : {c}]
        /\ state.pc = at
    BY <1>1, WorkerShape DEF IInv
  <1>4. worker' = [worker EXCEPT ![w] = state]
    BY DEF Goto
  <1>5. Evolved /\ ArraysKept
    BY RowsUnchanged
  <1>6. /\ workLeft' = workLeft
        /\ workLeft \in [Batches -> [Candidates -> Nat]]
    BY DEF messages, IInv, TypeOK
  <1> HIDE DEF b, c, state
  <1>7. /\ worker' \in [Workers -> WorkerState]
        /\ (RowsPart /\ CallersPart /\ LinksPart /\ OnlyTargets /\ ScoresPart /\ FanOutAfterCommit)'
    BY <1>2, <1>3, <1>4, <1>5, <1>6, WorkerFrame DEF ArraysKept, messages, c
  <1>8. TypeOK'
    BY <1>7 DEF IInv, TypeOK, messages, callers
  <1> QED
    BY <1>7, <1>8, GroupsPrime

LEMMA EvaluatedIInv ==
  ASSUME IInv, NEW w \in Workers, Evaluated(w)
  PROVE  IInv'
  <1> USE DEF Evaluated
  <1>1. worker[w].cand \in linked
    BY DEF IInv, EvaluatesLinked
  <1>2. current' \in SUBSET linked /\ fresh' \in SUBSET current'
    BY <1>1 DEF IInv, TypeOK
  <1>3. recentRows' \in [Batches -> [Candidates -> Nat]]
    BY WorkerShape DEF IInv, TypeOK, Idle
  <1> QED
    BY <1>2, <1>3, WorkerGoesOn DEF IInv, TypeOK

\* The evaluation ends in a terminal failure or a rejection.
LEMMA EvaluationFailsIInv ==
  ASSUME IInv, NEW w \in Workers, EvaluationInvalid(w) \/ EvaluationRejected(w)
  PROVE  IInv'
  <1>1. faults' \in Nat
    BY DEF EvaluationInvalid, EvaluationRejected, Fault, IInv, TypeOK
  <1>2. PICK at \in {"rejected", "failed"} : Goto(w, at)
    BY DEF EvaluationInvalid, EvaluationRejected
  <1> QED
    BY <1>1, <1>2, WorkerGoesOn DEF EvaluationInvalid, EvaluationRejected, scores, IInv, TypeOK

\* The worker ends: retryable failure, rejected, or dead.
LEMMA WorkerStopsIInv ==
  ASSUME IInv, NEW w \in Workers,
         EvaluationRetryable(w) \/ AnswerRejected(w) \/ WorkerDies(w)
  PROVE  IInv'
  <1>1. faults' \in Nat
    BY DEF EvaluationRetryable, AnswerRejected, WorkerDies, Fault, IInv, TypeOK
  <1>2. /\ worker[w] # Idle
        /\ worker' = [worker EXCEPT ![w] = Idle]
        /\ UNCHANGED <<batch, payload, callers, messages, coordinator, poller, scores>>
    BY DEF EvaluationRetryable, AnswerRejected, WorkerDies, Idle
  <1>3. workLeft' = workLeft /\ workLeft \in [Batches -> [Candidates -> Nat]]
    BY <1>2 DEF messages, IInv, TypeOK
  <1> QED
    BY <1>1, <1>2, <1>3, WorkerStops DEF messages

LEMMA WorkerAnswersIInv ==
  ASSUME IInv, NEW w \in Workers, WorkerAnswers(w)
  PROVE  IInv'
  <1> DEFINE b == worker[w].batch
             c == worker[w].cand
  <1> USE DEF WorkerAnswers
  <1>1. worker[w] # Idle /\ b \in Batches /\ c \in Candidates
    BY WorkerFacts DEF Idle
  <1>2. PICK left \in 0 .. workLeft[b][c] : workLeft' = [workLeft EXCEPT ![b][c] = left]
    OBVIOUS
  <1>3. workLeft' \in [Batches -> [Candidates -> Nat]]
    BY <1>1, <1>2 DEF IInv, TypeOK
  <1>4. \A x \in Batches, y \in Candidates : workLeft'[x][y] > 0 => workLeft[x][y] > 0
    BY <1>1, <1>2 DEF IInv, TypeOK
  <1> QED
    BY <1>1, <1>3, <1>4, WorkerStops DEF IInv, TypeOK

\* A claim: an update of the row that appends the worker's candidate, and only
\* a candidate with a score is appended as completed.
LEMMA ClaimRow ==
  ASSUME IInv, NEW w \in Workers, ClaimWorkerSuccess(w) \/ ClaimWorkerFailure(w)
  PROVE  LET b == worker[w].batch
             c == worker[w].cand
             new == batch'[b]
         IN  /\ RowStep(batch[b], new)
             /\ batch' = [batch EXCEPT ![b] = new]
             /\ new.completedIds \subseteq
                   batch[b].completedIds \cup (IF c \in current THEN {c} ELSE {})
             /\ new.failedIds \subseteq batch[b].failedIds \cup {c}
             /\ Evolved
             /\ \A x \in Batches \ {b} : batch'[x] = batch[x]
  <1> DEFINE b == worker[w].batch
             c == worker[w].cand
             new == batch'[b]
  <1> USE DEF ClaimWorkerSuccess, ClaimWorkerFailure
  <1>1. worker[w] # Idle
    BY DEF Idle
  <1>2. /\ b \in Batches /\ c \in Candidates /\ batch[b].queued > 0 /\ SoundRow(batch[b])
    BY <1>1, WorkerFacts, RowsSound
  <1>3. CASE ClaimWorkerSuccess(w)
    <2>1. batch' = [batch EXCEPT ![b] = ClaimSuccess(batch[b], c)]
      BY <1>3
    <2>2. new = ClaimSuccess(batch[b], c)
      BY <1>2, <2>1 DEF IInv, TypeOK
    <2>3. c \in current
      BY <1>3 DEF IInv, SuccessHasScore
    <2>4. /\ RowStep(batch[b], ClaimSuccess(batch[b], c))
          /\ ClaimSuccess(batch[b], c).completedIds \subseteq batch[b].completedIds \cup {c}
          /\ ClaimSuccess(batch[b], c).failedIds = batch[b].failedIds
      BY <1>2, ClaimSuccessStep
    <2> HIDE DEF b, c, new
    <2>5. Evolved /\ \A x \in Batches \ {b} : batch'[x] = batch[x]
      BY <1>2, <2>1, <2>4, RowUpdated
    <2> QED
      BY <2>1, <2>2, <2>3, <2>4, <2>5 DEF b, c, new
  <1>4. CASE ClaimWorkerFailure(w)
    <2>1. batch' = [batch EXCEPT ![b] = ClaimFailure(batch[b], c)]
      BY <1>4
    <2>2. new = ClaimFailure(batch[b], c)
      BY <1>2, <2>1 DEF IInv, TypeOK
    <2>3. /\ RowStep(batch[b], ClaimFailure(batch[b], c))
          /\ ClaimFailure(batch[b], c).failedIds \subseteq batch[b].failedIds \cup {c}
          /\ ClaimFailure(batch[b], c).completedIds = batch[b].completedIds
      BY <1>2, ClaimFailureStep
    <2> HIDE DEF b, c, new
    <2>4. Evolved /\ \A x \in Batches \ {b} : batch'[x] = batch[x]
      BY <1>2, <2>1, <2>3, RowUpdated
    <2> QED
      BY <2>1, <2>2, <2>3, <2>4 DEF b, c, new
  <1> QED
    BY <1>3, <1>4

LEMMA ClaimIInv ==
  ASSUME IInv, NEW w \in Workers, ClaimWorkerSuccess(w) \/ ClaimWorkerFailure(w)
  PROVE  IInv'
  <1> DEFINE b == worker[w].batch
             c == worker[w].cand
             state == [worker[w] EXCEPT !.pc = "answer"]
             new == batch'[b]
  <1>1. /\ new.completedIds \subseteq
              batch[b].completedIds \cup (IF c \in current THEN {c} ELSE {})
        /\ new.failedIds \subseteq batch[b].failedIds \cup {c}
        /\ Evolved
        /\ \A x \in Batches \ {b} : batch'[x] = batch[x]
    BY ClaimRow
  <1> USE DEF ClaimWorkerSuccess, ClaimWorkerFailure
  <1>2. worker[w] # Idle
    BY DEF Idle
  <1>3. /\ b \in Batches /\ c \in Candidates /\ c \in Targets(b)
        /\ batch[b].status \notin {"absent", "pending"}
    BY <1>2, WorkerFacts
  <1>4. /\ state \in [pc : {"evaluating", "rejected", "succeeded", "failed", "answer"},
                      batch : {b}, cand : {c}]
        /\ state.pc = "answer"
    BY <1>2, WorkerShape DEF IInv
  <1>5. /\ worker' = [worker EXCEPT ![w] = state]
        /\ UNCHANGED <<payload, callers, messages, coordinator, poller, scores, faults>>
    BY DEF Goto
  <1>6. \A x \in Batches :
             /\ batch'[x].completedIds \subseteq
                   batch[x].completedIds \cup (IF x = b /\ c \in current THEN {c} ELSE {})
             /\ batch'[x].failedIds \subseteq
                   batch[x].failedIds \cup (IF x = b THEN {c} ELSE {})
    BY <1>1
  <1>7. workLeft' = workLeft /\ workLeft \in [Batches -> [Candidates -> Nat]]
    BY <1>5 DEF messages, IInv, TypeOK
  <1> HIDE DEF b, c, state, new
  <1>8. /\ worker' \in [Workers -> WorkerState]
        /\ (RowsPart /\ CallersPart /\ LinksPart /\ OnlyTargets /\ ScoresPart /\ FanOutAfterCommit)'
    <2>1. /\ UNCHANGED <<payload, callers, coordLeft, sent, coordinator, poller>>
          /\ current \subseteq current' /\ linked \subseteq linked'
          /\ workLeft' \in [Batches -> [Candidates -> Nat]]
          /\ \A x \in Batches, y \in Candidates : workLeft'[x][y] > 0 => workLeft[x][y] > 0
          /\ state.pc # "succeeded" /\ state.pc # "evaluating"
      BY <1>4, <1>5, <1>7 DEF messages, scores
    <2> QED
      BY <1>3, <1>1, <1>4, <1>5, <1>6, <2>1, WorkerFrame
  <1>9. TypeOK'
    BY <1>1, <1>5, <1>8 DEF IInv, TypeOK, Evolved, messages, scores, callers
  <1> QED
    BY <1>8, <1>9, GroupsPrime

-----------------------------------------------------------------------------
(* Time and the status poll.                                               *)

\* A row is updated, its arrays are kept, nobody else but polls moves, and
\* candidates are only ever added to the job.
LEMMA RowOnly ==
  ASSUME IInv, Evolved, ArraysKept,
         UNCHANGED <<payload, callers, messages, coordinator, worker, current, faults>>,
         linked' \in SUBSET Known, linked \subseteq linked', fresh' \in SUBSET current,
         recentRows' \in [Batches -> [Candidates -> Nat]], poller' \in [Pollers -> PollerState],
         \A p \in Pollers : \/ poller'[p] = poller[p]
                            \/ poller'[p] = Idle
                            \/ batch[poller'[p].batch].status # "absent" /\ poller'[p].batch \in Batches
  PROVE  IInv'
  <1>1. (RowsPart /\ CallersPart /\ OnlyTargets /\ ScoresPart /\ FanOutAfterCommit)'
    BY RowsFrame, CallersFrame, WorkFrame DEF messages, IInv, TypeOK
  <1>2. LinksPart'
    <2> USE DEF IInv, Evolved, ReferencesCommitted, messages
    <2>1. MessagesCommitted'
      BY DEF MessagesCommitted, RowStep
    <2>2. PollersCommitted'
      BY PollerShape DEF PollersCommitted, RowStep
    <2>3. CoordinatorsCommitted'
      BY CoordinatorShape DEF CoordinatorsCommitted, RowStep
    <2> QED
      BY <2>1, <2>2, <2>3 DEF LinksPart
  <1>3. TypeOK'
    BY DEF IInv, TypeOK, Evolved, messages, callers
  <1> QED
    BY <1>1, <1>2, <1>3, GroupsPrime

\* The update of the reaper or of time keeps the arrays.
LEMMA RowUpdateKeepsArrays ==
  ASSUME IInv, NEW b \in Batches, NEW new, RowStep(batch[b], new),
         new.completedIds = batch[b].completedIds, new.failedIds = batch[b].failedIds,
         batch' = [batch EXCEPT ![b] = new]
  PROVE  Evolved /\ ArraysKept
  BY RowUpdated DEF ArraysKept

\* Time only touches the age of a row.
LEMMA AgeRow ==
  ASSUME IInv, NEW b \in Batches, Age(b)
  PROVE  /\ Evolved /\ ArraysKept
         /\ \A x \in Batches : /\ batch'[x].status = batch[x].status
                               /\ batch'[x].queued = batch[x].queued
  <1> DEFINE new == [batch[b] EXCEPT !.aged = TRUE]
  <1>1. RowStep(batch[b], new)
    BY RowsSound, AgeStep DEF Age
  <1>2. /\ batch' = [batch EXCEPT ![b] = new]
        /\ new.status = batch[b].status /\ new.queued = batch[b].queued
        /\ new.completedIds = batch[b].completedIds /\ new.failedIds = batch[b].failedIds
    BY DEF Age, IInv, TypeOK, Row
  <1> HIDE DEF new
  <1>3. batch'[b] = new /\ \A x \in Batches \ {b} : batch'[x] = batch[x]
    BY <1>1, <1>2, RowUpdated
  <1> QED
    BY <1>1, <1>2, <1>3, RowUpdateKeepsArrays

LEMMA AgeIInv ==
  ASSUME IInv, NEW b \in Batches, Age(b)
  PROVE  IInv'
  BY AgeRow, RowOnly DEF Age, IInv, TypeOK, scores

LEMMA ScoreExpiresIInv ==
  ASSUME IInv, NEW c \in Candidates, ScoreExpires(c)
  PROVE  IInv'
  BY RowsUnchanged, RowOnly DEF ScoreExpires, IInv, TypeOK

LEMMA AddToJobIInv ==
  ASSUME IInv, NEW c \in Candidates, AddToJob(c)
  PROVE  IInv'
  BY RowsUnchanged, RowOnly DEF AddToJob, IInv, TypeOK

LEMMA PollReadIInv ==
  ASSUME IInv, NEW p \in Pollers, NEW b \in Batches, PollRead(p, b)
  PROVE  IInv'
  <1>1. poller' = [poller EXCEPT ![p] = [pc |-> "reaping", batch |-> b]]
    BY DEF PollRead
  <1>2. poller' \in [Pollers -> PollerState]
    BY <1>1 DEF IInv, TypeOK, PollerState
  <1>3. \A q \in Pollers : poller'[q] = poller[q] \/ poller'[q].batch = b
    BY <1>1 DEF IInv, TypeOK
  <1>4. batch[b].status # "absent"
    BY DEF PollRead, IsActive, ActiveStatus
  <1> QED
    BY <1>2, <1>3, <1>4, RowsUnchanged, RowOnly DEF PollRead, IInv, TypeOK, scores

\* The verdict of a poll changes the status of one committed row.
LEMMA PollRow ==
  ASSUME IInv, NEW p \in Pollers, PollWrite(p)
  PROVE  LET b == poller[p].batch IN
         /\ b \in Batches /\ batch[b].status # "absent"
         /\ Evolved /\ ArraysKept
         /\ batch'[b].status = "failed" /\ batch'[b].queued = batch[b].queued
         /\ \A x \in Batches \ {b} : batch'[x] = batch[x]
  <1> DEFINE b == poller[p].batch
             new == Reaped(batch[b])
  <1>1. b \in Batches /\ batch[b].status # "absent"
    BY PollerShape DEF PollWrite, IInv, ReferencesCommitted, PollersCommitted, Idle
  <1>2. RowStep(batch[b], new)
    BY <1>1, RowsSound, ReapedStep
  <1>3. /\ batch' = [batch EXCEPT ![b] = new]
        /\ new.status = "failed" /\ new.queued = batch[b].queued
        /\ new.completedIds = batch[b].completedIds /\ new.failedIds = batch[b].failedIds
    BY <1>1 DEF PollWrite, Reaped, IInv, TypeOK, Row
  <1> HIDE DEF b, new
  <1>4. batch'[b] = new /\ \A x \in Batches \ {b} : batch'[x] = batch[x]
    BY <1>1, <1>2, <1>3, RowUpdated
  <1> QED
    BY <1>1, <1>2, <1>3, <1>4, RowUpdateKeepsArrays DEF b

LEMMA PollWriteIInv ==
  ASSUME IInv, NEW p \in Pollers, PollWrite(p)
  PROVE  IInv'
  <1>1. Evolved /\ ArraysKept
    BY PollRow
  <1>2. /\ poller' \in [Pollers -> PollerState]
        /\ \A q \in Pollers : poller'[q] = poller[q] \/ poller'[q] = Idle
    BY DEF PollWrite, IInv, TypeOK, PollerState
  <1> QED
    BY <1>1, <1>2, RowOnly DEF PollWrite, IInv, TypeOK, scores

-----------------------------------------------------------------------------
(* The theorems.                                                           *)

\* The initial states satisfy the invariant.
LEMMA InitIInv == Init => IInv
  <1> SUFFICES ASSUME Init PROVE IInv
    OBVIOUS
  <1> USE DEF Init
  <1>1. /\ SoundRow(NoRow) /\ NoRow.status = "absent"
        /\ NoRow.completedIds = {} /\ NoRow.failedIds = {}
    BY NewRowSound DEF NoRow, RowWith
  <1>2. \A b \in Batches : batch[b] = NoRow
    OBVIOUS
  <1>3. TypeOK
    BY <1>1, ConstantsOK DEF TypeOK, SoundRow, RequestState, CoordinatorState, WorkerState, PollerState
  <1>4. RowsPart
    BY <1>1, <1>2 DEF RowsPart, OneActiveBatch, LedgerConsistent, StatusConsistent,
       RowMatchesPayload, SoundRow, IsActive, ActiveStatus
  <1>5. CallersPart
    BY DEF CallersPart, LockHeld, InsertExclusive, RequestsCommitted, Idle
  <1>6. LinksPart
    BY DEF LinksPart, MessagesCommitted, PollersCommitted, CoordinatorsCommitted
  <1>7. OnlyTargets
    BY <1>1, <1>2 DEF OnlyTargets, RowsNameTargets, MessagesNameTargets, WorkersNameTargets
  <1>8. ScoresPart
    BY <1>1, <1>2 DEF ScoresPart, SuccessHasScore, ScoredBeforeClaimed, EvaluatesLinked, Idle
  <1>9. FanOutAfterCommit
    BY DEF FanOutAfterCommit
  <1> QED
    BY <1>3, <1>4, <1>5, <1>6, <1>7, <1>8, <1>9, Groups

\* A stutter changes nothing.
LEMMA StutterIInv ==
  ASSUME IInv, UNCHANGED vars
  PROVE  IInv'
  BY RowsUnchanged, RowOnly DEF vars, scores, IInv, TypeOK

\* Every step preserves the invariant.
LEMMA NextIInv == IInv /\ [Next]_vars => IInv'
  <1> SUFFICES ASSUME IInv, [Next]_vars PROVE IInv'
    OBVIOUS
  <1>1. ASSUME NEW r \in Requests, RequestStep(r) PROVE IInv'
    BY <1>1, LockJobIInv, ReuseActiveIInv, InsertBatchIInv, CommitBatchIInv, PublishIInv,
       RequestDiesIInv DEF RequestStep
  <1>2. ASSUME NEW k \in Coordinators, CoordinatorStep(k) PROVE IInv'
    BY <1>2, DeliverCoordinatorIInv, CommitProcessingIInv, PublishWorkerIInv,
       PublishWorkerFailsIInv, CoordinatorAnswersIInv, CoordinatorDiesIInv DEF CoordinatorStep
  <1>3. ASSUME NEW w \in Workers, WorkerStep(w) PROVE IInv'
    BY <1>3, DeliverWorkerIInv, EvaluatedIInv, EvaluationFailsIInv, WorkerStopsIInv, ClaimIInv,
       WorkerAnswersIInv DEF WorkerStep
  <1>4. ASSUME NEW p \in Pollers, PollerStep(p) PROVE IInv'
    BY <1>4, PollReadIInv, PollWriteIInv DEF PollerStep
  <1>5. CASE TimeStep
    BY <1>5, AgeIInv, ScoreExpiresIInv, AddToJobIInv DEF TimeStep
  <1> QED
    BY <1>1, <1>2, <1>3, <1>4, <1>5, StutterIInv DEF Next

\* The inductive invariant holds in every reachable state.
THEOREM IInvHolds == Spec => []IInv
  BY InitIInv, NextIInv, PTL DEF Spec

\* The variables keep their types.
THEOREM TypeCorrect == Spec => []TypeOK
  BY IInvHolds, PTL DEF IInv

\* A job never has two active batches, however many calls race.
THEOREM AtMostOneActiveBatch == Spec => []OneActiveBatch
  BY IInvHolds, PTL DEF IInv

\* No delivery makes the counters of a batch differ from its arrays.
THEOREM LedgerStaysConsistent == Spec => []LedgerConsistent
  BY IInvHolds, PTL DEF IInv

\* The status of a batch always agrees with its counters.
THEOREM StatusStaysConsistent == Spec => []StatusConsistent
  BY IInvHolds, PTL DEF IInv

\* Nobody is recorded as completed without a score.
THEOREM ScoreComesFirst == Spec => []ScoredBeforeClaimed
  BY IInvHolds, PTL DEF IInv

\* No worker message exists before its batch reads processing.
THEOREM FanOutComesLater == Spec => []FanOutAfterCommit
  BY IInvHolds, PTL DEF IInv

-----------------------------------------------------------------------------
(* What a step may never do to the table.                                  *)

\* Every step but the commit of a new batch leaves the rows alone, or is one
\* of the updates of BatchRow.
LEMMA RowsEvolve ==
  ASSUME IInv, [Next]_vars, \A r \in Requests : ~CommitBatch(r)
  PROVE  Evolved
  <1>1. ASSUME NEW r \in Requests, RequestStep(r) PROVE UNCHANGED batch
    BY <1>1 DEF RequestStep, LockJob, ReuseActive, InsertBatch, PublishCoordinator,
                PublishCoordinatorFails, RequestDies
  <1>2. ASSUME NEW k \in Coordinators, CoordinatorStep(k) PROVE UNCHANGED batch \/ CommitProcessing(k)
    BY <1>2 DEF CoordinatorStep, DeliverCoordinator, PublishWorker, PublishWorkerFails,
                CoordinatorAnswers, CoordinatorDies
  <1>3. ASSUME NEW w \in Workers, WorkerStep(w)
        PROVE  UNCHANGED batch \/ ClaimWorkerSuccess(w) \/ ClaimWorkerFailure(w)
    BY <1>3 DEF WorkerStep, DeliverWorker, Evaluated, EvaluationRetryable, EvaluationRejected,
                AnswerRejected, EvaluationInvalid, WorkerAnswers, WorkerDies
  <1>4. ASSUME NEW p \in Pollers, PollerStep(p) PROVE UNCHANGED batch \/ PollWrite(p)
    BY <1>4 DEF PollerStep, PollRead
  <1>5. CASE TimeStep
    BY <1>5, AgeRow, RowsUnchanged DEF TimeStep, ScoreExpires, AddToJob
  <1>6. CASE UNCHANGED vars
    BY <1>6, RowsUnchanged DEF vars
  <1> QED
    BY <1>1, <1>2, <1>3, <1>4, <1>5, <1>6, RowsUnchanged, TransitionRow, ClaimRow, PollRow DEF Next

\* A terminal batch is never touched again, but for its status, which can only
\* become the other terminal one.
THEOREM TerminalStaysFrozen == Spec => TerminalIsFrozen
  <1> DEFINE Frozen ==
        \A b \in Batches : IsTerminal(batch[b]) =>
          /\ IsTerminal(batch'[b])
          /\ Processed(batch'[b]) = Processed(batch[b])
          /\ batch'[b].completedIds = batch[b].completedIds
          /\ batch'[b].failedIds = batch[b].failedIds
  <1>1. ASSUME IInv, [Next]_vars PROVE Frozen
    <2>1. CASE Evolved
      BY <2>1 DEF Evolved, RowStep, Processed
    <2>2. ASSUME NEW r \in Requests, CommitBatch(r) PROVE Frozen
      BY <1>1, <2>2, RequestShape DEF CommitBatch, IInv, TypeOK, InsertExclusive, IsTerminal, TerminalStatus
    <2> QED
      BY <1>1, <2>1, <2>2, RowsEvolve
  <1>2. IInv /\ [Next]_vars => [Frozen]_vars
    BY <1>1
  <1> QED
    BY <1>2, IInvHolds, PTL DEF Spec, TerminalIsFrozen

-----------------------------------------------------------------------------
(* Score rows.                                                             *)

\* What PaidOnce says of a step: no new evaluation of what is scored already.
PaysOnce ==
    \A b \in Batches, c \in Candidates :
        ~payload[b].force /\ recentRows[b][c] > 0 => Evaluating(b, c)' \subseteq Evaluating(b, c)

\* A step that writes no score and lets none expire, and pays once.
Quiet ==
    /\ UNCHANGED <<payload, recentRows>>
    /\ Evolved
    /\ fresh \subseteq fresh'
    /\ PaysOnce

\* A set of workers is finite, and its size is that of the set or less.
LEMMA WorkersCounted ==
  ASSUME NEW S \in SUBSET Workers
  PROVE  /\ IsFiniteSet(S)
         /\ Cardinality(S) \in Nat /\ Cardinality(Workers) \in Nat
         /\ Cardinality(S) <= Cardinality(Workers)
         /\ \A T \in SUBSET S : Cardinality(T) \in Nat /\ Cardinality(T) <= Cardinality(S)
  <1>1. IsFiniteSet(Workers)
    BY ConstantsOK
  <1>2. IsFiniteSet(S) /\ Cardinality(S) <= Cardinality(Workers)
    BY <1>1, FS_Subset
  <1>3. ASSUME NEW T \in SUBSET S
        PROVE  Cardinality(T) \in Nat /\ Cardinality(T) <= Cardinality(S)
    BY <1>2, FS_Subset, FS_CardinalityType
  <1> QED
    BY <1>1, <1>2, <1>3, FS_CardinalityType

\* Quiet steps preserve the invariant.
LEMMA QuietScores ==
  ASSUME IInv, ScoreIInv, Quiet
  PROVE  ScoreIInv'
  <1> USE DEF Quiet, ScoreIInv
  <1>1. RowsAfterFanOut'
    BY DEF RowsAfterFanOut, Evolved, RowStep
  <1>2. RowsAreFresh'
    BY DEF RowsAreFresh
  <1>3. RowsAndEvaluations'
    <2> SUFFICES ASSUME NEW b \in Batches, NEW c \in Candidates, ~payload[b].force
                 PROVE  recentRows[b][c] + Cardinality(Evaluating(b, c)') <= Cardinality(Workers)
      BY DEF RowsAndEvaluations
    <2>1. Evaluating(b, c) \in SUBSET Workers /\ Evaluating(b, c)' \in SUBSET Workers
      BY DEF Evaluating
    <2>2. recentRows[b][c] \in Nat
      BY DEF IInv, TypeOK
    <2>3. recentRows[b][c] + Cardinality(Evaluating(b, c)) <= Cardinality(Workers)
      BY DEF RowsAndEvaluations
    <2>4. CASE recentRows[b][c] = 0
      BY <2>1, <2>4, WorkersCounted
    <2>5. CASE recentRows[b][c] > 0
      <3>1. Evaluating(b, c)' \subseteq Evaluating(b, c)
        BY <2>5 DEF PaysOnce
      <3>2. Cardinality(Evaluating(b, c)') <= Cardinality(Evaluating(b, c))
        BY <2>1, <3>1, WorkersCounted
      <3> QED
        BY <2>1, <2>2, <2>3, <3>2, WorkersCounted
    <2> QED
      BY <2>2, <2>4, <2>5
  <1> QED
    BY <1>1, <1>2, <1>3

\* Steps of others than workers and time: calls up to the commit, coordinators,
\* polls.
LEMMA OthersScores ==
  ASSUME Evolved, UNCHANGED <<payload, worker, fresh, recentRows>>
  PROVE  Quiet
  BY DEF Quiet, PaysOnce, Evaluating

LEMMA CallQuiet ==
  ASSUME Evolved, NEW r \in Requests,
         \/ LockJob(r) \/ ReuseActive(r) \/ InsertBatch(r) \/ RequestDies(r)
         \/ PublishCoordinator(r) \/ PublishCoordinatorFails(r)
  PROVE  Quiet
  BY OthersScores DEF LockJob, ReuseActive, InsertBatch, RequestDies, PublishCoordinator,
     PublishCoordinatorFails, scores

LEMMA CoordinatorQuiet ==
  ASSUME Evolved, NEW k \in Coordinators, CoordinatorStep(k)
  PROVE  Quiet
  BY OthersScores DEF CoordinatorStep, DeliverCoordinator, CommitProcessing, PublishWorker,
     PublishWorkerFails, CoordinatorAnswers, CoordinatorDies, scores

\* The commit of a batch: nobody works for it yet, and it has no scores.
LEMMA CommitScores ==
  ASSUME IInv, ScoreIInv, NEW r \in Requests, CommitBatch(r)
  PROVE  ScoreIInv' /\ PaysOnce
  <1> USE DEF CommitBatch, ScoreIInv
  <1>1. PICK b \in Batches : request[r].batch = b /\ batch[b].status = "absent"
    BY RequestShape DEF IInv, InsertExclusive
  <1>2. /\ \A x \in Batches \ {b} : batch'[x] = batch[x] /\ payload'[x] = payload[x]
        /\ UNCHANGED <<worker, fresh, recentRows>>
    BY <1>1 DEF IInv, TypeOK, scores
  <1> HIDE DEF CommitBatch
  <1>3. \A c \in Candidates : recentRows[b][c] = 0 /\ Evaluating(b, c) = {}
    <2>1. \A w \in Workers : worker[w] # Idle => worker[w].batch # b
      BY <1>1 DEF IInv, FanOutAfterCommit
    <2>2. \A c \in Candidates : recentRows[b][c] = 0
      BY <1>1 DEF RowsAfterFanOut
    <2> QED
      BY <2>1, <2>2 DEF Evaluating, Idle
  <1>4. \A x \in Batches, c \in Candidates : Evaluating(x, c)' = Evaluating(x, c)
    BY <1>2 DEF Evaluating
  <1>5. RowsAfterFanOut'
    BY <1>2, <1>3 DEF RowsAfterFanOut
  <1>6. RowsAreFresh' /\ PaysOnce
    BY <1>2, <1>4 DEF RowsAreFresh, PaysOnce
  <1>7. RowsAndEvaluations'
    <2> SUFFICES ASSUME NEW x \in Batches, NEW c \in Candidates, ~payload'[x].force
                 PROVE  recentRows[x][c] + Cardinality(Evaluating(x, c)) <= Cardinality(Workers)
      BY <1>2, <1>4 DEF RowsAndEvaluations
    <2>1. CASE x = b
      BY <1>3, <2>1, WorkersCounted, FS_EmptySet
    <2>2. CASE x # b
      BY <1>2, <2>2 DEF RowsAndEvaluations
    <2> QED
      BY <2>1, <2>2
  <1> QED
    BY <1>5, <1>6, <1>7

\* A delivery finds the score of an earlier one fresh.
LEMMA DeliverQuiet ==
  ASSUME IInv, ScoreIInv, Evolved, NEW w \in Workers, NEW b \in Batches,
         NEW c \in Candidates, DeliverWorker(w, b, c)
  PROVE  Quiet
  <1>1. PICK at \in {"failed", "rejected", "succeeded", "evaluating"} :
          /\ worker' = [worker EXCEPT ![w] = [pc |-> at, batch |-> b, cand |-> c]]
          /\ at = "evaluating" => c \notin fresh \/ payload[b].force
    BY DEF DeliverWorker
  <1>2. UNCHANGED <<payload, fresh, recentRows>>
    BY DEF DeliverWorker, scores
  <1>3. \A v \in Workers \ {w} : worker'[v] = worker[v]
    BY <1>1 DEF IInv, TypeOK
  <1>4. worker'[w] = [pc |-> at, batch |-> b, cand |-> c]
    BY <1>1 DEF IInv, TypeOK
  <1>5. ASSUME NEW x \in Batches, NEW y \in Candidates, ~payload[x].force, recentRows[x][y] > 0
        PROVE  Evaluating(x, y)' \subseteq Evaluating(x, y)
    <2>1. ~(at = "evaluating" /\ x = b /\ y = c)
      BY <1>1, <1>5 DEF ScoreIInv, RowsAreFresh
    <2> QED
      BY <1>3, <1>4, <2>1 DEF Evaluating
  <1> QED
    BY <1>2, <1>5 DEF Quiet, PaysOnce

\* A worker that writes no score goes on with the same candidate or stops.
LEMMA WorkerQuiet ==
  ASSUME IInv, Evolved, NEW w \in Workers,
         \/ EvaluationRetryable(w) \/ EvaluationRejected(w) \/ AnswerRejected(w)
         \/ EvaluationInvalid(w) \/ ClaimWorkerSuccess(w) \/ ClaimWorkerFailure(w)
         \/ WorkerAnswers(w) \/ WorkerDies(w)
  PROVE  Quiet
  <1> USE DEF EvaluationRetryable, EvaluationRejected, AnswerRejected, EvaluationInvalid,
              ClaimWorkerSuccess, ClaimWorkerFailure, WorkerAnswers, WorkerDies, Goto
  <1>1. worker[w] # Idle
    BY DEF Idle
  <1>2. worker[w] \in [pc : {"evaluating", "rejected", "succeeded", "failed", "answer"},
                       batch : Batches, cand : Candidates]
    BY <1>1, WorkerShape DEF IInv
  <1>3. /\ worker'[w] = Idle \/ worker'[w].pc # "evaluating"
        /\ \A v \in Workers \ {w} : worker'[v] = worker[v]
    <2>1. \/ worker' = [worker EXCEPT ![w] = Idle]
          \/ \E at \in {"rejected", "failed", "answer"} : worker' = [worker EXCEPT ![w].pc = at]
      OBVIOUS
    <2> QED
      BY <1>2, <2>1 DEF IInv, TypeOK
  <1>4. UNCHANGED <<payload, fresh, recentRows>>
    BY DEF scores
  <1>5. \A x \in Batches, y \in Candidates : Evaluating(x, y)' \subseteq Evaluating(x, y)
    BY <1>3 DEF Evaluating, Idle
  <1> QED
    BY <1>4, <1>5 DEF Quiet, PaysOnce

\* The write: one evaluation less, one row more, and a fresh score.
LEMMA EvaluatedScores ==
  ASSUME IInv, ScoreIInv, NEW w \in Workers, Evaluated(w)
  PROVE  ScoreIInv' /\ PaysOnce
  <1> USE DEF Evaluated, Goto, ScoreIInv
  <1>1. worker[w].pc = "evaluating" /\ worker[w] # Idle
    BY DEF Idle
  <1>2. PICK b \in Batches, c \in Candidates :
        /\ worker[w] = [pc |-> "evaluating", batch |-> b, cand |-> c]
        /\ batch[b].status \notin {"absent", "pending"}
    BY <1>1, WorkerShape, WorkerFacts DEF IInv
  <1>3. /\ worker'[w] = [pc |-> "succeeded", batch |-> b, cand |-> c]
        /\ \A v \in Workers \ {w} : worker'[v] = worker[v]
    <2>1. worker' = [worker EXCEPT ![w] = [worker[w] EXCEPT !.pc = "succeeded"]]
      OBVIOUS
    <2>2. [worker[w] EXCEPT !.pc = "succeeded"] = [pc |-> "succeeded", batch |-> b, cand |-> c]
      BY <1>2
    <2> QED
      BY <2>1, <2>2 DEF IInv, TypeOK
  <1>4. /\ recentRows'[b][c] = recentRows[b][c] + 1
        /\ \A x \in Batches, y \in Candidates : x # b \/ y # c => recentRows'[x][y] = recentRows[x][y]
        /\ fresh' = fresh \cup {c}
        /\ UNCHANGED <<batch, payload>>
        /\ recentRows \in [Batches -> [Candidates -> Nat]]
    <2>1. recentRows' = [recentRows EXCEPT ![b][c] = @ + 1]
      BY <1>2
    <2>2. recentRows \in [Batches -> [Candidates -> Nat]]
      BY DEF IInv, TypeOK
    <2>3. /\ recentRows'[b][c] = recentRows[b][c] + 1
          /\ \A x \in Batches, y \in Candidates : x # b \/ y # c => recentRows'[x][y] = recentRows[x][y]
      BY <1>2, <2>1, <2>2
    <2>4. fresh' = fresh \cup {c}
      BY <1>2
    <2> QED
      BY <2>2, <2>3, <2>4
  <1> HIDE DEF Evaluated
  <1>5. RowsAfterFanOut'
    BY <1>2, <1>4 DEF RowsAfterFanOut
  <1>6. RowsAreFresh'
    BY <1>4 DEF RowsAreFresh
  <1>7. \A x \in Batches, y \in Candidates :
           Evaluating(x, y)' = IF x = b /\ y = c THEN Evaluating(x, y) \ {w} ELSE Evaluating(x, y)
    BY <1>2, <1>3 DEF Evaluating
  <1>8. RowsAndEvaluations'
    <2>1. ASSUME NEW x \in Batches, NEW y \in Candidates, ~payload[x].force
          PROVE  recentRows'[x][y] + Cardinality(Evaluating(x, y)') <= Cardinality(Workers)
      <3>1. recentRows[x][y] + Cardinality(Evaluating(x, y)) <= Cardinality(Workers)
        BY <2>1 DEF RowsAndEvaluations
      <3>2. CASE x = b /\ y = c
        <4>1. w \in Evaluating(b, c) /\ Evaluating(b, c) \in SUBSET Workers
          BY <1>2 DEF Evaluating
        <4>2. Evaluating(b, c)' = Evaluating(b, c) \ {w}
          BY <1>7
        <4>3. /\ Cardinality(Evaluating(b, c)') = Cardinality(Evaluating(b, c)) - 1
              /\ Cardinality(Evaluating(b, c)) \in Nat
          BY <4>1, <4>2, WorkersCounted, FS_RemoveElement
        <4>4. Cardinality(Workers) \in Nat /\ recentRows[b][c] \in Nat
          BY <1>2, <1>4, WorkersCounted
        <4> QED
          BY <1>4, <3>1, <3>2, <4>3, <4>4
      <3>3. CASE x # b \/ y # c
        <4>1. Evaluating(x, y)' = Evaluating(x, y)
          BY <1>7, <3>3
        <4> QED
          BY <1>4, <3>1, <3>3, <4>1
      <3> QED
        BY <3>2, <3>3
    <2> QED
      BY <1>4, <2>1 DEF RowsAndEvaluations
  <1>9. PaysOnce
    BY <1>7 DEF PaysOnce
  <1> QED
    BY <1>5, <1>6, <1>8, <1>9

\* A score expires, and all rows with it.
LEMMA ExpiryScores ==
  ASSUME IInv, ScoreIInv, NEW c \in Candidates, ScoreExpires(c)
  PROVE  ScoreIInv' /\ PaysOnce
  <1> USE DEF ScoreIInv
  <1>1. /\ UNCHANGED <<batch, payload, worker>>
        /\ fresh' = fresh \ {c}
        /\ \A b \in Batches, x \in Candidates :
              recentRows'[b][x] = IF x = c THEN 0 ELSE recentRows[b][x]
    BY DEF ScoreExpires, IInv, TypeOK
  <1>2. \A b \in Batches, x \in Candidates : Evaluating(b, x)' = Evaluating(b, x)
    BY <1>1 DEF Evaluating
  <1>3. RowsAfterFanOut' /\ RowsAreFresh' /\ PaysOnce
    BY <1>1, <1>2 DEF RowsAfterFanOut, RowsAreFresh, PaysOnce
  <1>4. RowsAndEvaluations'
    <2> SUFFICES ASSUME NEW b \in Batches, NEW x \in Candidates, ~payload[b].force
                 PROVE  recentRows'[b][x] + Cardinality(Evaluating(b, x)) <= Cardinality(Workers)
      BY <1>1, <1>2 DEF RowsAndEvaluations
    <2>1. CASE x = c
      <3>1. Evaluating(b, x) \in SUBSET Workers
        BY DEF Evaluating
      <3> QED
        BY <1>1, <2>1, <3>1, WorkersCounted
    <2>2. CASE x # c
      BY <1>1, <2>2 DEF RowsAndEvaluations
    <2> QED
      BY <2>1, <2>2
  <1> QED
    BY <1>3, <1>4

\* Otherwise time and polls leave the scores alone.
LEMMA TimeQuiet ==
  ASSUME Evolved, TimeStep \/ (\E p \in Pollers : PollerStep(p)),
         \A c \in Candidates : ~ScoreExpires(c)
  PROVE  Quiet
  BY OthersScores DEF TimeStep, Age, AddToJob, PollerStep, PollRead, PollWrite, scores

\* Every step preserves the invariant of score rows, and pays once.
LEMMA NextScores == IInv /\ ScoreIInv /\ [Next]_vars => ScoreIInv' /\ PaysOnce
  <1> SUFFICES ASSUME IInv, ScoreIInv, [Next]_vars PROVE ScoreIInv' /\ PaysOnce
    OBVIOUS
  <1>1. (\A r \in Requests : ~CommitBatch(r)) => Evolved
    BY RowsEvolve
  <1>2. CASE Quiet
    BY <1>2, QuietScores DEF Quiet
  <1>3. CASE \E r \in Requests : CommitBatch(r)
    BY <1>3, CommitScores
  <1>4. CASE \E w \in Workers : Evaluated(w)
    BY <1>4, EvaluatedScores
  <1>5. CASE \E c \in Candidates : ScoreExpires(c)
    BY <1>5, ExpiryScores
  <1>6. ASSUME Evolved, \A w \in Workers : ~Evaluated(w), \A c \in Candidates : ~ScoreExpires(c),
               \A r \in Requests : ~CommitBatch(r)
        PROVE  Quiet
    <2>1. ASSUME NEW r \in Requests, RequestStep(r) PROVE Quiet
      BY <1>6, <2>1, CallQuiet DEF RequestStep
    <2>2. ASSUME NEW k \in Coordinators, CoordinatorStep(k) PROVE Quiet
      BY <1>6, <2>2, CoordinatorQuiet
    <2>3. ASSUME NEW w \in Workers, WorkerStep(w) PROVE Quiet
      BY <1>6, <2>3, DeliverQuiet, WorkerQuiet DEF WorkerStep
    <2>4. CASE TimeStep \/ \E p \in Pollers : PollerStep(p)
      BY <1>6, <2>4, TimeQuiet
    <2>5. CASE UNCHANGED vars
      BY <1>6, <2>5, OthersScores DEF vars, scores
    <2> QED
      BY <2>1, <2>2, <2>3, <2>4, <2>5 DEF Next
  <1> QED
    BY <1>1, <1>2, <1>3, <1>4, <1>5, <1>6

\* Before the first step there is no score row and no worker.
LEMMA InitScores == Init => ScoreIInv
  <1> SUFFICES ASSUME Init PROVE ScoreIInv
    OBVIOUS
  <1>1. RowsAfterFanOut /\ RowsAreFresh
    BY DEF Init, RowsAfterFanOut, RowsAreFresh
  <1>2. ASSUME NEW b \in Batches, NEW c \in Candidates
        PROVE  recentRows[b][c] + Cardinality(Evaluating(b, c)) <= Cardinality(Workers)
    <2>1. recentRows[b][c] = 0 /\ Evaluating(b, c) \in SUBSET Workers
      BY DEF Init, Evaluating
    <2> QED
      BY <2>1, WorkersCounted
  <1> QED
    BY <1>1, <1>2 DEF ScoreIInv, RowsAndEvaluations

\* A score that is written and valid is never asked for again by its batch,
\* whatever is delivered again and whoever dies.
THEOREM ScoredOnlyOnce == Spec => PaidOnce
  <1>1. IInv /\ ScoreIInv /\ [Next]_vars => ScoreIInv' /\ [PaysOnce]_vars
    BY NextScores
  <1>2. Spec => [][PaysOnce]_vars
    BY <1>1, InitScores, IInvHolds, PTL DEF Spec
  <1> QED
    BY <1>2 DEF PaidOnce, PaysOnce

\* No more score rows within 24 hours than invocations that overlap, for any
\* number of them.
THEOREM ScoresAreBounded == Spec => []OneScorePerWorker
  <1>1. IInv /\ ScoreIInv => OneScorePerWorker
    <2> SUFFICES ASSUME IInv, ScoreIInv, NEW b \in Batches, NEW c \in Candidates, ~payload[b].force
                 PROVE  recentRows[b][c] <= Cardinality(Workers)
      BY DEF OneScorePerWorker
    <2>1. /\ recentRows[b][c] \in Nat /\ Evaluating(b, c) \in SUBSET Workers
          /\ recentRows[b][c] + Cardinality(Evaluating(b, c)) <= Cardinality(Workers)
      BY DEF IInv, TypeOK, ScoreIInv, RowsAndEvaluations, Evaluating
    <2> QED
      BY <2>1, WorkersCounted
  <1> QED
    BY <1>1, InitScores, IInvHolds, NextScores, PTL DEF Spec

-----------------------------------------------------------------------------
(* The refinement of the ledger.                                           *)

\* What the ledger keeps of a row.
InBook(row) == Ledger!Entry(row.status, row.queued, row.completedIds, row.failedIds)

\* The book has one entry per row, and a step that changes one row changes one
\* entry.
LEMMA BookEntry ==
  ASSUME NEW b \in Batches
  PROVE  /\ Book[b] = InBook(batch[b])
         /\ (\A x \in Batches \ {b} : batch'[x] = batch[x])
               => Book' = [Book EXCEPT ![b] = InBook(batch'[b])]
         /\ InBook(batch[b]).status = batch[b].status
         /\ InBook(batch[b]).size = batch[b].queued
         /\ InBook(batch[b]).scored = batch[b].completedIds
         /\ InBook(batch[b]).failed = batch[b].failedIds
  BY DEF Book, InBook, Ledger!Entry

\* A step that keeps what the ledger shows keeps the book.
LEMMA BookKept ==
  ASSUME ArraysKept, \A b \in Batches : /\ batch'[b].status = batch[b].status
                                        /\ batch'[b].queued = batch[b].queued
  PROVE  UNCHANGED Book
  BY DEF Book, ArraysKept

\* The ledger counts as everybody does.
LEMMA SameCardinality == \A S : Ledger!Cardinality(S) = Cardinality(S)
  BY DEF Ledger!Cardinality, Cardinality

\* The commit of a batch opens an entry.
LEMMA CommitOpens ==
  ASSUME IInv, NEW r \in Requests, CommitBatch(r)
  PROVE  \E b \in Batches, n \in {Len(list) : list \in Lists} : Ledger!Open(b, n)
  <1> DEFINE id == request[r].batch
             list == request[r].list
             size == Len(list)
  <1>1. id \in Batches /\ list \in Lists
    BY RequestShape DEF CommitBatch, IInv
  <1>2. /\ batch[id] = NoRow
        /\ \A x \in Batches : ~IsActive(batch[x])
    BY <1>1 DEF CommitBatch, IInv, InsertExclusive, RowMatchesPayload
  <1>3. /\ batch'[id] = NewRow(size)
        /\ \A x \in Batches \ {id} : batch'[x] = batch[x]
    BY <1>1 DEF CommitBatch, IInv, TypeOK
  <1>4. size \in {Len(x) : x \in Lists}
    BY <1>1
  <1> HIDE DEF id, list, size
  <1>5. Book[id] = Ledger!Unopened
    <2>1. /\ NoRow.status = "absent" /\ NoRow.queued = 0
          /\ NoRow.completedIds = {} /\ NoRow.failedIds = {}
      BY DEF NoRow, RowWith
    <2>2. InBook(NoRow) = Ledger!Unopened
      BY <2>1 DEF InBook, Ledger!Unopened
    <2> QED
      BY <1>1, <1>2, <2>2, BookEntry
  <1>6. Book' = [Book EXCEPT ![id] = Ledger!Entry("pending", size, {}, {})]
    <2>1. InBook(batch'[id]) = Ledger!Entry("pending", size, {}, {})
      BY <1>3 DEF InBook, NewRow, RowWith
    <2> QED
      BY <1>1, <1>3, <2>1, BookEntry
  <1>7. Ledger!NoneRunning
    BY <1>2, BookEntry DEF Ledger!NoneRunning, Ledger!Running, IsActive, ActiveStatus
  <1>8. Ledger!Open(id, size)
    BY <1>5, <1>6, <1>7 DEF Ledger!Open
  <1> QED
    BY <1>1, <1>4, <1>8

\* The transition starts an entry, or has no effect.
LEMMA TransitionStarts ==
  ASSUME IInv, NEW k \in Coordinators, CommitProcessing(k)
  PROVE  UNCHANGED Book \/ \E b \in Batches : Ledger!Start(b)
  <1> DEFINE id == coordinator[k].batch
             new == TransitionToProcessing(batch[id])
  <1>1. id \in Batches /\ (batch' = [batch EXCEPT ![id] = new] \/ UNCHANGED batch)
    BY TransitionRow
  <1>2. CASE UNCHANGED batch \/ batch[id].status # "pending"
    <2>1. UNCHANGED batch
      BY <1>1, <1>2 DEF TransitionToProcessing, IInv, TypeOK
    <2> QED
      BY <2>1 DEF Book
  <1>3. CASE batch' = [batch EXCEPT ![id] = new] /\ batch[id].status = "pending"
    <2>1. batch[id] \in Row /\ batch'[id] = new /\ \A x \in Batches \ {id} : batch'[x] = batch[x]
      BY <1>1, <1>3 DEF IInv, TypeOK
    <2>2. /\ new.status = "processing" /\ new.queued = batch[id].queued
          /\ new.completedIds = batch[id].completedIds /\ new.failedIds = batch[id].failedIds
      BY <1>3, <2>1 DEF TransitionToProcessing, Row
    <2> HIDE DEF id, new
    <2>3. Book' = [Book EXCEPT ![id] =
                      Ledger!Entry("processing", Book[id].size, Book[id].scored, Book[id].failed)]
      BY <1>1, <2>1, <2>2, BookEntry DEF InBook
    <2>4. Book[id].status = "pending"
      BY <1>1, <1>3, BookEntry
    <2>5. Ledger!Start(id)
      BY <2>3, <2>4 DEF Ledger!Start
    <2> QED
      BY <1>1, <2>5
  <1> QED
    BY <1>1, <1>2, <1>3

\* A claim settles an entry, or has no effect.
LEMMA ClaimSettles ==
  ASSUME IInv, NEW w \in Workers, ClaimWorkerSuccess(w) \/ ClaimWorkerFailure(w)
  PROVE  UNCHANGED Book \/ \E b \in Batches, c \in Candidates : Ledger!Settle(b, c)
  <1> DEFINE id == worker[w].batch
             cand == worker[w].cand
             new == batch'[id]
  <1>1. worker[w] # Idle
    BY DEF ClaimWorkerSuccess, ClaimWorkerFailure, Idle
  <1>2. /\ id \in Batches /\ cand \in Candidates /\ batch[id].queued > 0
        /\ SoundRow(batch[id]) /\ batch[id].status # "pending"
    BY <1>1, WorkerFacts, RowsSound
  <1>3. /\ new = ClaimSuccess(batch[id], cand) \/ new = ClaimFailure(batch[id], cand)
        /\ RowStep(batch[id], new)
        /\ \A x \in Batches \ {id} : batch'[x] = batch[x]
    <2>1. CASE ClaimWorkerSuccess(w)
      BY <1>2, <2>1, ClaimRow DEF ClaimWorkerSuccess, IInv, TypeOK
    <2>2. CASE ClaimWorkerFailure(w)
      BY <1>2, <2>2, ClaimRow DEF ClaimWorkerFailure, IInv, TypeOK
    <2> QED
      BY <2>1, <2>2
  <1>4. CASE ~Claimable(batch[id], cand)
    <2>1. new = batch[id]
      BY <1>3, <1>4 DEF ClaimSuccess, ClaimFailure
    <2>2. \A x \in Batches : batch'[x] = batch[x]
      BY <1>3, <2>1
    <2> QED
      BY <2>2 DEF Book
  <1>5. CASE Claimable(batch[id], cand)
    <2> DEFINE s == new.completedIds
               f == new.failedIds
    <2> HIDE DEF id, cand, new
    <2>1. /\ \/ s = batch[id].completedIds \cup {cand} /\ f = batch[id].failedIds
             \/ s = batch[id].completedIds /\ f = batch[id].failedIds \cup {cand}
          /\ new.status = SettledStatus(batch[id].queued, s, f)
      BY <1>2, <1>3, <1>5, ClaimSuccessStatus, ClaimFailureStatus
    <2>2. new.queued = batch[id].queued /\ s \in SUBSET Candidates /\ f \in SUBSET Candidates
      BY <1>3 DEF RowStep, SoundRow, Row
    <2>3. Book' = [Book EXCEPT ![id] = InBook(new)]
      BY <1>2, <1>3, BookEntry DEF new
    <2> HIDE DEF s, f
    <2>4. new.status = Ledger!StatusAfter(Book[id].size, s, f)
      <3>1. Book[id].size = batch[id].queued
        BY <1>2, BookEntry
      <3>2. new.status = SettledStatus(batch[id].queued, s, f)
        BY <2>1
      <3> QED
        BY <3>1, <3>2, SameCardinality DEF SettledStatus, Ledger!StatusAfter
    <2>5. InBook(new) = Ledger!Entry(Ledger!StatusAfter(Book[id].size, s, f), Book[id].size, s, f)
      BY <1>2, <2>2, <2>4, BookEntry DEF InBook, s, f
    <2>6. /\ Book[id].status = "processing"
          /\ cand \notin Book[id].scored \cup Book[id].failed
          /\ \/ s = Book[id].scored \cup {cand} /\ f = Book[id].failed
             \/ s = Book[id].scored /\ f = Book[id].failed \cup {cand}
      BY <1>2, <1>5, <2>1, BookEntry DEF Claimable, IsActive, ActiveStatus
    <2>7. Ledger!Settle(id, cand)
      BY <2>2, <2>3, <2>5, <2>6 DEF Ledger!Settle
    <2> QED
      BY <1>2, <2>7
  <1> QED
    BY <1>4, <1>5

\* The verdict of a poll gives an entry up.
LEMMA PollGivesUp ==
  ASSUME IInv, NEW p \in Pollers, PollWrite(p)
  PROVE  \E b \in Batches : Ledger!GiveUp(b)
  <1> DEFINE id == poller[p].batch
  <1>1. /\ id \in Batches /\ batch[id].status # "absent"
        /\ ArraysKept
        /\ batch'[id].status = "failed" /\ batch'[id].queued = batch[id].queued
        /\ \A x \in Batches \ {id} : batch'[x] = batch[x]
    BY PollRow
  <1> HIDE DEF id
  <1>2. Book' = [Book EXCEPT ![id] =
                    Ledger!Entry("failed", Book[id].size, Book[id].scored, Book[id].failed)]
    BY <1>1, BookEntry DEF InBook, ArraysKept
  <1>3. Book[id].status # "absent"
    BY <1>1, BookEntry
  <1>4. Ledger!GiveUp(id)
    BY <1>2, <1>3 DEF Ledger!GiveUp
  <1> QED
    BY <1>1, <1>4

\* Every step of batch scoring is a step or a stutter of the ledger.
LEMMA StepRefines ==
  ASSUME IInv, [Next]_vars
  PROVE  [Ledger!Next]_Book
  <1>1. ASSUME NEW r \in Requests, RequestStep(r) PROVE UNCHANGED batch \/ CommitBatch(r)
    BY <1>1 DEF RequestStep, LockJob, ReuseActive, InsertBatch, PublishCoordinator,
                PublishCoordinatorFails, RequestDies
  <1>2. ASSUME NEW k \in Coordinators, CoordinatorStep(k) PROVE UNCHANGED batch \/ CommitProcessing(k)
    BY <1>2 DEF CoordinatorStep, DeliverCoordinator, PublishWorker, PublishWorkerFails,
                CoordinatorAnswers, CoordinatorDies
  <1>3. ASSUME NEW w \in Workers, WorkerStep(w)
        PROVE  UNCHANGED batch \/ ClaimWorkerSuccess(w) \/ ClaimWorkerFailure(w)
    BY <1>3 DEF WorkerStep, DeliverWorker, Evaluated, EvaluationRetryable, EvaluationRejected,
                AnswerRejected, EvaluationInvalid, WorkerAnswers, WorkerDies
  <1>4. ASSUME NEW p \in Pollers, PollerStep(p) PROVE UNCHANGED batch \/ PollWrite(p)
    BY <1>4 DEF PollerStep, PollRead
  <1>5. UNCHANGED batch => UNCHANGED Book
    BY DEF Book
  <1>6. CASE TimeStep
    BY <1>5, <1>6, AgeRow, BookKept DEF TimeStep, ScoreExpires, AddToJob
  <1>7. CASE UNCHANGED vars
    BY <1>5, <1>7 DEF vars
  <1> QED
    BY <1>1, <1>2, <1>3, <1>4, <1>5, <1>6, <1>7, CommitOpens, TransitionStarts, ClaimSettles,
       PollGivesUp DEF Next, Ledger!Next

\* Batch scoring implements the ledger: batches are opened one at a time, every
\* candidate is accounted for at most once, and the last one closes its batch.
THEOREM LedgerImplemented == Spec => ImplementsLedger
  <1>1. Init => Ledger!Init
    <2> SUFFICES ASSUME Init PROVE Ledger!Init
      OBVIOUS
    <2>1. Book = [b \in Batches |-> Ledger!Unopened]
      BY DEF Init, Book, NoRow, RowWith, Ledger!Unopened, Ledger!Entry
    <2> QED
      BY <2>1 DEF Ledger!Init
  <1> QED
    BY <1>1, IInvHolds, StepRefines, PTL DEF Spec, ImplementsLedger, Ledger!Spec

-----------------------------------------------------------------------------
(* CurrentScore: the invariant.                                            *)

\* The committed state before any call satisfies the invariant.
LEMMA InitPairIInv == PairInit => PairIInv
  <1> SUFFICES ASSUME PairInit PROVE PairIInv
    OBVIOUS
  <1> USE CallsOK DEF PairInit, Ids
  <1>1. PairTypeOK
    BY DEF PairTypeOK
  <1>2. AtMostOneCurrent /\ ScoredStaysScored
    BY DEF AtMostOneCurrent, ScoredStaysScored
  <1>3. LocksExclusive /\ InsertedIsNext
    BY DEF LocksExclusive, InsertedIsNext
  <1>4. RowsAreCommitted
    BY DEF RowsAreCommitted
  <1> QED
    BY <1>1, <1>2, <1>3, <1>4 DEF PairIInv

\* A step that only moves a call from one place to another, neither of which
\* holds anything, preserves the invariant.
LEMMA MoveIInv ==
  ASSUME PairIInv, NEW t \in Calls, NEW from, NEW to \in {"evaluated", "answered"},
         from = "start",
         Move(t, from, to), UNCHANGED <<rows, live, usable, found, demoted>>
  PROVE  PairIInv'
  <1> USE DEF PairIInv, Move
  <1>1. PairTypeOK'
    BY DEF PairTypeOK
  <1>2. (AtMostOneCurrent /\ ScoredStaysScored)'
    BY DEF AtMostOneCurrent, ScoredStaysScored
  <1>3. LocksExclusive'
    BY DEF LocksExclusive, PairTypeOK
  <1>4. InsertedIsNext'
    BY DEF InsertedIsNext, PairTypeOK
  <1>5. RowsAreCommitted'
    BY DEF RowsAreCommitted, PairTypeOK
  <1> QED
    BY <1>1, <1>2, <1>3, <1>4, <1>5

\* The UPDATE takes its snapshot.
LEMMA StartDemotionIInv ==
  ASSUME PairIInv, NEW t \in Calls, StartDemotion(t)
  PROVE  PairIInv'
  <1> USE DEF PairIInv, StartDemotion, Move
  <1>1. PairTypeOK'
    BY DEF PairTypeOK
  <1>2. (AtMostOneCurrent /\ ScoredStaysScored)'
    BY DEF AtMostOneCurrent, ScoredStaysScored
  <1>3. LocksExclusive'
    BY DEF LocksExclusive, PairTypeOK
  <1>4. InsertedIsNext'
    BY DEF InsertedIsNext, PairTypeOK
  <1>5. RowsAreCommitted'
    BY DEF RowsAreCommitted, PairTypeOK
  <1> QED
    BY <1>1, <1>2, <1>3, <1>4, <1>5

\* It locks only rows that nobody else holds and that are still current.
LEMMA FinishDemotionIInv ==
  ASSUME PairIInv, NEW t \in Calls, FinishDemotion(t)
  PROVE  PairIInv'
  <1> USE DEF PairIInv, FinishDemotion, Move
  <1>1. PairTypeOK'
    BY DEF PairTypeOK
  <1>2. (AtMostOneCurrent /\ ScoredStaysScored)'
    BY DEF AtMostOneCurrent, ScoredStaysScored
  <1>3. LocksExclusive'
    <2> SUFFICES ASSUME NEW u \in Calls
                 PROVE  /\ \A v \in Calls \ {u} : demoted'[u] \cap demoted'[v] = {}
                        /\ demoted'[u] # {} => pc'[u] \in {"demoted", "inserted"}
                        /\ demoted'[u] \subseteq live'
      BY DEF LocksExclusive
    <2>1. demoted'[t] = found[t] \cap live /\ \A v \in Calls \ {t} : demoted'[v] = demoted[v]
      BY DEF PairTypeOK
    <2>2. \A v \in Calls \ {u} : demoted'[u] \cap demoted'[v] = {}
      BY <2>1 DEF LocksExclusive
    <2> QED
      BY <2>1, <2>2 DEF LocksExclusive, PairTypeOK
  <1>4. InsertedIsNext'
    BY DEF InsertedIsNext, PairTypeOK
  <1>5. RowsAreCommitted'
    BY DEF RowsAreCommitted, PairTypeOK
  <1> QED
    BY <1>1, <1>2, <1>3, <1>4, <1>5

\* The unique index lets a row through only when its transaction holds every
\* current row and nobody else waits for a commit.
LEMMA InsertIInv ==
  ASSUME PairIInv, NEW t \in Calls, Insert(t)
  PROVE  PairIInv'
  <1> USE DEF PairIInv, Insert, Move
  <1>1. PairTypeOK'
    BY DEF PairTypeOK
  <1>2. (AtMostOneCurrent /\ ScoredStaysScored)'
    BY DEF AtMostOneCurrent, ScoredStaysScored
  <1>3. LocksExclusive'
    BY DEF LocksExclusive, PairTypeOK
  <1>4. InsertedIsNext'
    <2> SUFFICES ASSUME NEW u \in Calls, pc'[u] = "inserted"
                 PROVE  /\ live \subseteq demoted[u]
                        /\ u \notin rows
                        /\ \A v \in Calls \ {u} : pc'[v] # "inserted"
      BY DEF InsertedIsNext
    <2>1. \A v \in Calls \ {t} : pc[v] # "inserted" /\ pc'[v] = pc[v]
      BY DEF Undecided, PairTypeOK
    <2>2. u = t
      BY <2>1
    <2>3. t \notin rows
      BY DEF RowsAreCommitted
    <2> QED
      BY <2>1, <2>2, <2>3 DEF Conflict
  <1>5. RowsAreCommitted'
    BY DEF RowsAreCommitted, PairTypeOK
  <1> QED
    BY <1>1, <1>2, <1>3, <1>4, <1>5

\* A transaction that rolls back releases what it holds.
LEMMA AbortIInv ==
  ASSUME PairIInv, NEW t \in Calls, NEW from \in {"evaluated", "demoting", "demoted", "inserted"},
         Abort(t, from)
  PROVE  PairIInv'
  <1> USE DEF PairIInv, Abort, Move
  <1>1. PairTypeOK'
    BY DEF PairTypeOK
  <1>2. (AtMostOneCurrent /\ ScoredStaysScored)'
    BY DEF AtMostOneCurrent, ScoredStaysScored
  <1>3. LocksExclusive'
    BY DEF LocksExclusive, PairTypeOK
  <1>4. InsertedIsNext'
    BY DEF InsertedIsNext, PairTypeOK
  <1>5. RowsAreCommitted'
    BY DEF RowsAreCommitted, PairTypeOK
  <1> QED
    BY <1>1, <1>2, <1>3, <1>4, <1>5

\* The row of t replaces everything that was current.
LEMMA CommitReplaces ==
  ASSUME PairIInv, NEW t \in Calls, Commit(t)
  PROVE  /\ live' = {t}
         /\ t \notin rows
         /\ \A u \in Calls \ {t} : demoted[u] = {} /\ pc[u] # "inserted"
  BY DEF PairIInv, Commit, Move, InsertedIsNext, LocksExclusive

\* The commit of a score.
LEMMA CommitIInv ==
  ASSUME PairIInv, NEW t \in Calls, Commit(t)
  PROVE  PairIInv'
  <1>1. /\ live' = {t}
        /\ \A u \in Calls \ {t} : demoted[u] = {} /\ pc[u] # "inserted"
    BY CommitReplaces
  <1> USE DEF PairIInv, Commit, Move
  <1>2. PairTypeOK'
    BY <1>1 DEF PairTypeOK, Ids
  <1>3. (AtMostOneCurrent /\ ScoredStaysScored)'
    BY <1>1 DEF AtMostOneCurrent, ScoredStaysScored
  <1>4. \A u \in Calls : demoted'[u] = {} /\ pc'[u] # "inserted"
    BY <1>1 DEF PairTypeOK
  <1>5. LocksExclusive' /\ InsertedIsNext'
    BY <1>4 DEF LocksExclusive, InsertedIsNext
  <1>6. RowsAreCommitted'
    BY DEF RowsAreCommitted, PairTypeOK
  <1> QED
    BY <1>2, <1>3, <1>5, <1>6

\* Every step preserves the invariant.
LEMMA NextPairIInv == PairIInv /\ [PairNext]_pairVars => PairIInv'
  <1> SUFFICES ASSUME PairIInv, [PairNext]_pairVars PROVE PairIInv'
    OBVIOUS
  <1>1. ASSUME NEW t \in Calls, AnswerFromCache(t) \/ AskModel(t) PROVE PairIInv'
    BY <1>1, MoveIInv DEF AnswerFromCache, AskModel
  <1>2. ASSUME NEW t \in Calls, InsertConflicts(t) PROVE PairIInv'
    BY <1>2, AbortIInv DEF InsertConflicts
  <1>3. ASSUME NEW t \in Calls, Rollback(t) PROVE PairIInv'
    BY <1>3, AbortIInv DEF Rollback
  <1>4. CASE Expire
    BY <1>4 DEF Expire, PairIInv, PairTypeOK, AtMostOneCurrent, ScoredStaysScored,
                LocksExclusive, InsertedIsNext, RowsAreCommitted
  <1>5. CASE UNCHANGED pairVars
    BY <1>5 DEF pairVars, PairIInv, PairTypeOK, AtMostOneCurrent, ScoredStaysScored,
                LocksExclusive, InsertedIsNext, RowsAreCommitted
  <1> QED
    BY <1>1, <1>2, <1>3, <1>4, <1>5, StartDemotionIInv, FinishDemotionIInv,
       InsertIInv, CommitIInv DEF PairNext, Runs

\* The inductive invariant holds in every reachable state.
THEOREM PairIInvHolds == PairSpec => []PairIInv
  BY InitPairIInv, NextPairIInv, PTL DEF PairSpec

\* However many calls score a pair at once, it never has two current scores.
THEOREM NeverTwoCurrent == PairSpec => []AtMostOneCurrent
  BY PairIInvHolds, PTL DEF PairIInv

\* A pair that has been scored always has a current score.
THEOREM NeverUnscored == PairSpec => []ScoredStaysScored
  BY PairIInvHolds, PTL DEF PairIInv

-----------------------------------------------------------------------------
(* CurrentScore: the refinement of the register.                           *)

\* The register shows the only current row.
LEMMA HeldIsLive ==
  ASSUME AtMostOneCurrent
  PROVE  live = {Held} \/ (live = {} /\ Held = NoScore)
  BY DEF AtMostOneCurrent, Held

\* A commit writes the register.
LEMMA CommitWrites ==
  ASSUME PairIInv, NEW t \in Calls, Commit(t)
  PROVE  Register!Write(t)
  <1>1. live' = {t} /\ t \notin rows /\ rows' = rows \cup {t}
    BY CommitReplaces DEF Commit
  <1>2. Held' = t
    BY <1>1 DEF Held
  <1>3. live \subseteq rows
    BY DEF PairIInv, PairTypeOK
  <1>4. live = {Held} \/ (live = {} /\ Held = NoScore)
    BY HeldIsLive DEF PairIInv
  <1>5. t # Held /\ t \notin rows \ live
    BY <1>1, <1>3, <1>4, CallsOK
  <1>6. (rows \ live)' = (rows \ live) \cup ({Held} \ {NoScore})
    <2>1. (rows \ live)' = rows
      BY <1>1
    <2>2. rows = (rows \ live) \cup live
      BY <1>3
    <2>3. NoScore \notin rows
      BY CallsOK DEF PairIInv, PairTypeOK, Ids
    <2> QED
      BY <2>1, <2>2, <2>3, <1>3, <1>4
  <1> QED
    BY <1>2, <1>5, <1>6 DEF Register!Write

\* Nothing but a commit shows in the register.
LEMMA OthersStutter ==
  ASSUME UNCHANGED <<rows, live>>
  PROVE  UNCHANGED <<Held, rows \ live>>
  BY DEF Held

\* Every step of the transactions is a write or a stutter of the register.
LEMMA PairStepRefines ==
  ASSUME PairIInv, [PairNext]_pairVars
  PROVE  [Register!Next]_<<Held, rows \ live>>
  <1>1. ASSUME NEW t \in Calls, Commit(t) PROVE Register!Next
    BY <1>1, CommitWrites DEF Register!Next, Ids
  <1>2. ASSUME NEW t \in Calls, Runs(t) \/ Rollback(t), ~Commit(t)
        PROVE  UNCHANGED <<rows, live>>
    BY <1>2 DEF Runs, AnswerFromCache, AskModel, StartDemotion, FinishDemotion,
                Insert, InsertConflicts, Rollback, Abort
  <1>3. CASE Expire
    BY <1>3, OthersStutter DEF Expire
  <1>4. CASE UNCHANGED pairVars
    BY <1>4, OthersStutter DEF pairVars
  <1> QED
    BY <1>1, <1>2, <1>3, <1>4, OthersStutter DEF PairNext

\* The transactions of the score table implement a register that always holds
\* the score written last and never forgets an earlier one.
THEOREM RegisterImplemented == PairSpec => ImplementsRegister
  <1>1. PairInit => Register!Init
    <2> SUFFICES ASSUME PairInit PROVE Register!Init
      OBVIOUS
    <2>1. live = {} => Held = NoScore
      BY DEF Held
    <2>2. live # {} => Held \in live
      BY DEF Held
    <2> QED
      BY <2>1, <2>2 DEF PairInit, Register!Init, Ids
  <1> QED
    BY <1>1, PairIInvHolds, PairStepRefines, PTL DEF PairSpec, ImplementsRegister, Register!Spec
=============================================================================
