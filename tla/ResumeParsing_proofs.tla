------------------------ MODULE ResumeParsing_proofs ------------------------
(***************************************************************************)
(* Proofs about ResumeParsing for any number of retries, workers, attempts *)
(* and failures.  What a commit does to the row depends on what its        *)
(* session has read; the proofs rest on two facts about those copies: a    *)
(* copy never knows of data that the table lacks (so that no flush clears  *)
(* the data), and a worker past its first commit has status "processing"   *)
(* in its copy (so that its verdict is always written).  Nothing is        *)
(* forgotten because somebody is always Responsible.                       *)
(***************************************************************************)
EXTENDS ResumeParsing, TLAPS

\* The two variables of the address only ever matter one by one.
USE DEF address

Sane == TypeOK /\ CopiesHaveNoMoreData /\ ReadableHasNoParseError /\ UnqueuedByFailure

Story == UnsentHasNoMessage /\ WorkersKnow /\ SomebodyIsResponsible

\* The parts that need a proof of their own; the rest of IInv follows.
Core == Sane /\ Story /\ VerdictIsRight /\ EmbeddingAfterParse

\* Whoever is responsible is at work, or will be.
LEMMA CoreSuffices == Core => IInv
  BY DEF Core, Sane, Story, IInv, NoResumeForgotten, SomebodyIsResponsible, Responsible, InProgress

\* The inductive invariant has all the parts.
LEMMA InvariantHasParts == IInv => Core
  BY DEF Core, Sane, Story, IInv

-----------------------------------------------------------------------------
(* What a call and a worker look like.                                     *)

LEMMA CallShape ==
  ASSUME TypeOK, NEW c \in Calls
  PROVE  /\ call[c].pc \in {"idle", "done", "retrying", "committed", "unqueued"}
         /\ Open(c) => call[c].seen \in Row /\ call[c] = At(call[c].pc, call[c].seen)
  BY DEF TypeOK, CallState, Idle, Done, Open, At

LEMMA WorkerShape ==
  ASSUME TypeOK, NEW w \in Workers
  PROVE  /\ worker[w].pc \in {"idle", "read", "parsing", "trigger", "answer"}
         /\ Busy(w) => worker[w].seen \in Row /\ worker[w].message \in Calls
  BY DEF TypeOK, WorkerState, Idle, Busy

\* The table after a flush, column by column.
LEMMA FlushedRow ==
  ASSUME row \in Row, NEW seen \in Row, NEW new \in Row
  PROVE  LET r == Flushed(seen, new)
         IN  /\ r \in Row
             /\ r.status = IF new.status = seen.status THEN row.status ELSE new.status
             /\ r.error = IF new.error = seen.error THEN row.error ELSE new.error
             /\ r.data = IF new.data = seen.data THEN row.data ELSE new.data
  BY DEF Flushed, Row

\* A flush that does not clear the data in its own copy keeps the data of the
\* table, and what it has written is there.
LEMMA FlushKeepsData ==
  ASSUME row \in Row, NEW seen \in Row, NEW new \in Row,
         seen.data => row.data, seen.data => new.data
  PROVE  /\ row.data => Flushed(seen, new).data
         /\ new.data => Flushed(seen, new).data
  BY FlushedRow DEF Row

-----------------------------------------------------------------------------
(* One lemma per action.                                                   *)

\* The committed upload satisfies the invariant.
LEMMA InitCore == Init => Core
  <1> SUFFICES ASSUME Init PROVE Core
    OBVIOUS
  <1> USE ParsingConstantsOK DEF Init, Idle, At, Calls
  <1>1. row \in Row /\ row.status = "pending" /\ row.error = "null" /\ ~row.data
    BY DEF Row, Statuses, Errors
  <1>2. TypeOK
    <2>1. At("committed", row) \in CallState /\ Idle \in CallState /\ Idle \in WorkerState
      BY <1>1 DEF CallState, WorkerState
    <2>2. call \in [Calls -> CallState] /\ worker \in [Workers -> WorkerState]
      BY <2>1
    <2>3. left \in [Calls -> Nat] /\ faults \in 0..MaxFaults
      OBVIOUS
    <2> QED
      BY <1>1, <2>2, <2>3 DEF TypeOK
  <1>3. CopiesHaveNoMoreData /\ ReadableHasNoParseError /\ UnqueuedByFailure
    BY <1>1 DEF CopiesHaveNoMoreData, ReadableHasNoParseError, UnqueuedByFailure, Open, Busy
  <1>4. UnsentHasNoMessage /\ WorkersKnow /\ SomebodyIsResponsible
    BY DEF UnsentHasNoMessage, WorkersKnow, SomebodyIsResponsible, Responsible, Busy
  <1>5. VerdictIsRight /\ EmbeddingAfterParse
    BY <1>1 DEF VerdictIsRight, EmbeddingAfterParse
  <1> QED
    BY <1>2, <1>3, <1>4, <1>5 DEF Core, Sane, Story

\* A retry loads the row.
LEMMA RetryReadsCore ==
  ASSUME Core, NEW t \in Retries, RetryReads(t)
  PROVE  Core'
  <1> USE DEF Core, Sane, Story, RetryReads, Calls
  <1>1. /\ t \in Calls /\ call[t].pc = "idle"
        /\ call' = [call EXCEPT ![t] = At("retrying", row)]
        /\ row \in Row
    BY DEF TypeOK
  <1>2. \A c \in Calls : call'[c] = IF c = t THEN At("retrying", row) ELSE call[c]
    BY <1>1 DEF TypeOK
  <1>3. TypeOK'
    BY <1>1 DEF TypeOK, CallState, At
  <1>4. (CopiesHaveNoMoreData /\ ReadableHasNoParseError /\ UnqueuedByFailure)'
    BY <1>1, <1>2 DEF CopiesHaveNoMoreData, ReadableHasNoParseError, UnqueuedByFailure,
                      Open, Busy, At, NothingFailed
  <1>5. (UnsentHasNoMessage /\ WorkersKnow)'
    BY <1>1, <1>2 DEF UnsentHasNoMessage, WorkersKnow, Busy, At
  <1>6. SomebodyIsResponsible'
    BY <1>1, <1>2 DEF SomebodyIsResponsible, NothingFailed, Settled, Responsible, At
  <1>7. (VerdictIsRight /\ EmbeddingAfterParse)'
    BY DEF VerdictIsRight, EmbeddingAfterParse, NothingFailed
  <1> QED
    BY <1>3, <1>4, <1>5, <1>6, <1>7

\* The state of a call that has committed `new' and goes on to pc.
LEMMA CallCommits ==
  ASSUME Core, NEW c \in Calls, Open(c), NEW new \in Row,
         call[c].seen.data => new.data,
         row' = Flushed(call[c].seen, new)
  PROVE  /\ row' \in Row
         /\ row.data => row'.data
         /\ new.data => row'.data
  <1> DEFINE seen == call[c].seen
  <1>1. row \in Row /\ seen \in Row /\ (seen.data => row.data)
    BY CallShape DEF Core, Sane, TypeOK, CopiesHaveNoMoreData
  <1> HIDE DEF seen
  <1>2. row' = Flushed(seen, new) /\ (seen.data => new.data)
    BY DEF seen
  <1>3. row' \in Row
    BY <1>1, <1>2, FlushedRow
  <1>4. (row.data => row'.data) /\ (new.data => row'.data)
    BY <1>1, <1>2, FlushKeepsData
  <1> QED
    BY <1>3, <1>4

\* A retry commits a pending row.
LEMMA RetryCommitsCore ==
  ASSUME Core, NEW t \in Retries, RetryCommits(t)
  PROVE  Core' /\ (row.data => row'.data)
  <1> USE DEF Core, Sane, Story
  <1> DEFINE seen == call[t].seen
             new == [seen EXCEPT !.status = "pending", !.error = "cleared"]
  <1>1. /\ t \in Calls /\ call[t].pc = "retrying" /\ Open(t) /\ seen \in Row
        /\ row' = Flushed(seen, new)
        /\ call' = [call EXCEPT ![t] = At("committed", new)]
        /\ UNCHANGED <<readable, address, left, worker, embedding, faults>>
    BY CallShape DEF RetryCommits, Calls, Open
  <1>2. new \in Row /\ new.data = seen.data /\ new.error = "cleared" /\ new.status = "pending"
    BY <1>1 DEF Row, Statuses, Errors
  <1> HIDE DEF new
  <1>3. row' \in Row /\ (row.data => row'.data) /\ (new.data => row'.data)
    BY <1>1, <1>2, CallCommits
  <1>4. /\ row'.status \in {row.status, "pending"}
        /\ row'.error \in {row.error, "cleared"}
    BY <1>1, <1>2, FlushedRow DEF TypeOK
  <1> HIDE DEF seen
  <1>5. \A c \in Calls : call'[c] = IF c = t THEN At("committed", new) ELSE call[c]
    BY <1>1 DEF TypeOK
  <1>6. TypeOK'
    BY <1>1, <1>2, <1>3 DEF TypeOK, CallState, At
  <1>7. (CopiesHaveNoMoreData /\ ReadableHasNoParseError /\ UnqueuedByFailure)'
    BY <1>1, <1>2, <1>3, <1>4, <1>5
       DEF CopiesHaveNoMoreData, ReadableHasNoParseError, UnqueuedByFailure, Open, Busy, At,
           NothingFailed
  <1>8. (UnsentHasNoMessage /\ WorkersKnow)'
    BY <1>1, <1>3, <1>5 DEF UnsentHasNoMessage, WorkersKnow, Busy, At
  <1>9. SomebodyIsResponsible'
    BY <1>1, <1>5 DEF SomebodyIsResponsible, Responsible, At
  <1>10. (VerdictIsRight /\ EmbeddingAfterParse)'
    BY <1>1, <1>3, <1>4 DEF VerdictIsRight, EmbeddingAfterParse, NothingFailed, ReadableHasNoParseError
  <1> QED
    BY <1>3, <1>6, <1>7, <1>8, <1>9, <1>10

\* The broker accepts the message; no worker has handled it before.
LEMMA PublishCore ==
  ASSUME Core, NEW c \in Calls, Publish(c)
  PROVE  Core'
  <1> USE ParsingConstantsOK DEF Core, Sane, Story, Publish
  <1>1. \A d \in Calls : /\ call'[d] = IF d = c THEN Done ELSE call[d]
                         /\ left'[d] = IF d = c THEN MaxAttempts ELSE left[d]
    BY DEF TypeOK
  <1>2. TypeOK'
    BY DEF TypeOK, CallState
  <1>3. (CopiesHaveNoMoreData /\ ReadableHasNoParseError /\ UnqueuedByFailure)'
    BY <1>1 DEF CopiesHaveNoMoreData, ReadableHasNoParseError, UnqueuedByFailure, Open, Busy,
                Done, NothingFailed
  <1>4. (UnsentHasNoMessage /\ WorkersKnow)'
    BY <1>1 DEF UnsentHasNoMessage, WorkersKnow, Busy, Done
  <1>5. Responsible'
    <2>1. left'[c] > 0
      BY <1>1
    <2>2. \A w \in Workers : worker'[w].pc \in {"trigger", "answer"} => worker'[w].message # c
      BY DEF UnsentHasNoMessage, Busy
    <2> QED
      BY <2>1, <2>2 DEF Responsible
  <1>6. (VerdictIsRight /\ EmbeddingAfterParse)'
    BY DEF VerdictIsRight, EmbeddingAfterParse, NothingFailed
  <1> QED
    BY <1>2, <1>3, <1>4, <1>5, <1>6 DEF SomebodyIsResponsible

\* After a failure nothing is promised any more.
LEMMA FaultExcuses ==
  ASSUME TypeOK, Fault
  PROVE  faults' \in 0..MaxFaults /\ ~NothingFailed'
  BY ParsingConstantsOK DEF TypeOK, Fault, NothingFailed

\* A publish raises, whatever the broker has done with the message.
LEMMA PublishFailsCore ==
  ASSUME Core, NEW c \in Calls, PublishFails(c)
  PROVE  Core'
  <1> DEFINE seen == call[c].seen
  <1> USE DEF Core, Sane, Story
  <1>1. /\ call[c].pc = "committed" /\ Open(c) /\ seen \in Row
        /\ call' = [call EXCEPT ![c] = At("unqueued", seen)]
        /\ UNCHANGED <<row, readable, address, worker, embedding>>
    BY CallShape DEF PublishFails, Open
  <1>2. PICK n \in Nat : left' = [left EXCEPT ![c] = n]
    BY ParsingConstantsOK DEF PublishFails
  <1>3. faults' \in 0..MaxFaults /\ ~NothingFailed'
    BY FaultExcuses DEF PublishFails
  <1> HIDE DEF seen
  <1>4. \A d \in Calls : call'[d] = IF d = c THEN At("unqueued", seen) ELSE call[d]
    BY <1>1 DEF TypeOK
  <1>5. \A d \in Calls \ {c} : left'[d] = left[d]
    BY <1>2 DEF TypeOK
  <1>6. TypeOK'
    BY <1>1, <1>2, <1>3 DEF TypeOK, CallState, At
  <1>7. (CopiesHaveNoMoreData /\ ReadableHasNoParseError /\ UnqueuedByFailure)'
    BY <1>1, <1>3, <1>4 DEF CopiesHaveNoMoreData, ReadableHasNoParseError, UnqueuedByFailure,
                            Open, Busy, At, seen
  <1>8. (UnsentHasNoMessage /\ WorkersKnow)'
    BY <1>1, <1>4, <1>5 DEF UnsentHasNoMessage, WorkersKnow, Busy, At
  <1>9. (SomebodyIsResponsible /\ VerdictIsRight /\ EmbeddingAfterParse)'
    BY <1>1, <1>3 DEF SomebodyIsResponsible, VerdictIsRight, EmbeddingAfterParse
  <1> QED
    BY <1>6, <1>7, <1>8, <1>9

\* The queue error is recorded, over whatever a worker has written since.
LEMMA MarkUnqueuedCore ==
  ASSUME Core, NEW c \in Calls, MarkUnqueued(c)
  PROVE  Core' /\ (row.data => row'.data)
  <1> USE DEF Core, Sane, Story
  <1> DEFINE seen == call[c].seen
             new == [seen EXCEPT !.status = "failed", !.error = "queue"]
  <1>1. /\ call[c].pc = "unqueued" /\ Open(c) /\ seen \in Row
        /\ row' = Flushed(seen, new)
        /\ call' = [call EXCEPT ![c] = Done]
        /\ UNCHANGED <<readable, address, left, worker, embedding, faults>>
    BY CallShape DEF MarkUnqueued, Open
  <1>2. new \in Row /\ new.data = seen.data /\ new.error = "queue" /\ new.status = "failed"
    BY <1>1 DEF Row, Statuses, Errors
  <1> HIDE DEF new
  <1>3. row' \in Row /\ (row.data => row'.data)
    BY <1>1, <1>2, CallCommits
  <1>4. row'.status \in {row.status, "failed"} /\ row'.error \in {row.error, "queue"}
    BY <1>1, <1>2, FlushedRow DEF TypeOK
  <1> HIDE DEF seen
  <1>5. \A d \in Calls : call'[d] = IF d = c THEN Done ELSE call[d]
    BY <1>1 DEF TypeOK
  <1>6. ~NothingFailed'
    BY <1>1 DEF UnqueuedByFailure, NothingFailed
  <1>7. TypeOK'
    BY <1>1, <1>3 DEF TypeOK, CallState
  <1>8. (CopiesHaveNoMoreData /\ ReadableHasNoParseError /\ UnqueuedByFailure)'
    BY <1>1, <1>3, <1>4, <1>5
       DEF CopiesHaveNoMoreData, ReadableHasNoParseError, UnqueuedByFailure, Open, Busy, Done,
           NothingFailed
  <1>9. (UnsentHasNoMessage /\ WorkersKnow)'
    BY <1>1, <1>3, <1>5 DEF UnsentHasNoMessage, WorkersKnow, Busy, Done
  <1>10. (SomebodyIsResponsible /\ VerdictIsRight /\ EmbeddingAfterParse)'
    BY <1>1, <1>3, <1>4, <1>6
       DEF SomebodyIsResponsible, VerdictIsRight, EmbeddingAfterParse, ReadableHasNoParseError
  <1> QED
    BY <1>3, <1>7, <1>8, <1>9, <1>10

\* A call dies between two of its steps.
LEMMA CallDiesCore ==
  ASSUME Core, NEW c \in Calls, CallDies(c)
  PROVE  Core'
  <1> USE DEF Core, Sane, Story, CallDies
  <1>1. faults' \in 0..MaxFaults /\ ~NothingFailed'
    BY FaultExcuses
  <1>2. \A d \in Calls : call'[d] = IF d = c THEN Done ELSE call[d]
    BY DEF TypeOK
  <1>3. TypeOK'
    BY <1>1 DEF TypeOK, CallState
  <1>4. (CopiesHaveNoMoreData /\ ReadableHasNoParseError /\ UnqueuedByFailure)'
    BY <1>1, <1>2 DEF CopiesHaveNoMoreData, ReadableHasNoParseError, UnqueuedByFailure,
                      Open, Busy, Done
  <1>5. (UnsentHasNoMessage /\ WorkersKnow)'
    BY <1>2 DEF UnsentHasNoMessage, WorkersKnow, Busy, Done
  <1>6. (SomebodyIsResponsible /\ VerdictIsRight /\ EmbeddingAfterParse)'
    BY <1>1 DEF SomebodyIsResponsible, VerdictIsRight, EmbeddingAfterParse
  <1> QED
    BY <1>3, <1>4, <1>5, <1>6

\* A delivery: a terminal row is settled, any other makes the worker responsible.
LEMMA DeliverCore ==
  ASSUME Core, NEW w \in Workers, NEW c \in Calls, Deliver(w, c)
  PROVE  Core'
  <1> USE DEF Core, Sane, Story
  <1> DEFINE pc == IF row.status \in Terminal THEN "answer" ELSE "read"
             new == [pc |-> pc, seen |-> row, message |-> c]
  <1>1. /\ worker[w].pc = "idle" /\ left[c] > 0 /\ row \in Row
        /\ left' = [left EXCEPT ![c] = left[c] - 1]
        /\ worker' = [worker EXCEPT ![w] = new]
        /\ UNCHANGED <<row, readable, address, call, embedding, faults>>
    BY DEF Deliver, TypeOK
  <1>2. /\ new.pc \in {"read", "answer"} /\ new.seen = row /\ new.message = c
        /\ new.pc = "read" \/ row.status \in Terminal
        /\ new \in WorkerState
    BY <1>1 DEF WorkerState
  <1> HIDE DEF new
  <1>3. \A v \in Workers : worker'[v] = IF v = w THEN new ELSE worker[v]
    BY <1>1 DEF TypeOK
  <1>4. left' \in [Calls -> Nat] /\ \A d \in Calls \ {c} : left'[d] = left[d]
    BY <1>1 DEF TypeOK
  <1>5. TypeOK'
    BY <1>1, <1>2, <1>4 DEF TypeOK
  <1>6. (CopiesHaveNoMoreData /\ ReadableHasNoParseError /\ UnqueuedByFailure)'
    BY <1>1, <1>2, <1>3 DEF CopiesHaveNoMoreData, ReadableHasNoParseError, UnqueuedByFailure,
                            Open, Busy, NothingFailed
  <1>7. UnsentHasNoMessage'
    <2>1. call[c].pc \notin {"idle", "retrying", "committed"}
      BY <1>1 DEF UnsentHasNoMessage
    <2> QED
      BY <1>1, <1>2, <1>3, <1>4, <2>1 DEF UnsentHasNoMessage, Busy
  <1>8. WorkersKnow'
    BY <1>1, <1>2, <1>3 DEF WorkersKnow
  <1>9. Settled' \/ Responsible'
    BY <1>1, <1>2, <1>3 DEF Settled, Responsible
  <1>10. (VerdictIsRight /\ EmbeddingAfterParse)'
    BY <1>1 DEF VerdictIsRight, EmbeddingAfterParse, NothingFailed
  <1> QED
    BY <1>5, <1>6, <1>7, <1>8, <1>9, <1>10 DEF SomebodyIsResponsible

\* What every commit of a worker preserves: `new' keeps the data of the copy,
\* has no parse error unless the file is unreadable, and the new place is one
\* for which the worker knows enough.
LEMMA WorkerCommits ==
  ASSUME Core, NEW w \in Workers, Busy(w), NEW new \in Row, NEW pc,
         Commits(w, pc, new), UNCHANGED <<readable, address, call, left, embedding, faults>>,
         pc \in {"parsing", "trigger", "answer"},
         worker[w].seen.data => new.data,
         readable => new.error # "parse",
         pc = "parsing" => new.status = "processing",
         pc = "trigger" => new.data
  PROVE  /\ Sane' /\ UnsentHasNoMessage' /\ WorkersKnow' /\ EmbeddingAfterParse'
         /\ row.data => row'.data
         /\ worker'[w].pc = pc
         /\ row'.status = IF new.status = worker[w].seen.status THEN row.status ELSE new.status
  <1> DEFINE seen == worker[w].seen
             next == [pc |-> pc, seen |-> new, message |-> worker[w].message]
  <1> USE DEF Core, Sane, Story
  <1>1. /\ row \in Row /\ seen \in Row /\ (seen.data => row.data)
        /\ worker[w].message \in Calls
    BY WorkerShape DEF TypeOK, CopiesHaveNoMoreData
  <1>2. row' = Flushed(seen, new) /\ worker' = [worker EXCEPT ![w] = next]
    BY DEF Commits, Moves
  <1>3. /\ next.pc = pc /\ next.seen = new /\ next.message = worker[w].message
        /\ next \in WorkerState
    BY <1>1 DEF WorkerState
  <1> HIDE DEF next
  <1>4. \A v \in Workers : worker'[v] = IF v = w THEN next ELSE worker[v]
    BY <1>2 DEF TypeOK
  <1>5. (seen.data => new.data)
    OBVIOUS
  <1> HIDE DEF seen
  <1>6. /\ row' \in Row
        /\ row'.status = IF new.status = seen.status THEN row.status ELSE new.status
        /\ row'.error \in {row.error, new.error}
    BY <1>1, <1>2, FlushedRow
  <1>7. (row.data => row'.data) /\ (new.data => row'.data)
    BY <1>1, <1>2, <1>5, FlushKeepsData
  <1>8. TypeOK'
    BY <1>2, <1>3, <1>6 DEF TypeOK
  <1>9. (CopiesHaveNoMoreData /\ ReadableHasNoParseError /\ UnqueuedByFailure)'
    BY <1>3, <1>4, <1>6, <1>7
       DEF CopiesHaveNoMoreData, ReadableHasNoParseError, UnqueuedByFailure, Open, Busy,
           NothingFailed
  <1>10. UnsentHasNoMessage'
    BY <1>3, <1>4 DEF UnsentHasNoMessage, Busy
  <1>11. WorkersKnow' /\ EmbeddingAfterParse'
    BY <1>3, <1>4, <1>7 DEF WorkersKnow, EmbeddingAfterParse
  <1> QED
    BY <1>3, <1>4, <1>6, <1>7, <1>8, <1>9, <1>10, <1>11 DEF seen

\* "processing": the worker stays responsible.
LEMMA MarkProcessingCore ==
  ASSUME Core, NEW w \in Workers, MarkProcessing(w)
  PROVE  Core' /\ (row.data => row'.data)
  <1> DEFINE new == [worker[w].seen EXCEPT !.status = "processing"]
  <1>1. /\ Busy(w) /\ worker[w].seen \in Row /\ Commits(w, "parsing", new)
        /\ UNCHANGED <<readable, address, call, left, embedding, faults>>
    BY WorkerShape DEF MarkProcessing, Busy, Core, Sane
  <1>2. /\ new \in Row /\ new.data = worker[w].seen.data /\ new.status = "processing"
        /\ new.error = worker[w].seen.error
    BY <1>1 DEF Row, Statuses
  <1> HIDE DEF new
  <1>3. readable => new.error # "parse"
    BY <1>1, <1>2 DEF Core, Sane, ReadableHasNoParseError
  <1>4. /\ Sane' /\ UnsentHasNoMessage' /\ WorkersKnow' /\ EmbeddingAfterParse'
        /\ row.data => row'.data
        /\ worker'[w].pc = "parsing"
        /\ row'.status \in {row.status, "processing"}
    BY <1>1, <1>2, <1>3, WorkerCommits
  <1>5. Responsible'
    BY <1>4 DEF Responsible
  <1>6. VerdictIsRight'
    BY <1>1, <1>4 DEF Core, Sane, VerdictIsRight, ReadableHasNoParseError, NothingFailed
  <1> QED
    BY <1>4, <1>5, <1>6 DEF Core, Story, SomebodyIsResponsible

\* The result: its status differs from the copy's and is therefore written.
LEMMA ParseSucceedsCore ==
  ASSUME Core, NEW w \in Workers, ParseSucceeds(w)
  PROVE  Core' /\ (row.data => row'.data)
  <1> DEFINE new == [status |-> "parsed", error |-> "cleared", data |-> TRUE]
  <1>1. /\ worker[w].pc = "parsing" /\ readable /\ Busy(w) /\ worker[w].seen \in Row
        /\ Commits(w, "trigger", new)
        /\ UNCHANGED <<readable, address, call, left, embedding, faults>>
    BY WorkerShape DEF ParseSucceeds, Busy, Core, Sane
  <1>2. new \in Row /\ new.data /\ new.status = "parsed" /\ new.error = "cleared"
    BY DEF Row, Statuses, Errors
  <1> HIDE DEF new
  <1>3. worker[w].seen.status = "processing"
    BY <1>1 DEF Core, Story, WorkersKnow
  <1>4. /\ Sane' /\ UnsentHasNoMessage' /\ WorkersKnow' /\ EmbeddingAfterParse'
        /\ row.data => row'.data
        /\ row'.status = "parsed"
    BY <1>1, <1>2, <1>3, WorkerCommits
  <1>5. (Settled /\ VerdictIsRight)'
    BY <1>1, <1>4 DEF Settled, Terminal, VerdictIsRight
  <1> QED
    BY <1>4, <1>5 DEF Core, Story, SomebodyIsResponsible

\* The failure of an unreadable file is written likewise.
LEMMA ExtractionFailsCore ==
  ASSUME Core, NEW w \in Workers, ExtractionFails(w)
  PROVE  Core' /\ (row.data => row'.data)
  <1> DEFINE new == [worker[w].seen EXCEPT !.status = "failed", !.error = "parse"]
  <1>1. /\ worker[w].pc = "parsing" /\ ~readable /\ Busy(w) /\ worker[w].seen \in Row
        /\ Commits(w, "answer", new)
        /\ UNCHANGED <<readable, address, call, left, embedding, faults>>
    BY WorkerShape DEF ExtractionFails, Busy, Core, Sane
  <1>2. new \in Row /\ new.data = worker[w].seen.data /\ new.status = "failed"
    BY <1>1 DEF Row, Statuses, Errors
  <1> HIDE DEF new
  <1>3. worker[w].seen.status = "processing"
    BY <1>1 DEF Core, Story, WorkersKnow
  <1>4. /\ Sane' /\ UnsentHasNoMessage' /\ WorkersKnow' /\ EmbeddingAfterParse'
        /\ row.data => row'.data
        /\ row'.status = "failed"
    BY <1>1, <1>2, <1>3, WorkerCommits
  <1>5. (Settled /\ VerdictIsRight)'
    BY <1>1, <1>4 DEF Settled, Terminal, VerdictIsRight
  <1> QED
    BY <1>4, <1>5 DEF Core, Story, SomebodyIsResponsible

\* An invocation that ends without an acknowledgement, by an exception or a
\* crash, has been counted as a failure.
LEMMA WorkerLostCore ==
  ASSUME Core, NEW w \in Workers, Fault, worker' = [worker EXCEPT ![w] = Idle],
         UNCHANGED <<row, readable, address, call, left, embedding>>
  PROVE  Core'
  <1> USE DEF Core, Sane, Story
  <1>1. faults' \in 0..MaxFaults /\ ~NothingFailed'
    BY FaultExcuses
  <1>2. \A v \in Workers : worker'[v] = IF v = w THEN Idle ELSE worker[v]
    BY DEF TypeOK
  <1>3. TypeOK'
    BY <1>1 DEF TypeOK, WorkerState
  <1>4. (CopiesHaveNoMoreData /\ ReadableHasNoParseError /\ UnqueuedByFailure)'
    BY <1>1, <1>2 DEF CopiesHaveNoMoreData, ReadableHasNoParseError, UnqueuedByFailure,
                      Open, Busy, Idle
  <1>5. (UnsentHasNoMessage /\ WorkersKnow)'
    BY <1>2 DEF UnsentHasNoMessage, WorkersKnow, Busy, Idle
  <1>6. (SomebodyIsResponsible /\ VerdictIsRight /\ EmbeddingAfterParse)'
    BY <1>1 DEF SomebodyIsResponsible, VerdictIsRight, EmbeddingAfterParse
  <1> QED
    BY <1>3, <1>4, <1>5, <1>6

\* A clash of addresses is remembered as such, and changes nothing else.
LEMMA EnrichmentClashesCore ==
  ASSUME Core, NEW w \in Workers, EnrichmentClashes(w)
  PROVE  Core'
  <1> USE DEF Core, Sane, Story
  <1>1. /\ worker' = [worker EXCEPT ![w] = Idle] /\ clashed' = TRUE
        /\ UNCHANGED <<row, readable, taken, call, left, embedding, faults>>
    BY DEF EnrichmentClashes
  <1>2. \A v \in Workers : worker'[v] = IF v = w THEN Idle ELSE worker[v]
    BY <1>1 DEF TypeOK
  <1>3. TypeOK'
    BY <1>1 DEF TypeOK, WorkerState
  <1>4. (CopiesHaveNoMoreData /\ ReadableHasNoParseError /\ UnqueuedByFailure)'
    BY <1>1, <1>2 DEF CopiesHaveNoMoreData, ReadableHasNoParseError, UnqueuedByFailure,
                      Open, Busy, Idle, NothingFailed
  <1>5. (UnsentHasNoMessage /\ WorkersKnow)'
    BY <1>1, <1>2 DEF UnsentHasNoMessage, WorkersKnow, Busy, Idle
  <1>6. (SomebodyIsResponsible /\ VerdictIsRight /\ EmbeddingAfterParse)'
    BY <1>1 DEF SomebodyIsResponsible, VerdictIsRight, EmbeddingAfterParse, NothingFailed
  <1> QED
    BY <1>3, <1>4, <1>5, <1>6

\* Nobody looks at the address of another candidate before the flush.
LEMMA AddressCore ==
  ASSUME Core, AddressChangesHands
  PROVE  Core'
  BY DEF AddressChangesHands, Core, Sane, Story, TypeOK, CopiesHaveNoMoreData,
     ReadableHasNoParseError, UnqueuedByFailure, UnsentHasNoMessage, WorkersKnow,
     SomebodyIsResponsible, VerdictIsRight, EmbeddingAfterParse, NothingFailed, Settled,
     Responsible, Open, Busy

\* The embedding is asked for when the data is there; the worker was not
\* responsible before and is not afterwards.
LEMMA TriggerEmbeddingCore ==
  ASSUME Core, NEW w \in Workers, TriggerEmbedding(w)
  PROVE  Core'
  <1> USE DEF Core, Sane, Story
  <1> DEFINE next == [pc |-> "answer", seen |-> worker[w].seen, message |-> worker[w].message]
  <1>1. /\ worker[w].pc = "trigger" /\ Busy(w)
        /\ worker[w].seen \in Row /\ worker[w].message \in Calls
        /\ worker' = [worker EXCEPT ![w] = next]
        /\ UNCHANGED <<row, readable, address, call, left>>
    BY WorkerShape DEF TriggerEmbedding, Moves, Busy
  <1>2. /\ next.pc = "answer" /\ next.seen = worker[w].seen /\ next.message = worker[w].message
        /\ next \in WorkerState
    BY <1>1 DEF WorkerState
  <1> HIDE DEF next
  <1>3. \A v \in Workers : worker'[v] = IF v = w THEN next ELSE worker[v]
    BY <1>1 DEF TypeOK
  <1>4. \/ embedding' = TRUE /\ faults' = faults
        \/ embedding' = embedding /\ faults' \in 0..MaxFaults /\ ~NothingFailed'
    BY FaultExcuses DEF TriggerEmbedding
  <1>5. TypeOK'
    BY <1>1, <1>2, <1>4 DEF TypeOK
  <1>6. (CopiesHaveNoMoreData /\ ReadableHasNoParseError)'
    BY <1>1, <1>2, <1>3 DEF CopiesHaveNoMoreData, ReadableHasNoParseError, Open, Busy
  <1>7. (UnqueuedByFailure /\ VerdictIsRight)'
    BY <1>1, <1>4 DEF UnqueuedByFailure, VerdictIsRight, NothingFailed
  <1>8. (UnsentHasNoMessage /\ WorkersKnow)'
    BY <1>1, <1>2, <1>3 DEF UnsentHasNoMessage, WorkersKnow, Busy
  <1>9. SomebodyIsResponsible'
    <2>1. Responsible => Responsible'
      BY <1>1, <1>2, <1>3 DEF Responsible
    <2> QED
      BY <1>1, <1>4, <2>1 DEF SomebodyIsResponsible, NothingFailed, Settled
  <1>10. EmbeddingAfterParse'
    BY <1>1, <1>4 DEF EmbeddingAfterParse, WorkersKnow
  <1> QED
    BY <1>5, <1>6, <1>7, <1>8, <1>9, <1>10

\* The acknowledgement ends a message that nobody was relying on.
LEMMA WorkerAnswersCore ==
  ASSUME Core, NEW w \in Workers, WorkerAnswers(w)
  PROVE  Core'
  <1> USE DEF Core, Sane, Story
  <1> DEFINE m == worker[w].message
  <1>1. /\ worker[w].pc = "answer" /\ m \in Calls
        /\ left' = [left EXCEPT ![m] = 0] /\ worker' = [worker EXCEPT ![w] = Idle]
        /\ UNCHANGED <<row, readable, address, call, embedding, faults>>
    BY WorkerShape DEF WorkerAnswers, Busy
  <1> HIDE DEF m
  <1>2. \A v \in Workers : worker'[v] = IF v = w THEN Idle ELSE worker[v]
    BY <1>1 DEF TypeOK
  <1>3. \A c \in Calls : left'[c] = IF c = m THEN 0 ELSE left[c]
    BY <1>1 DEF TypeOK
  <1>4. TypeOK'
    BY <1>1 DEF TypeOK, WorkerState
  <1>5. (CopiesHaveNoMoreData /\ ReadableHasNoParseError /\ UnqueuedByFailure)'
    BY <1>1, <1>2 DEF CopiesHaveNoMoreData, ReadableHasNoParseError, UnqueuedByFailure,
                      Open, Busy, Idle, NothingFailed
  <1>6. (UnsentHasNoMessage /\ WorkersKnow)'
    BY <1>1, <1>2, <1>3 DEF UnsentHasNoMessage, WorkersKnow, Busy, Idle
  <1>7. SomebodyIsResponsible'
    <2>1. Responsible => Responsible'
      BY <1>1, <1>2, <1>3 DEF Responsible, Idle, m
    <2> QED
      BY <1>1, <2>1 DEF SomebodyIsResponsible, NothingFailed, Settled
  <1>8. (VerdictIsRight /\ EmbeddingAfterParse)'
    BY <1>1 DEF VerdictIsRight, EmbeddingAfterParse, NothingFailed
  <1> QED
    BY <1>4, <1>5, <1>6, <1>7, <1>8

-----------------------------------------------------------------------------
(* The theorems.                                                           *)

\* Every step preserves the invariant, and none loses data.
LEMMA NextCore ==
  ASSUME Core, [Next]_vars
  PROVE  Core' /\ (row.data => row'.data)
  <1>1. ASSUME NEW t \in Retries, RetryReads(t) PROVE Core' /\ (row.data => row'.data)
    BY <1>1, RetryReadsCore DEF RetryReads
  <1>2. ASSUME NEW c \in Calls, Publish(c) \/ PublishFails(c) \/ CallDies(c)
        PROVE  Core' /\ (row.data => row'.data)
    BY <1>2, PublishCore, PublishFailsCore, CallDiesCore DEF Publish, PublishFails, CallDies
  <1>3. ASSUME NEW w \in Workers, NEW c \in Calls, Deliver(w, c)
        PROVE  Core' /\ (row.data => row'.data)
    BY <1>3, DeliverCore DEF Deliver
  <1>4. ASSUME NEW w \in Workers, TransientFailure(w) \/ WorkerDies(w)
        PROVE  Core' /\ (row.data => row'.data)
    BY <1>4, WorkerLostCore DEF TransientFailure, WorkerDies
  <1>5. ASSUME NEW w \in Workers, TriggerEmbedding(w) \/ WorkerAnswers(w)
        PROVE  Core' /\ (row.data => row'.data)
    BY <1>5, TriggerEmbeddingCore, WorkerAnswersCore DEF TriggerEmbedding, WorkerAnswers
  <1>6. ASSUME NEW w \in Workers, EnrichmentClashes(w) PROVE Core' /\ (row.data => row'.data)
    BY <1>6, EnrichmentClashesCore DEF EnrichmentClashes
  <1>7. CASE AddressChangesHands
    BY <1>7, AddressCore DEF AddressChangesHands
  <1>8. CASE UNCHANGED vars
    BY <1>8 DEF vars, Core, Sane, Story, TypeOK, CopiesHaveNoMoreData, ReadableHasNoParseError,
                UnqueuedByFailure, UnsentHasNoMessage, WorkersKnow, SomebodyIsResponsible,
                VerdictIsRight, EmbeddingAfterParse, NothingFailed, Settled, Responsible,
                Open, Busy
  <1> QED
    BY <1>1, <1>2, <1>3, <1>4, <1>5, <1>6, <1>7, <1>8, RetryCommitsCore, MarkUnqueuedCore,
       MarkProcessingCore, ParseSucceedsCore, ExtractionFailsCore
       DEF Next, CallStep, WorkerRuns

\* The inductive invariant holds in every reachable state.
THEOREM IInvHolds == Spec => []IInv
  <1>1. Spec => []Core
    BY InitCore, NextCore, PTL DEF Spec
  <1> QED
    BY <1>1, CoreSuffices, PTL

\* No timeout, crash or outage condemns a readable resume, and no unreadable
\* one is ever shown as parsed.
THEOREM VerdictAlwaysRight == Spec => []VerdictIsRight
  BY IInvHolds, PTL DEF IInv

\* No interleaving of deliveries, retries and acknowledgements forgets a resume.
THEOREM NobodyForgotten == Spec => []NoResumeForgotten
  BY IInvHolds, PTL DEF IInv

\* The embedding worker always finds the parsed data it is called for.
THEOREM EmbeddingComesLater == Spec => []EmbeddingAfterParse
  BY IInvHolds, PTL DEF IInv

\* Parsed data survives every retry and every late or concurrent delivery, and
\* the embedding is asked for only afterwards.
THEOREM DataNeverLost == Spec => DataIsKept
  <1>1. IInv /\ IInv' /\ [Next]_vars
        => [(row.data => row'.data) /\ (embedding' => row'.data)]_vars
    BY InvariantHasParts, NextCore DEF IInv, EmbeddingAfterParse
  <1> QED
    BY <1>1, IInvHolds, PTL DEF Spec, DataIsKept
=============================================================================
