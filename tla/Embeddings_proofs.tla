-------------------------- MODULE Embeddings_proofs --------------------------
(***************************************************************************)
(* Proofs about Embeddings for any set of texts, any number of workers,    *)
(* messages, edits and failures.  The argument: only an upsert writes the  *)
(* row, and unless it mixes columns the row is the one that it makes of    *)
(* its own text; the hash of such a row is that of the full text only if   *)
(* the text is not longer than the input of the model, and then the vector *)
(* is that of the text.                                                    *)
(***************************************************************************)
EXTENDS Embeddings, TLAPS

-----------------------------------------------------------------------------
(* Rows.                                                                   *)

LEMMA NewRows ==
  ASSUME NEW t \in Texts
  PROVE  /\ Success(t) \in Row /\ Success(t) # NoRow
         /\ Failure(t) \in Row /\ Failure(t) # NoRow
  BY DEF Success, Failure, Row, NoRow, Inputs

LEMMA NoRowIsNone == NoRow \notin Row
  BY DEF NoRow, Row

\* An UPDATE of a row leaves a row.
LEMMA UpdatedType ==
  ASSUME row \in Row, NEW read \in Row, NEW new \in Row, NEW same \in BOOLEAN
  PROVE  Updated(read, new, same) \in Row
  BY DEF Updated, Row

-----------------------------------------------------------------------------
(* What a worker looks like.                                               *)

Fresh == [pc : {"reading", "rejected"}, message : Messages, text : Texts]
Holding == [pc : {"generating", "storing", "failing"}, message : Messages, text : Texts,
            read : Row \cup {NoRow}]

LEMMA WorkerShape ==
  ASSUME TypeOK, NEW w \in Workers
  PROVE  /\ worker[w] \in WorkerState
         /\ worker[w].pc \in {"reading", "rejected"} => worker[w] \in Fresh
         /\ worker[w].pc \in {"generating", "storing", "failing"} => worker[w] \in Holding
         /\ worker[w].pc # "idle" => worker[w].message \in Messages /\ worker[w].text \in Texts
  <1>1. worker[w] \in {Idle} \cup Fresh \cup Holding
    BY DEF TypeOK, WorkerState, Fresh, Holding
  <1> QED
    BY <1>1 DEF Idle, Fresh, Holding, WorkerState

LEMMA BecomesType ==
  ASSUME TypeOK, NEW w \in Workers, NEW s \in WorkerState, Becomes(w, s)
  PROVE  worker' \in [Workers -> WorkerState]
  BY DEF Becomes, TypeOK

LEMMA WorkerStates ==
  ASSUME NEW m \in Messages, NEW t \in Texts
  PROVE  /\ Idle \in WorkerState
         /\ \A pc \in {"reading", "rejected"} :
               [pc |-> pc, message |-> m, text |-> t] \in WorkerState
         /\ \A pc \in {"generating", "storing", "failing"}, r \in Row \cup {NoRow} :
               [pc |-> pc, message |-> m, text |-> t, read |-> r] \in WorkerState
  BY DEF WorkerState

LEMMA AcknowledgeType ==
  ASSUME TypeOK, NEW w \in Workers, worker[w].pc # "idle", Acknowledge(w)
  PROVE  /\ worker' \in [Workers -> WorkerState]
         /\ left' \in [Messages -> 0..MaxAttempts]
  <1>1. Idle \in WorkerState
    BY DEF WorkerState
  <1>2. 0 \in 0..MaxAttempts
    BY EmbeddingConstantsOK
  <1> QED
    BY <1>1, <1>2, BecomesType DEF Acknowledge, TypeOK

LEMMA OwesType ==
  ASSUME NEW asked, NEW r, Owes(asked, r)
  PROVE  owed' \in BOOLEAN
  BY DEF Owes

-----------------------------------------------------------------------------
(* Type correctness.                                                       *)

LEMMA InitType == Init => TypeOK
  <1> SUFFICES ASSUME Init PROVE TypeOK
    OBVIOUS
  <1>1. triggers \in Nat
    BY DEF Init
  <1>2. left \in [Messages -> 0..MaxAttempts] /\ edits \in 0..MaxEdits /\ faults \in 0..MaxFaults
    BY EmbeddingConstantsOK DEF Init
  <1>3. worker \in [Workers -> WorkerState]
    BY DEF Init, WorkerState
  <1> QED
    BY <1>1, <1>2, <1>3 DEF Init, TypeOK

\* The upsert and its commit.
LEMMA UpsertType ==
  ASSUME TypeOK, NEW w \in Workers, worker[w].pc \in {"storing", "failing"},
         NEW new \in Row, Upsert(w, new)
  PROVE  /\ row' \in Row \cup {NoRow} /\ mixed' \in BOOLEAN /\ owed' \in BOOLEAN
         /\ worker' \in [Workers -> WorkerState]
         /\ left' \in [Messages -> 0..MaxAttempts]
         /\ (row' = row /\ mixed' = mixed) \/ (mixed' <=> (mixed \/ row' # new))
  <1>1. worker[w] \in Holding
    BY WorkerShape
  <1>2. worker[w].read \in Row \cup {NoRow}
    BY <1>1 DEF Holding
  <1>3. CASE Writable(worker[w].read)
    <2>1. PICK same \in SeenAsEqual :
            row' = IF worker[w].read = NoRow THEN new ELSE Updated(worker[w].read, new, same)
      BY <1>3 DEF Upsert
    <2>2. same \in BOOLEAN
      BY EmbeddingConstantsOK
    <2>3. worker[w].read # NoRow => worker[w].read \in Row /\ row \in Row
      BY <1>2, <1>3 DEF Writable, TypeOK
    <2>4. row' \in Row
      BY <2>1, <2>2, <2>3, UpdatedType
    <2>5. Acknowledge(w) /\ Owes(FALSE, row') /\ mixed' = (mixed \/ row' # new)
      BY <1>3 DEF Upsert
    <2> QED
      BY <2>4, <2>5, AcknowledgeType, OwesType
  <1>4. CASE ~Writable(worker[w].read)
    <2>1. Becomes(w, Idle) /\ UNCHANGED <<left, row, mixed, owed>>
      BY <1>4 DEF Upsert
    <2>2. Idle \in WorkerState
      BY DEF WorkerState
    <2> QED
      BY <2>1, <2>2, BecomesType DEF TypeOK
  <1> QED
    BY <1>3, <1>4

LEMMA StoreType ==
  ASSUME TypeOK, NEW m \in Messages, Store(m)
  PROVE  stored' \subseteq Messages /\ left' \in [Messages -> 0..MaxAttempts]
  <1>1. MaxAttempts \in 0..MaxAttempts
    BY EmbeddingConstantsOK
  <1>2. stored' = stored \cup {m} /\ left' = [left EXCEPT ![m] = MaxAttempts]
    BY DEF Store
  <1> QED
    BY <1>1, <1>2 DEF TypeOK

LEMMA EntityStepType ==
  ASSUME TypeOK,
         \/ \E t \in Texts : Edit(t) \/ EditProfile(t)
         \/ Delete \/ TriggerFails \/ WindowEnds
         \/ \E m \in Messages : Trigger(m) \/ Request(m)
  PROVE  TypeOK'
  <1>1. ASSUME NEW t \in Texts, Edit(t) PROVE TypeOK'
    <2>0. triggers \in Nat /\ triggers' = triggers + 1
      BY <1>1 DEF Edit, TypeOK
    <2>3. triggers' \in Nat
      BY <2>0
    <2>4. text' \in Texts
      BY <1>1 DEF Edit
    <2>5. owed' \in BOOLEAN
      BY <1>1 DEF Edit
    <2>1. text' \in Texts /\ owed' \in BOOLEAN /\ triggers' \in Nat
      BY <2>3, <2>4, <2>5
    <2>2. edits' \in 0..MaxEdits
      BY <1>1, EmbeddingConstantsOK DEF Edit, TypeOK
    <2> QED
      BY <1>1, <2>1, <2>2 DEF Edit, TypeOK, broker
  <1>2. ASSUME NEW t \in Texts, EditProfile(t) PROVE TypeOK'
    <2>1. text' \in Texts /\ owed' \in BOOLEAN
      BY <1>2 DEF EditProfile, TypeOK
    <2>2. edits' \in 0..MaxEdits
      BY <1>2, EmbeddingConstantsOK DEF EditProfile, TypeOK
    <2> QED
      BY <1>2, <2>1, <2>2 DEF EditProfile, TypeOK, broker
  <1>3. ASSUME Delete PROVE TypeOK'
    BY <1>3 DEF Delete, TypeOK, broker
  <1>4. ASSUME TriggerFails PROVE TypeOK'
    BY <1>4, EmbeddingConstantsOK DEF TriggerFails, TypeOK, broker
  <1>5. ASSUME WindowEnds PROVE TypeOK'
    BY <1>5 DEF WindowEnds, TypeOK, entity
  <1>6. ASSUME NEW m \in Messages, Trigger(m) PROVE TypeOK'
    <2>1. owed' \in BOOLEAN /\ knows' \in BOOLEAN
      BY <1>6 DEF Trigger, Owes, TypeOK
    <2>2. stored' \subseteq Messages /\ left' \in [Messages -> 0..MaxAttempts]
      BY <1>6, StoreType DEF Trigger, TypeOK
    <2>3. triggers' \in Nat
      BY <1>6 DEF Trigger, TypeOK
    <2> QED
      BY <1>6, <2>1, <2>2, <2>3 DEF Trigger, TypeOK
  <1>7. ASSUME NEW m \in Messages, Request(m) PROVE TypeOK'
    BY <1>7, StoreType, OwesType DEF Request, TypeOK, entity
  <1> QED
    BY <1>1, <1>2, <1>3, <1>4, <1>5, <1>6, <1>7

LEMMA WorkerStepType ==
  ASSUME TypeOK, NEW w \in Workers,
         Works(w) \/ Fault(w) \/ \E m \in Messages : Deliver(w, m)
  PROVE  TypeOK'
  <1>0. ASSUME Quiet, worker' \in [Workers -> WorkerState], left' \in [Messages -> 0..MaxAttempts]
        PROVE  TypeOK'
    BY <1>0 DEF Quiet, TypeOK, entity
  <1>1. ASSUME NEW m \in Messages, Deliver(w, m) PROVE TypeOK'
    <2>1. CASE text = None
      BY <1>0, <1>1, <2>1, EmbeddingConstantsOK DEF Deliver, TypeOK
    <2>2. CASE text # None
      <3>1. text \in Texts
        BY <2>2 DEF TypeOK
      <3>2. left' \in [Messages -> 0..MaxAttempts]
        BY <1>1, <2>2, EmbeddingConstantsOK DEF Deliver, TypeOK
      <3>3. worker' \in [Workers -> WorkerState]
        BY <1>1, <2>2, <3>1, WorkerStates, BecomesType DEF Deliver
      <3> QED
        BY <1>0, <1>1, <3>2, <3>3 DEF Deliver
    <2> QED
      BY <2>1, <2>2
  <1>2. ASSUME LookUp(w) PROVE TypeOK'
    <2>1. worker[w] \in Fresh /\ worker[w].message \in Messages /\ worker[w].text \in Texts
      BY <1>2, WorkerShape DEF LookUp
    <2>2. row \in Row \cup {NoRow} /\ left \in [Messages -> 0..MaxAttempts]
      BY DEF TypeOK
    <2>3. CASE Hit(row, worker[w].text)
      BY <1>0, <1>2, <2>3, AcknowledgeType DEF LookUp
    <2>4. CASE ~Hit(row, worker[w].text)
      BY <1>0, <1>2, <2>1, <2>2, <2>4, WorkerStates, BecomesType DEF LookUp
    <2> QED
      BY <2>3, <2>4
  <1>3. ASSUME Generate(w) PROVE TypeOK'
    <2>1. worker[w] \in Holding
      BY <1>3, WorkerShape DEF Generate
    <2>2. row \in Row \cup {NoRow} /\ left \in [Messages -> 0..MaxAttempts]
      BY DEF TypeOK
    <2> DEFINE r == IF worker[w].read = NoRow \/ row = NoRow THEN row ELSE worker[w].read
    <2>3. [worker[w] EXCEPT !.pc = "storing", !.read = r] \in Holding
      BY <2>1, <2>2 DEF Holding
    <2>4. [worker[w] EXCEPT !.pc = "storing", !.read = r] \in WorkerState
      BY <2>3 DEF WorkerState, Holding
    <2>5. Becomes(w, [worker[w] EXCEPT !.pc = "storing", !.read = r])
      BY <1>3 DEF Generate
    <2>6. worker' \in [Workers -> WorkerState]
      BY <2>4, <2>5, BecomesType
    <2> QED
      BY <1>0, <1>3, <2>2, <2>6 DEF Generate
  <1>4. ASSUME Reject(w) PROVE TypeOK'
    <2>1. worker[w].message \in Messages
      BY <1>4, WorkerShape DEF Reject
    <2>2. text # None => text \in Texts
      BY DEF TypeOK
    <2>3. left \in [Messages -> 0..MaxAttempts]
      BY DEF TypeOK
    <2>4. CASE text = None
      BY <1>0, <1>4, <2>4, AcknowledgeType DEF Reject
    <2>5. CASE text # None
      BY <1>0, <1>4, <2>1, <2>2, <2>3, <2>5, WorkerStates, BecomesType DEF Reject
    <2> QED
      BY <2>4, <2>5
  <1>5. ASSUME LookUpAgain(w) PROVE TypeOK'
    <2>1. worker[w].message \in Messages /\ worker[w].text \in Texts
      BY <1>5, WorkerShape DEF LookUpAgain
    <2>2. row \in Row \cup {NoRow} /\ left \in [Messages -> 0..MaxAttempts]
      BY DEF TypeOK
    <2> QED
      BY <1>0, <1>5, <2>1, <2>2, WorkerStates, BecomesType DEF LookUpAgain
  <1>6. ASSUME StoreSuccess(w) PROVE TypeOK'
    BY <1>6, WorkerShape, NewRows, UpsertType DEF StoreSuccess, TypeOK, entity
  <1>7. ASSUME StoreFailure(w) PROVE TypeOK'
    BY <1>7, WorkerShape, NewRows, UpsertType DEF StoreFailure, TypeOK, entity
  <1>8. ASSUME Fault(w) PROVE TypeOK'
    <2>1. worker' \in [Workers -> WorkerState]
      BY <1>8, BecomesType DEF Fault, WorkerState
    <2> QED
      BY <1>8, <2>1, EmbeddingConstantsOK DEF Fault, TypeOK, entity, broker
  <1> QED
    BY <1>1, <1>2, <1>3, <1>4, <1>5, <1>6, <1>7, <1>8 DEF Works

LEMMA NextType == TypeOK /\ [Next]_vars => TypeOK'
  <1> SUFFICES ASSUME TypeOK, [Next]_vars PROVE TypeOK'
    OBVIOUS
  <1>1. CASE UNCHANGED vars
    BY <1>1 DEF TypeOK, vars, entity, broker
  <1> QED
    BY <1>1, EntityStepType, WorkerStepType DEF Next

-----------------------------------------------------------------------------
(* The row is of one text.                                                 *)

\* A row that one invocation has made of one text, and whose hash is that of the
\* present text, has the vector of the present text.
LEMMA OneTextSuffices == TypeOK /\ RowIsOfOneText => CountedIsEmbedded
  <1> SUFFICES ASSUME TypeOK, RowIsOfOneText, Counted = "with_embedding", ~mixed
               PROVE  row.vector = Truncated(text)
    BY DEF CountedIsEmbedded
  <1>1. row # NoRow /\ row.hash = text /\ row.status = "success" /\ row.vector # None
    <2>1. Reported \notin {"stale", "failed", "missing"}
      BY DEF Counted
    <2> QED
      BY <2>1, NewRows DEF Reported, Status, TypeOK, Row
  <1>2. PICK t \in Texts : row \in {Success(t), Failure(t)}
    BY <1>1 DEF RowIsOfOneText, Answers
  <1>3. row = Success(t)
    BY <1>1, <1>2 DEF Failure
  <1>4. text = Truncated(t)
    BY <1>1, <1>3 DEF Success
  <1>5. t = text /\ t \notin Long
    BY <1>4, EmbeddingConstantsOK DEF Truncated, TypeOK
  <1> QED
    BY <1>3, <1>4, <1>5 DEF Success

LEMMA UpsertKeepsOneText ==
  ASSUME TypeOK, RowIsOfOneText, NEW w \in Workers, worker[w].pc \in {"storing", "failing"},
         NEW t \in Texts, NEW new \in {Success(t), Failure(t)}, Upsert(w, new)
  PROVE  RowIsOfOneText'
  <1>1. (row' = row /\ mixed' = mixed) \/ (mixed' <=> (mixed \/ row' # new))
    BY NewRows, UpsertType
  <1>2. ~mixed' /\ row' = new => Answers(row', t)
    BY NewRows DEF Answers
  <1> QED
    BY <1>1, <1>2 DEF RowIsOfOneText, Answers

LEMMA NextKeepsOneText == TypeOK /\ RowIsOfOneText /\ [Next]_vars => RowIsOfOneText'
  <1> SUFFICES ASSUME TypeOK, RowIsOfOneText, [Next]_vars PROVE RowIsOfOneText'
    OBVIOUS
  <1>0. ASSUME UNCHANGED <<row, mixed>> PROVE RowIsOfOneText'
    BY <1>0 DEF RowIsOfOneText, Answers
  <1>1. ASSUME NEW t \in Texts, Edit(t) \/ EditProfile(t) PROVE RowIsOfOneText'
    BY <1>0, <1>1 DEF Edit, EditProfile
  <1>2. ASSUME Delete PROVE RowIsOfOneText'
    BY <1>2 DEF Delete, RowIsOfOneText
  <1>3. ASSUME TriggerFails \/ WindowEnds PROVE RowIsOfOneText'
    BY <1>0, <1>3 DEF TriggerFails, WindowEnds
  <1>4. ASSUME NEW m \in Messages, Trigger(m) \/ Request(m) PROVE RowIsOfOneText'
    BY <1>0, <1>4 DEF Trigger, Request
  <1>5. ASSUME NEW w \in Workers, NEW m \in Messages, Deliver(w, m) PROVE RowIsOfOneText'
    BY <1>0, <1>5 DEF Deliver, Quiet
  <1>6. ASSUME NEW w \in Workers, LookUp(w) \/ Generate(w) \/ Reject(w) \/ LookUpAgain(w)
        PROVE  RowIsOfOneText'
    BY <1>0, <1>6 DEF LookUp, Generate, Reject, LookUpAgain, Quiet
  <1>7. ASSUME NEW w \in Workers, StoreSuccess(w) PROVE RowIsOfOneText'
    BY <1>7, WorkerShape, UpsertKeepsOneText DEF StoreSuccess
  <1>8. ASSUME NEW w \in Workers, StoreFailure(w) PROVE RowIsOfOneText'
    BY <1>8, WorkerShape, UpsertKeepsOneText DEF StoreFailure
  <1>9. ASSUME NEW w \in Workers, Fault(w) PROVE RowIsOfOneText'
    BY <1>0, <1>9 DEF Fault
  <1>10. CASE UNCHANGED vars
    BY <1>0, <1>10 DEF vars
  <1> QED
    BY <1>1, <1>2, <1>3, <1>4, <1>5, <1>6, <1>7, <1>8, <1>9, <1>10 DEF Next, Works

\* Types, and the row of one text: the inductive invariant holds in every
\* reachable state.
THEOREM IInvHolds == Spec => []IInv
  <1>1. Init => TypeOK /\ RowIsOfOneText
    BY InitType DEF Init, RowIsOfOneText
  <1>2. TypeOK /\ RowIsOfOneText /\ [Next]_vars => (TypeOK /\ RowIsOfOneText)'
    BY NextType, NextKeepsOneText
  <1>3. TypeOK /\ RowIsOfOneText => IInv
    BY OneTextSuffices DEF IInv
  <1> QED
    BY <1>1, <1>2, <1>3, PTL DEF Spec

\* What the coverage counts as embedded has the vector of its present text, for any
\* number of edits, deliveries and failures.
THEOREM CountedAlwaysEmbedded == Spec => []CountedIsEmbedded
  BY IInvHolds, PTL DEF IInv
=============================================================================
