------------------------------ MODULE Embeddings ------------------------------
(***************************************************************************)
(* The embedding of one candidate or job: embeddings/service.py and its     *)
(* repository and generator, the two embedding webhooks, and those who      *)
(* publish to them.                                                         *)
(*                                                                         *)
(* A text stands for its full hash, and the input of the model (the first   *)
(* 30000 characters) for its vector and for its hash.  A worker is one      *)
(* invocation of a webhook.  It holds the row of its first SELECT in its    *)
(* session, and its UPDATE writes what differs from that copy.  Whether an  *)
(* equal vector counts as different is up to the vector library (an array   *)
(* does not compare as equal, a list does) and to the model's last digit.   *)
(***************************************************************************)
EXTENDS Integers, FiniteSets

CONSTANTS
    Texts,        \* source texts
    Long,         \* those longer than the input of the model
    Prefix,       \* what is left of them
    Workers,      \* invocations that can run together
    Messages,     \* numbers of the messages that the broker can hold
    MaxAttempts,  \* deliveries of one message
    MaxEdits,     \* bound on changes of the text
    MaxFaults,    \* bound on failed calls and dying invocations
    SeenAsEqual,  \* whether an equal vector is left out of an UPDATE: one choice or both
    None

ASSUME EmbeddingConstantsOK ==
    /\ IsFiniteSet(Texts) /\ Long \subseteq Texts /\ Prefix \notin Texts
    /\ None \notin Texts \cup {Prefix}
    /\ SeenAsEqual \subseteq BOOLEAN
    /\ MaxAttempts \in Nat \ {0} /\ MaxEdits \in Nat /\ MaxFaults \in Nat

VARIABLES
    kind,      \* whether this is a candidate or a job
    text,      \* its text, None once a job is deleted
    row,       \* its row in candidate_embeddings or job_embeddings
    triggers,  \* edits that are committed and will publish
    left,      \* deliveries left of every message, 0 if acknowledged or not yet stored
    stored,    \* messages stored so far
    knows,     \* whether the broker still remembers the trigger's deduplication id
    worker,
    mixed,     \* history: an UPDATE has left out a column that had been overtaken
    owed,      \* history: a message was stored after the last edit, and no row answers it
    edits,
    faults

entity == <<kind, text, triggers, edits>>
broker == <<left, stored, knows>>
vars == <<entity, row, broker, worker, mixed, owed, faults>>

Truncated(t) == IF t \in Long THEN Prefix ELSE t
Inputs == {Truncated(t) : t \in Texts}

Row == [vector : Inputs \cup {None}, hash : Texts \cup Inputs, status : {"success", "failed"}]
NoRow == [status |-> "none"]

Idle == [pc |-> "idle"]

\* What a worker stores: the hash is the generator's, of the truncated text.
Success(t) == [vector |-> Truncated(t), hash |-> Truncated(t), status |-> "success"]

\* A terminal failure is stored under the hash of the full text.
Failure(t) == [vector |-> None, hash |-> t, status |-> "failed"]

\* create_job has committed the job and goes on to publish; a new candidate is silent.
Init ==
    /\ kind \in {"candidate", "job"}
    /\ text \in Texts
    /\ row = NoRow
    /\ triggers = IF kind = "job" THEN 1 ELSE 0
    /\ left = [m \in Messages |-> 0]
    /\ stored = {}
    /\ knows = FALSE
    /\ worker = [w \in Workers |-> Idle]
    /\ mixed = FALSE
    /\ owed = FALSE
    /\ edits = 0
    /\ faults = 0

-----------------------------------------------------------------------------
(* What the API reports.                                                   *)

\* _determine_embedding_status.
Status(r, t) ==
    IF r.hash # t THEN "stale"
    ELSE IF r.status = "failed" THEN "failed"
    ELSE IF r.vector = None THEN "stale" ELSE "current"

Reported == IF row = NoRow THEN "missing" ELSE Status(row, text)

\* How the coverage counts it.
Counted ==
    CASE Reported = "stale" -> "stale"
      [] Reported \in {"failed", "missing"} -> "missing"
      [] OTHER -> "with_embedding"

\* A row answers for a text if it comes from that text.
Answers(r, t) == r # NoRow /\ r \in {Success(t), Failure(t)}

-----------------------------------------------------------------------------
(* The text and the messages about it.                                     *)

\* A message is asked for or not, and r is the row from now on.
Owes(asked, r) == owed' = ((owed \/ asked) /\ ~Answers(r, text))

\* The text changes: update_job with a title, a description or skills, or a parsed resume.
Edit(t) ==
    /\ text \notin {None, t} /\ edits < MaxEdits
    /\ text' = t /\ edits' = edits + 1
    /\ triggers' = triggers + 1
    /\ owed' = FALSE
    /\ UNCHANGED <<kind, row, broker, worker, mixed, faults>>

\* update_candidate publishes nothing.
EditProfile(t) ==
    /\ kind = "candidate"
    /\ text # t /\ edits < MaxEdits
    /\ text' = t /\ edits' = edits + 1
    /\ owed' = FALSE
    /\ UNCHANGED <<kind, row, triggers, broker, worker, mixed, faults>>

\* A job that is deleted takes its embedding along.
Delete ==
    /\ kind = "job" /\ text # None
    /\ text' = None /\ row' = NoRow
    /\ owed' = FALSE
    /\ UNCHANGED <<kind, triggers, edits, broker, worker, mixed, faults>>

\* Messages are numbered in the order in which they are stored.
Store(m) ==
    /\ m = Cardinality(stored) + 1
    /\ stored' = stored \cup {m}
    /\ left' = [left EXCEPT ![m] = MaxAttempts]

\* The deduplication id of a trigger is the same for every edit: while the broker
\* knows it, the message is dropped.
Trigger(m) ==
    /\ triggers > 0 /\ triggers' = triggers - 1
    /\ IF knows
       THEN UNCHANGED <<left, stored, knows>> /\ Owes(FALSE, row)
       ELSE Store(m) /\ knows' = TRUE /\ Owes(text # None, row)
    /\ UNCHANGED <<kind, text, edits, row, worker, mixed, faults>>

\* A failed publish is logged and forgotten.
TriggerFails ==
    /\ triggers > 0 /\ triggers' = triggers - 1
    /\ faults < MaxFaults /\ faults' = faults + 1
    /\ UNCHANGED <<kind, text, edits, row, broker, worker, mixed, owed>>

\* The ids of generate_candidate_embedding and generate_job_embedding are random.
Request(m) ==
    /\ text # None
    /\ Store(m) /\ Owes(TRUE, row)
    /\ UNCHANGED <<entity, row, knows, worker, mixed, faults>>

WindowEnds ==
    /\ knows /\ knows' = FALSE
    /\ UNCHANGED <<entity, row, left, stored, worker, mixed, owed, faults>>

-----------------------------------------------------------------------------
(* The webhook.                                                            *)

Becomes(w, state) == worker' = [worker EXCEPT ![w] = state]

\* A 2xx ends the message, anything else leaves it to the next delivery.
Acknowledge(w) ==
    /\ left' = [left EXCEPT ![worker[w].message] = 0]
    /\ Becomes(w, Idle)

Quiet == UNCHANGED <<entity, row, stored, knows, mixed, owed, faults>>

\* The entity and its text are read; a job that is gone is acknowledged.
Deliver(w, m) ==
    /\ worker[w] = Idle /\ left[m] > 0
    /\ IF text = None
       THEN left' = [left EXCEPT ![m] = 0] /\ UNCHANGED worker
       ELSE /\ left' = [left EXCEPT ![m] = left[m] - 1]
            /\ Becomes(w, [pc |-> "reading", message |-> m, text |-> text])
    /\ Quiet


\* The cached embedding is of this text: its hash is that of the full text.
Hit(r, t) == r # NoRow /\ r.hash = t /\ r.vector # None

LookUp(w) ==
    /\ worker[w].pc = "reading"
    /\ IF Hit(row, worker[w].text)
       THEN Acknowledge(w)
       ELSE /\ Becomes(w, [pc |-> "generating", message |-> worker[w].message,
                           text |-> worker[w].text, read |-> row])
            /\ UNCHANGED left
    /\ Quiet

\* The model has answered; the SELECT of the upsert gives the row that the session
\* holds, or, if there was none, the one that exists now.
Generate(w) ==
    /\ worker[w].pc = "generating"
    /\ Becomes(w, [worker[w] EXCEPT !.pc = "storing",
                                    !.read = IF @ = NoRow \/ row = NoRow THEN row ELSE @])
    /\ UNCHANGED left
    /\ Quiet

\* A 400 of the model: the session is rolled back, entity and text are read again.
Reject(w) ==
    /\ worker[w].pc = "generating"
    /\ IF text = None
       THEN Acknowledge(w)
       ELSE /\ Becomes(w, [pc |-> "rejected", message |-> worker[w].message, text |-> text])
            /\ UNCHANGED left
    /\ Quiet

\* The SELECT of the upsert of a failure.
LookUpAgain(w) ==
    /\ worker[w].pc = "rejected"
    /\ Becomes(w, [pc |-> "failing", message |-> worker[w].message,
                   text |-> worker[w].text, read |-> row])
    /\ UNCHANGED left
    /\ Quiet

\* The UPDATE of the columns that differ from the copy.
Updated(read, new, same) ==
    [vector |-> IF new.vector = read.vector /\ (same \/ new.vector = None)
                THEN row.vector ELSE new.vector,
     hash |-> IF new.hash = read.hash THEN row.hash ELSE new.hash,
     status |-> IF new.status = read.status THEN row.status ELSE new.status]

\* An INSERT meets the unique constraint and the foreign key, an UPDATE needs its row.
Writable(read) == (read = NoRow) = (row = NoRow) /\ text # None

\* The upsert and its commit.
Upsert(w, new) ==
    LET read == worker[w].read
    IN  IF Writable(read)
        THEN /\ \E same \in SeenAsEqual :
                   row' = IF read = NoRow THEN new ELSE Updated(read, new, same)
             /\ mixed' = (mixed \/ row' # new)
             /\ Acknowledge(w)
             /\ Owes(FALSE, row')
        ELSE /\ Becomes(w, Idle)
             /\ UNCHANGED <<left, row, mixed, owed>>

\* Mutant: the hash stored is that of the text as it is by now.
MutantHashesLate(w) ==
    /\ worker[w].pc = "storing"
    /\ Upsert(w, [Success(worker[w].text) EXCEPT !.hash = IF text = None THEN @ ELSE Truncated(text)])
    /\ UNCHANGED <<entity, stored, knows, faults>>

StoreSuccess(w) ==
    /\ worker[w].pc = "storing"
    /\ Upsert(w, Success(worker[w].text))
    /\ UNCHANGED <<entity, stored, knows, faults>>

StoreFailure(w) ==
    /\ worker[w].pc = "failing"
    /\ Upsert(w, Failure(worker[w].text))
    /\ UNCHANGED <<entity, stored, knows, faults>>

\* A 429, an outage or the end of the invocation.
Fault(w) ==
    /\ worker[w] # Idle
    /\ faults < MaxFaults /\ faults' = faults + 1
    /\ Becomes(w, Idle)
    /\ UNCHANGED <<entity, row, broker, mixed, owed>>

-----------------------------------------------------------------------------
Works(w) ==
    LookUp(w) \/ Generate(w) \/ Reject(w) \/ LookUpAgain(w) \/ StoreSuccess(w) \/ StoreFailure(w)

Next ==
    \/ \E t \in Texts : Edit(t) \/ EditProfile(t)
    \/ Delete \/ TriggerFails \/ WindowEnds
    \/ \E m \in Messages : Trigger(m) \/ Request(m)
    \/ \E w \in Workers : Works(w) \/ Fault(w)
    \/ \E w \in Workers, m \in Messages : Deliver(w, m)

Spec == Init /\ [][Next]_vars

\* The broker goes on delivering, and an invocation runs on.
Fairness ==
    /\ \A m \in Messages : WF_vars(\E w \in Workers : Deliver(w, m))
    /\ \A w \in Workers : WF_vars(Works(w))

FairSpec == Spec /\ Fairness

-----------------------------------------------------------------------------
WorkerState ==
    {Idle}
    \cup [pc : {"reading", "rejected"}, message : Messages, text : Texts]
    \cup [pc : {"generating", "storing", "failing"}, message : Messages, text : Texts,
          read : Row \cup {NoRow}]

\* Every variable stays in its type.
TypeOK ==
    /\ kind \in {"candidate", "job"}
    /\ text \in Texts \cup {None}
    /\ row \in Row \cup {NoRow}
    /\ triggers \in Nat
    /\ left \in [Messages -> 0..MaxAttempts]
    /\ stored \subseteq Messages
    /\ knows \in BOOLEAN /\ mixed \in BOOLEAN /\ owed \in BOOLEAN
    /\ worker \in [Workers -> WorkerState]
    /\ edits \in 0..MaxEdits /\ faults \in 0..MaxFaults

\* While no columns have been mixed, the row is what one invocation has made of one text.
RowIsOfOneText ==
    ~mixed => row = NoRow \/ \E t \in Texts : Answers(row, t)

\* What the coverage counts as embedded has the vector of its present text, however
\* edits, deliveries and failures interleave; unless an UPDATE has mixed the columns
\* of two invocations.
CountedIsEmbedded ==
    Counted = "with_embedding" /\ ~mixed => row.vector = Truncated(text)

\* The inductive invariant.
IInv == TypeOK /\ RowIsOfOneText /\ CountedIsEmbedded


\* docs/DATABASE_DESIGN.md:915 describes source_text_hash as "SHA-256 of the input text
\* (staleness detection)": by comparing the hash, the coverage counts as embedded only
\* what has the vector of its present text, mixed columns included.
StalenessDetected == Counted = "with_embedding" => row.vector = Truncated(text)
=============================================================================
