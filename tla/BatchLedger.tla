----------------------------- MODULE BatchLedger -----------------------------
(***************************************************************************)
(* What batch scoring of one job promises, with no queue, no handler and   *)
(* no counter: batches are opened one at a time, every queued candidate is *)
(* accounted for at most once, as scored or as failed, and a batch closes  *)
(* in the very step that accounts for its last entry.  BatchScoring is     *)
(* shown to implement this specification.                                  *)
(***************************************************************************)
EXTENDS Integers, FiniteSets

CONSTANTS Batches, Candidates,
          Sizes             \* the numbers of entries a batch may be opened with

VARIABLE ledger     \* batch -> [status, size, scored, failed]

Entry(st, n, s, f) == [status |-> st, size |-> n, scored |-> s, failed |-> f]

Unopened == Entry("absent", 0, {}, {})

Running(b) == ledger[b].status \in {"pending", "processing"}
NoneRunning == \A b \in Batches : ~Running(b)

\* The status of an entry whose accounted candidates are now s and f.
StatusAfter(n, s, f) ==
    IF Cardinality(s) + Cardinality(f) < n THEN "processing"
    ELSE IF Cardinality(f) = n THEN "failed" ELSE "completed"

Init == ledger = [b \in Batches |-> Unopened]

Open(b, n) ==
    /\ NoneRunning
    /\ ledger[b] = Unopened
    /\ ledger' = [ledger EXCEPT ![b] = Entry("pending", n, {}, {})]

Start(b) ==
    LET e == ledger[b] IN
    /\ e.status = "pending"
    /\ ledger' = [ledger EXCEPT ![b] = Entry("processing", e.size, e.scored, e.failed)]

\* Candidate c is accounted for, once, while the batch runs.
Settle(b, c) ==
    LET e == ledger[b] IN
    /\ e.status = "processing"
    /\ c \notin e.scored \cup e.failed
    /\ \E s, f \in SUBSET Candidates :
          /\ \/ s = e.scored \cup {c} /\ f = e.failed
             \/ s = e.scored /\ f = e.failed \cup {c}
          /\ ledger' = [ledger EXCEPT ![b] = Entry(StatusAfter(e.size, s, f), e.size, s, f)]

\* A poll gives the batch up.  The poll decides on a row it read earlier, so
\* that a batch which has meanwhile completed may be marked failed too: the
\* promise is only that nothing but the status changes.
GiveUp(b) ==
    LET e == ledger[b] IN
    /\ e.status # "absent"
    /\ ledger' = [ledger EXCEPT ![b] = Entry("failed", e.size, e.scored, e.failed)]

Next ==
    \E b \in Batches :
        \/ \E n \in Sizes : Open(b, n)
        \/ Start(b)
        \/ \E c \in Candidates : Settle(b, c)
        \/ GiveUp(b)

Spec == Init /\ [][Next]_ledger
=============================================================================
