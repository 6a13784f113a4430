---------------------------- MODULE CurrentScore ----------------------------
(***************************************************************************)
(* Concurrent scoring of one candidate for one job, inside the database:   *)
(* ScoreService.score_candidate_sync (scores/service.py) looks for a fresh *)
(* current score, asks the model, and calls ScoreRepository.create_score,  *)
(* which demotes the current row, inserts the new one as current and is    *)
(* committed by the service.                                               *)
(*                                                                         *)
(* The calls run as PostgreSQL transactions at READ COMMITTED (external):  *)
(* an UPDATE looks for rows in a snapshot taken when it starts, waits for  *)
(* the transaction that holds the lock of a row it found, and then checks  *)
(* its condition again on the newest version of that row; the partial      *)
(* unique index uix_score_current makes an INSERT wait for every open      *)
(* transaction whose outcome decides whether it conflicts, and raises an   *)
(* IntegrityError at once if it does.                                      *)
(***************************************************************************)
EXTENDS FiniteSets

CONSTANTS
    Calls,      \* calls of score_candidate_sync for the pair; also the id of the row each writes
    Forced,     \* those with force_rescore
    Earlier,    \* id of a score that may exist beforehand
    NoScore

ASSUME CallsOK ==
    /\ Forced \subseteq Calls
    /\ Earlier \notin Calls
    /\ NoScore \notin Calls \cup {Earlier}

VARIABLES
    rows,     \* ids of the committed score rows
    live,     \* those with is_current = true
    usable,   \* is a current row that exists beforehand younger than 24 hours?
    pc,       \* where each call is
    found,    \* rows the demotion of a call saw as current when it started
    demoted   \* rows it has locked and demoted, not committed yet

pairVars == <<rows, live, usable, pc, found, demoted>>

Ids == Calls \cup {Earlier}

PairInit ==
    /\ rows \in {{}, {Earlier}}
    /\ live = rows
    /\ usable \in BOOLEAN
    /\ pc = [t \in Calls |-> "start"]
    /\ found = [t \in Calls |-> {}]
    /\ demoted = [t \in Calls |-> {}]

Move(t, from, to) == pc[t] = from /\ pc' = [pc EXCEPT ![t] = to]

\* _is_cache_valid of the current score: one written by a call is fresh.
CacheValid == live # {} /\ (live = {Earlier} => usable)

\* Unless forced, a fresh current score is the answer.
AnswerFromCache(t) ==
    /\ t \notin Forced
    /\ CacheValid
    /\ Move(t, "start", "answered")
    /\ UNCHANGED <<rows, live, usable, found, demoted>>

\* Otherwise the model is asked, with no row locked.
AskModel(t) ==
    /\ t \in Forced \/ ~CacheValid
    /\ Move(t, "start", "evaluated")
    /\ UNCHANGED <<rows, live, usable, found, demoted>>

\* The demoting UPDATE starts: its snapshot is the committed state.
StartDemotion(t) ==
    /\ Move(t, "evaluated", "demoting")
    /\ found' = [found EXCEPT ![t] = live]
    /\ UNCHANGED <<rows, live, usable, demoted>>

\* It ends when no other transaction holds a row it found; a row that has been
\* demoted meanwhile no longer matches, and a newer current row was not found.
FinishDemotion(t) ==
    /\ \A u \in Calls \ {t} : demoted[u] \cap found[t] = {}
    /\ Move(t, "demoting", "demoted")
    /\ demoted' = [demoted EXCEPT ![t] = found[t] \cap live]
    /\ UNCHANGED <<rows, live, usable, found>>

\* Does an open transaction other than t decide whether t's row conflicts?
Undecided(t) == \E u \in Calls \ {t} : pc[u] = "inserted" \/ demoted[u] # {}

\* The unique index: another current row than those t demotes itself.
Conflict(t) == live \ demoted[t] # {}

\* The flush of the INSERT: it waits, then succeeds ...
Insert(t) ==
    /\ ~Undecided(t)
    /\ ~Conflict(t)
    /\ Move(t, "demoted", "inserted")
    /\ UNCHANGED <<rows, live, usable, found, demoted>>

\* Mutant: a rolled-back transaction keeps its row locks.
MutantAbortKeepsLocks(t, from) ==
    /\ Move(t, from, "failed")
    /\ UNCHANGED <<rows, live, usable, found, demoted>>

Abort(t, from) ==
    /\ Move(t, from, "failed")
    /\ demoted' = [demoted EXCEPT ![t] = {}]
    /\ UNCHANGED <<rows, live, usable, found>>

\* ... or raises IntegrityError in create_score, outside of the handler that
\* score_candidate_sync keeps around its commit: the call fails.
InsertConflicts(t) ==
    /\ ~Undecided(t)
    /\ Conflict(t)
    /\ Abort(t, "demoted")

\* Mutant: the demotion is committed without the new row.
MutantCommitLosesRow(t) ==
    /\ Move(t, "inserted", "answered")
    /\ live' = live \ demoted[t]
    /\ rows' = rows
    /\ demoted' = [demoted EXCEPT ![t] = {}]
    /\ UNCHANGED <<usable, found>>

\* Mutant: the new row replaces the old one instead of adding to the history.
MutantReplacesRow(t) ==
    /\ Move(t, "inserted", "answered")
    /\ live' = (live \ demoted[t]) \cup {t}
    /\ rows' = (rows \ demoted[t]) \cup {t}
    /\ demoted' = [demoted EXCEPT ![t] = {}]
    /\ UNCHANGED <<usable, found>>

\* session.commit() of the service: demotion, row, usage and audit together.
Commit(t) ==
    /\ Move(t, "inserted", "answered")
    /\ live' = (live \ demoted[t]) \cup {t}
    /\ rows' = rows \cup {t}
    /\ demoted' = [demoted EXCEPT ![t] = {}]
    /\ UNCHANGED <<usable, found>>

\* The model call, the usage or the audit record raises, or the process dies:
\* the session is closed and the transaction rolled back.
Rollback(t) == \E from \in {"evaluated", "demoting", "demoted", "inserted"} : Abort(t, from)

\* The existing score turns 24 hours old.
Expire ==
    /\ usable
    /\ usable' = FALSE
    /\ UNCHANGED <<rows, live, pc, found, demoted>>

Runs(t) ==
    \/ AnswerFromCache(t) \/ AskModel(t) \/ StartDemotion(t) \/ FinishDemotion(t)
    \/ Insert(t) \/ InsertConflicts(t) \/ Commit(t)

PairNext == (\E t \in Calls : Runs(t) \/ Rollback(t)) \/ Expire

PairSpec == PairInit /\ [][PairNext]_pairVars
FairPairSpec == PairSpec /\ \A t \in Calls : WF_pairVars(Runs(t))

-----------------------------------------------------------------------------
\* Every variable stays in its type.
PairTypeOK ==
    /\ rows \subseteq Ids
    /\ live \subseteq rows
    /\ usable \in BOOLEAN
    /\ pc \in [Calls -> {"start", "evaluated", "demoting", "demoted", "inserted",
                         "answered", "failed"}]
    /\ found \in [Calls -> SUBSET rows]
    /\ demoted \in [Calls -> SUBSET rows]

\* get_current_score uses scalar_one_or_none, which raises on a second row: no
\* interleaving of scorings commits two current rows for a pair.
AtMostOneCurrent == \A x, y \in live : x = y

\* A pair that has been scored never loses its current score: no reader sees
\* the moment between demotion and insertion.
ScoredStaysScored == rows # {} => live # {}

\* No two open transactions hold the same demoted row, and rows are held only
\* by a transaction that is still open.
LocksExclusive ==
    \A t \in Calls :
        /\ \A u \in Calls \ {t} : demoted[t] \cap demoted[u] = {}
        /\ demoted[t] # {} => pc[t] \in {"demoted", "inserted"}
        /\ demoted[t] \subseteq live

\* A row that has passed the index is the only one that can become current.
InsertedIsNext ==
    \A t \in Calls : pc[t] = "inserted" =>
        /\ live \subseteq demoted[t]
        /\ t \notin rows
        /\ \A u \in Calls \ {t} : pc[u] # "inserted"

\* A call writes its row only by committing.
RowsAreCommitted == \A t \in Calls : t \in rows => pc[t] = "answered"

\* The inductive invariant of Scoring_proofs.
PairIInv ==
    /\ PairTypeOK /\ AtMostOneCurrent /\ ScoredStaysScored
    /\ LocksExclusive /\ InsertedIsNext /\ RowsAreCommitted

\* The committed rows implement the register.
Held == IF live = {} THEN NoScore ELSE CHOOSE x \in live : TRUE

Register == INSTANCE ScoreRegister WITH held <- Held, past <- rows \ live

ImplementsRegister == Register!Spec

\* Transactions that wait for each other's locks and index entries all end:
\* no call waits for ever, whoever rolls back.
EveryCallEnds == \A t \in Calls : <>(pc[t] \in {"answered", "failed"})
=============================================================================
