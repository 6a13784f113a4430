-------------------------------- MODULE Hiring --------------------------------
(***************************************************************************)
(* One job, its pipeline stages and its candidates: the calls of            *)
(* jobs/service.py, pipeline/service.py and add_candidate_to_job of         *)
(* candidates/service.py, any number of them at once.                       *)
(*                                                                         *)
(* A call reads (its SELECTs are one step), decides, and commits.  What it  *)
(* decided on may be overtaken in between: no row is locked.  A commit      *)
(* writes the columns whose new value differs from the one it has read;     *)
(* foreign keys and unique constraints are checked against what is          *)
(* committed by then, since PostgreSQL makes a writer wait for whoever has  *)
(* not committed yet.                                                       *)
(***************************************************************************)
EXTENDS Integers, Sequences, FiniteSets

CONSTANTS
    Handlers,    \* calls that can be in flight together
    Stages,      \* stage ids
    Rejecting,   \* those with the name "Rejected" or "Disqualified"
    Candidates,
    MaxStages,   \* positions a stage can have (20 in the code)
    MaxCalls,    \* bound on calls
    None         \* no stage

ASSUME HiringConstantsOK ==
    /\ IsFiniteSet(Stages) /\ Stages \subseteq Nat \ {0} /\ {1, 2} \subseteq Stages
    /\ Rejecting \subseteq Stages
    /\ None \notin Stages
    /\ MaxStages \in Nat \ {0, 1}
    /\ MaxCalls \in Nat \ {0}
    /\ Candidates \cap {"job", "stages"} = {}

VARIABLES
    job,          \* the row of the job
    position,     \* of every stage, 0 if there is no row
    application,  \* job_candidates
    history,      \* candidate_stage_history of every candidate, in the order of the commits
    handler,      \* state of every call
    raced,        \* history: what a call has written that had been overtaken
    calls         \* calls so far, which is also the time

vars == <<job, position, application, history, handler, raced, calls>>

Statuses == {"draft", "open", "paused", "closed", "archived"}

\* "deleted" stands for no row; `opened' is the time of opened_at, 0 if null.
Job == [status : Statuses \cup {"deleted"}, archived : BOOLEAN, opened : 0..MaxCalls]

Positions == [Stages -> 0..MaxStages]

\* The stage of an application is None if there is no row.
Application == [stage : Stages \cup {None}, shortlisted : BOOLEAN]
NoApplication == [stage |-> None, shortlisted |-> FALSE]

\* `began' is the start of the transaction, which created_at takes.
Entry == [from : Stages \cup {None}, to : Stages, began : 1..MaxCalls]

Idle == [pc |-> "idle"]

JobCall == {"opening", "pausing", "closing", "archiving", "deleting"}
StageCall == {"creating", "arranging", "removing"}
CandidateCall == {"adding", "moving", "rejecting", "shortlisting"}

Exists == job.status # "deleted"
Present == {s \in Stages : position[s] # 0}
Applied(c) == application[c].stage # None

\* What create_job has left, the first call: any status, two stages or more (six in the
\* code) at the first positions; candidates may have applied.
Init ==
    /\ job \in {[status |-> s, archived |-> FALSE, opened |-> IF s = "open" THEN 1 ELSE 0] :
          s \in Statuses}
    /\ \E n \in 2..MaxStages : position = [s \in Stages |-> IF s <= n THEN s ELSE 0]
    /\ application \in [Candidates -> [stage : Present \cup {None}, shortlisted : {FALSE}]]
    /\ history = [c \in Candidates |-> <<>>]
    /\ handler = [h \in Handlers |-> Idle]
    /\ raced = {}
    /\ calls = 1

-----------------------------------------------------------------------------
(* Calls and what overtakes them.                                          *)

\* What a call decides on: the job, its stages, or one candidate's application.
On(h) ==
    CASE handler[h].pc \in JobCall -> {"job"}
      [] handler[h].pc \in StageCall -> {"stages"}
      [] handler[h].pc \in CandidateCall -> {handler[h].candidate}
      [] OTHER -> {}

\* The call of h ends and has written X: calls that have read X are overtaken.
Ends(h, X) ==
    /\ handler' = [g \in Handlers |->
          IF g = h THEN Idle
          ELSE IF On(g) \cap X # {} THEN [handler[g] EXCEPT !.overtaken = TRUE] ELSE handler[g]]
    /\ raced' = IF handler[h].overtaken THEN raced \cup X ELSE raced

\* A call that fails, on a constraint or for any other reason, leaves nothing.
Fails(h) ==
    /\ handler' = [handler EXCEPT ![h] = Idle]
    /\ UNCHANGED <<job, position, application, history, raced>>

Begins(h, state) ==
    /\ handler[h].pc = "idle"
    /\ Exists
    /\ calls < MaxCalls /\ calls' = calls + 1
    /\ handler' = [handler EXCEPT ![h] = state]
    /\ UNCHANGED <<job, position, application, history, raced>>

Abort(h) == handler[h].pc # "idle" /\ Fails(h) /\ UNCHANGED calls

-----------------------------------------------------------------------------
(* The status of the job.                                                  *)

ReadJob(h, pc) == Begins(h, [pc |-> pc, began |-> calls + 1, overtaken |-> FALSE, read |-> job])

\* Mutant: only an open job is refused.
MutantOpensAnyJob(h) ==
    job.status # "open" /\ ReadJob(h, "opening")

OpenReads(h) ==
    job.status \in {"draft", "paused"} /\ ReadJob(h, "opening")

PauseReads(h) == job.status = "open" /\ ReadJob(h, "pausing")
CloseReads(h) == job.status # "closed" /\ ReadJob(h, "closing")
ArchiveReads(h) == ReadJob(h, "archiving")
DeleteReads(h) == ReadJob(h, "deleting")

Wanted(pc) ==
    CASE pc = "opening" -> "open"
      [] pc = "pausing" -> "paused"
      [] pc = "closing" -> "closed"
      [] OTHER -> "archived"

\* The row as the session has changed it: opened_at is set by the first opening.
Edited(c) ==
    [status |-> Wanted(c.pc),
     archived |-> c.read.archived \/ c.pc = "archiving",
     opened |-> IF c.pc = "opening" /\ c.read.opened = 0 THEN c.began ELSE c.read.opened]

\* The UPDATE of the columns that differ from what was read.
Merged(read, new) ==
    [status |-> IF new.status # read.status THEN new.status ELSE job.status,
     archived |-> IF new.archived # read.archived THEN new.archived ELSE job.archived,
     opened |-> IF new.opened # read.opened THEN new.opened ELSE job.opened]

CommitJob(h) ==
    /\ handler[h].pc \in JobCall \ {"deleting"}
    /\ LET c == handler[h]
           new == Merged(c.read, Edited(c))
       IN  IF Exists
           THEN /\ job' = new
                /\ Ends(h, IF new = job THEN {} ELSE {"job"})
                /\ UNCHANGED <<position, application, history>>
           ELSE Fails(h)
    /\ UNCHANGED calls

\* A job goes with its stages, unless an application holds one of them.
DeleteJob(h) ==
    /\ handler[h].pc = "deleting"
    /\ IF \E c \in Candidates : Applied(c)
       THEN Fails(h)
       ELSE /\ job' = [job EXCEPT !.status = "deleted"]
            /\ position' = [s \in Stages |-> 0]
            /\ Ends(h, {"job", "stages"})
            /\ UNCHANGED <<application, history>>
    /\ UNCHANGED calls

-----------------------------------------------------------------------------
(* The stages.                                                             *)

\* Orders assign positions to stages, one UPDATE after the other.
ReadStages(h, pc, orders) ==
    Begins(h, [pc |-> pc, began |-> calls + 1, overtaken |-> FALSE, read |-> position,
               orders |-> orders])

\* The id of a new stage is nobody's.
Fresh(s) ==
    /\ s \notin Present
    /\ \A g \in Handlers : handler[g].pc = "creating" => handler[g].orders[1][1] # s

\* Mutant: positions are counted from zero.
MutantPositionOffByOne(h, s, p) ==
    /\ Fresh(s)
    /\ Cardinality(Present) < MaxStages
    /\ ReadStages(h, "creating", <<<<s, p + 1>>>>)

\* create_pipeline_stage: below the limit, at a given position or behind as many
\* stages as there are.
CreateReads(h, s, p) ==
    /\ Fresh(s)
    /\ Cardinality(Present) < MaxStages
    /\ ReadStages(h, "creating", <<<<s, p>>>>)

\* update_pipeline_stage and reorder_pipeline_stages; unknown stages are skipped.
ArrangeReads(h, orders) == ReadStages(h, "arranging", orders)

\* Mutant: two stages are enough to remove one.
MutantKeepsOneStage(h, s) ==
    /\ s \in Present
    /\ Cardinality(Present) >= 2
    /\ ReadStages(h, "removing", <<<<s, 0>>>>)

\* delete_pipeline_stage: one of more than two.
RemoveReads(h, s) ==
    /\ s \in Present
    /\ Cardinality(Present) > 2
    /\ ReadStages(h, "removing", <<<<s, 0>>>>)

\* The positions after the first n orders.
Arranged(c, n) ==
    [s \in Stages |->
        LET mine == {i \in 1..n : c.orders[i][1] = s /\ c.orders[i][2] # c.read[s]}
        IN  IF mine = {} \/ (c.pc = "arranging" /\ c.read[s] = 0) THEN position[s]
            ELSE c.orders[CHOOSE i \in mine : \A j \in mine : j <= i][2]]

\* The unique constraint on (job, position).
Unique(f) == \A s, t \in Stages : f[s] = f[t] /\ f[s] # 0 => s = t

\* The constraint is checked after every UPDATE; a stage that was to be moved and
\* is gone fails the call.
CommitStages(h) ==
    /\ handler[h].pc \in {"creating", "arranging"}
    /\ LET c == handler[h]
           n == Len(c.orders)
           new == Arranged(c, n)
           gone == c.pc = "arranging" /\ \E s \in Stages : position[s] = 0 /\ new[s] # 0
       IN  IF Exists /\ ~gone /\ \A k \in 1..n : Unique(Arranged(c, k))
           THEN /\ position' = new
                /\ Ends(h, IF new = position THEN {} ELSE {"stages"})
                /\ UNCHANGED <<job, application, history>>
           ELSE Fails(h)
    /\ UNCHANGED calls

\* RESTRICT: an application at the stage, or a move to it in the history.
InUse(s) ==
    \E c \in Candidates :
        \/ application[c].stage = s
        \/ \E i \in 1..Len(history[c]) : history[c][i].to = s

\* SET NULL: moves away from the stage.
Forget(s) ==
    [c \in Candidates |-> [i \in 1..Len(history[c]) |->
        [history[c][i] EXCEPT !.from = IF @ = s THEN None ELSE @]]]

\* Mutant: a stage in use is removed.
MutantRemovesStageInUse(h) ==
    /\ handler[h].pc = "removing"
    /\ LET s == handler[h].orders[1][1]
       IN  /\ position' = [position EXCEPT ![s] = 0]
           /\ history' = Forget(s)
           /\ Ends(h, {"stages"})
           /\ UNCHANGED <<job, application>>
    /\ UNCHANGED calls

RemoveStage(h) ==
    /\ handler[h].pc = "removing"
    /\ LET s == handler[h].orders[1][1]
       IN  IF InUse(s)
           THEN Fails(h)
           ELSE /\ position' = [position EXCEPT ![s] = 0]
                /\ history' = Forget(s)
                /\ Ends(h, IF s \in Present THEN {"stages"} ELSE {})
                /\ UNCHANGED <<job, application>>
    /\ UNCHANGED calls

-----------------------------------------------------------------------------
(* The candidates.                                                         *)

ReadApplication(h, pc, c, to) ==
    Begins(h, [pc |-> pc, began |-> calls + 1, overtaken |-> FALSE, candidate |-> c,
               read |-> application[c], to |-> to])

\* The first of some stages by position.
First(S) == CHOOSE s \in S : \A t \in S : position[s] <= position[t]
Last(S) == CHOOSE s \in S : \A t \in S : position[t] <= position[s]

\* add_candidate_to_job, whatever the status of the job.
AddReads(h, c) ==
    /\ ~Applied(c)
    /\ Present # {}
    /\ ReadApplication(h, "adding", c, First(Present))

\* move_candidate_stage: to another stage of this job.
MoveReads(h, c, s) ==
    /\ Applied(c)
    /\ s \in Present /\ application[c].stage # s
    /\ ReadApplication(h, "moving", c, s)

\* reject_candidate: to the first stage of that name, else to the last one.
RejectedStage ==
    IF Present \cap Rejecting # {} THEN First(Present \cap Rejecting) ELSE Last(Present)

RejectReads(h, c) ==
    /\ Applied(c)
    /\ Present # {}
    /\ ReadApplication(h, "rejecting", c, RejectedStage)

ShortlistReads(h, c) ==
    /\ Applied(c)
    /\ ReadApplication(h, "shortlisting", c, application[c].stage)

\* The INSERT of the application, which no history entry records.
Add(h) ==
    /\ handler[h].pc = "adding"
    /\ LET c == handler[h]
       IN  IF Exists /\ ~Applied(c.candidate) /\ c.to \in Present
           THEN /\ application' = [application EXCEPT ![c.candidate].stage = c.to]
                /\ Ends(h, {c.candidate})
                /\ UNCHANGED <<job, position, history>>
           ELSE Fails(h)
    /\ UNCHANGED calls

\* A history entry refers to rows that exist.
Recordable(c) == c.to \in Present /\ c.read.stage \in Present

\* Mutant: the entry is written, the stage is not.
MutantRecordsOnly(h) ==
    /\ handler[h].pc \in {"moving", "rejecting"}
    /\ LET c == handler[h]
       IN  /\ Recordable(c)
           /\ history' = [history EXCEPT ![c.candidate] =
                 Append(@, [from |-> c.read.stage, to |-> c.to, began |-> c.began])]
           /\ Ends(h, {c.candidate})
           /\ UNCHANGED <<job, position, application>>
    /\ UNCHANGED calls

\* A move or a rejection: the entry, and the stage if it differs from the one read.
Move(h) ==
    /\ handler[h].pc \in {"moving", "rejecting"}
    /\ LET c == handler[h]
       IN  IF Recordable(c)
           THEN /\ history' = [history EXCEPT ![c.candidate] =
                      Append(@, [from |-> c.read.stage, to |-> c.to, began |-> c.began])]
                /\ application' = IF c.to = c.read.stage THEN application
                                  ELSE [application EXCEPT ![c.candidate].stage = c.to]
                /\ Ends(h, {c.candidate})
                /\ UNCHANGED <<job, position>>
           ELSE Fails(h)
    /\ UNCHANGED calls

\* A shortlisting writes one column, and leaves moves in peace.
Shortlist(h) ==
    /\ handler[h].pc = "shortlisting"
    /\ application' = [application EXCEPT ![handler[h].candidate].shortlisted = TRUE]
    /\ Ends(h, {})
    /\ UNCHANGED <<job, position, history, calls>>

-----------------------------------------------------------------------------
\* update_pipeline_stage: one stage gets any position within the limit.
Updates == {<<<<s, p>>>> : s \in Stages, p \in 1..MaxStages}

\* ... and reorder_pipeline_stages, with which two stages exchange theirs.
Orders ==
    Updates \cup {<<<<s, position[t]>>, <<t, position[s]>>>> : s \in Present, t \in Present}

JobStep(h) ==
    \/ OpenReads(h) \/ PauseReads(h) \/ CloseReads(h) \/ ArchiveReads(h) \/ DeleteReads(h)
    \/ CommitJob(h) \/ DeleteJob(h)

StageStep(h) ==
    \/ \E s \in Stages, p \in 1..MaxStages : CreateReads(h, s, p)
    \/ \E orders \in Orders : ArrangeReads(h, orders)
    \/ \E s \in Stages : RemoveReads(h, s)
    \/ CommitStages(h) \/ RemoveStage(h)

CandidateStep(h) ==
    \/ \E c \in Candidates : AddReads(h, c) \/ RejectReads(h, c) \/ ShortlistReads(h, c)
    \/ \E c \in Candidates, s \in Stages : MoveReads(h, c, s)
    \/ Add(h) \/ Move(h) \/ Shortlist(h)

Next == \E h \in Handlers : JobStep(h) \/ StageStep(h) \/ CandidateStep(h) \/ Abort(h)

Spec == Init /\ [][Next]_vars

-----------------------------------------------------------------------------
JobCallState ==
    [pc : JobCall, began : 1..MaxCalls, overtaken : BOOLEAN, read : Job]
StageCallState ==
    [pc : StageCall, began : 1..MaxCalls, overtaken : BOOLEAN, read : Positions,
     orders : Seq(Stages \X (0..MaxStages))]
CandidateCallState ==
    [pc : CandidateCall, began : 1..MaxCalls, overtaken : BOOLEAN, candidate : Candidates,
     read : Application, to : Stages]

HandlerState == {Idle} \cup JobCallState \cup StageCallState \cup CandidateCallState

\* Every variable stays in its type.
TypeOK ==
    /\ job \in Job
    /\ position \in Positions
    /\ application \in [Candidates -> Application]
    /\ history \in [Candidates -> Seq(Entry)]
    /\ handler \in [Handlers -> HandlerState]
    /\ raced \subseteq Candidates \cup {"job", "stages"}
    /\ calls \in 0..MaxCalls

\* What refers to a stage refers to one that exists, and no two stages share a
\* position: no interleaving of moves, removals and rearrangements breaks a
\* reference.
ReferencesHold ==
    /\ Unique(position)
    /\ \A c \in Candidates :
          /\ Applied(c) => application[c].stage \in Present
          /\ \A i \in 1..Len(history[c]) :
                /\ history[c][i].to \in Present
                /\ history[c][i].from \in Present \cup {None}

(* The parts of the inductive invariant of Hiring_proofs that no property states. *)

\* A change of status is checked on what was read, and that is the job as it is
\* unless the call has been overtaken.
JobReader(h) ==
    LET c == handler[h]
    IN  c.pc \in JobCall =>
            /\ c.pc = "opening" => c.read.status \in {"draft", "paused"}
            /\ c.pc = "pausing" => c.read.status = "open"
            /\ ~c.overtaken => c.read = job

\* So are the stages; only a removal gives a position up, one of three.
StageReader(h) ==
    LET c == handler[h]
    IN  c.pc \in StageCall =>
            /\ c.pc = "removing" =>
                  Len(c.orders) = 1 /\ Cardinality({s \in Stages : c.read[s] # 0}) > 2
            /\ c.pc # "removing" => \A i \in 1..Len(c.orders) : c.orders[i][2] # 0
            /\ ~c.overtaken => c.read = position

\* An application stays, and a call that nobody has overtaken knows its stage and
\* is younger than whoever has written its history.
CandidateReader(h) ==
    LET c == handler[h]
    IN  c.pc \in CandidateCall =>
            /\ c.pc # "adding" => Applied(c.candidate)
            /\ ~c.overtaken =>
                  /\ c.read.stage = application[c.candidate].stage
                  /\ \A i \in 1..Len(history[c.candidate]) :
                        history[c.candidate][i].began < c.began

\* No call and no entry is younger than the last call.
NobodyAhead ==
    /\ \A h \in Handlers : handler[h].pc # "idle" => handler[h].began <= calls
    /\ \A c \in Candidates : \A i \in 1..Len(history[c]) : history[c][i].began <= calls

\* Who has a history has an application.
HistoryOfApplied == \A c \in Candidates : Len(history[c]) > 0 => Applied(c)

\* A job that is closed or archived is not opened or paused again, and its first
\* opening keeps its time, but by a call that has been overtaken.
LifecycleRespected ==
    [][job' # job /\ "job" \notin raced' =>
          /\ job.status \in {"closed", "archived"} => job'.status \notin {"draft", "open", "paused"}
          /\ job.opened # 0 => job'.opened = job.opened
          /\ job.archived => job'.archived]_vars

\* A job keeps two stages, unless one is removed by a call that has been overtaken.
TwoStagesRemain ==
    Exists /\ "stages" \notin raced => Cardinality(Present) >= 2

\* The history of an application leads from stage to stage, in the order in which
\* get_stage_history lists it, to the stage where it is; unless a call has moved it
\* that had been overtaken.  Removed stages leave a gap in `from'.
Tells(c) ==
    LET entries == history[c]
        n == Len(entries)
    IN  /\ n > 0 => application[c].stage = entries[n].to
        /\ \A i \in 1..n-1 :
              /\ entries[i].began < entries[i+1].began
              /\ entries[i+1].from \in {entries[i].to, None}

HistoryTells == \A c \in Candidates \ raced : Tells(c)

\* The inductive invariant of Hiring_proofs.
IInv ==
    /\ TypeOK /\ ReferencesHold /\ TwoStagesRemain /\ HistoryTells
    /\ NobodyAhead /\ HistoryOfApplied
    /\ \A h \in Handlers : JobReader(h) /\ StageReader(h) /\ CandidateReader(h)
=============================================================================
