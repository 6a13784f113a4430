----------------------------- MODULE ResumeUpload -----------------------------
(***************************************************************************)
(* Uploading resumes: upload_resume and bulk_upload_resumes of              *)
(* resumes/service.py, with the part of add_candidate_to_job that they      *)
(* call.  ResumeParsing goes on where an upload has been committed.         *)
(*                                                                         *)
(* A call holds what its session has flushed and not committed.  Three      *)
(* things make this hard: the checksum has no unique index, the association *)
(* with a job commits in the middle of the upload, and a bulk upload keeps  *)
(* the session of a file that has failed.                                   *)
(***************************************************************************)
EXTENDS Integers, Sequences, FiniteSets

CONSTANTS
    Calls,       \* requests that can be in flight together
    Files,       \* contents, by checksum
    Empty,       \* those of no bytes, which the table refuses
    MaxUploads,  \* bound on candidates and resumes, which are numbered together
    MaxFaults    \* bound on failures from outside and dying calls

ASSUME UploadConstantsOK ==
    /\ IsFiniteSet(Files) /\ Empty \subseteq Files
    /\ MaxUploads \in Nat \ {0} /\ MaxFaults \in Nat

VARIABLES
    candidates,  \* committed candidates; Known was there before
    applied,     \* those associated with the job
    resumes,     \* committed resumes, with their files
    call,
    used,        \* numbers given so far
    leftover,    \* history: numbers whose file failed in a bulk upload that went on
    overlapped,  \* history: files looked up while another call had missed them
    faults

vars == <<candidates, applied, resumes, call, used, leftover, overlapped, faults>>

Known == 0
Numbers == 1..MaxUploads

\* A resume is complete with its resume_files row.
Resume == [id : Numbers, candidate : {Known} \cup Numbers, file : Files,
           primary : BOOLEAN, complete : BOOLEAN]

Idle == [pc |-> "idle"]

Init ==
    /\ candidates = {Known}
    /\ applied \in SUBSET {Known}
    /\ resumes = {}
    /\ call = [k \in Calls |-> Idle]
    /\ used = 0
    /\ leftover = {} /\ overlapped = {} /\ faults = 0

-----------------------------------------------------------------------------
(* The session of a call.                                                  *)

File(k) == Head(call[k].todo)

\* Where a call goes on after a file, or ends and closes its session.
Onward(c) ==
    IF Len(c.todo) > 1 THEN [c EXCEPT !.todo = Tail(c.todo), !.pc = "checking"] ELSE Idle

Clean(c) == [c EXCEPT !.candidates = {}, !.resumes = {}, !.unset = {}]

Becomes(k, c) == call' = [call EXCEPT ![k] = c]

\* A COMMIT makes all that the session holds visible, whichever file it is from.
Commit(c) ==
    /\ candidates' = candidates \cup c.candidates
    /\ resumes' = {[r EXCEPT !.primary = @ /\ r.id \notin c.unset] : r \in resumes} \cup c.resumes

Flushed(c) == c.candidates \cup {r.id : r \in c.resumes}

\* An exception.  It ends a single upload, and the session with it.  A bulk upload goes
\* on: with all that is flushed, or, if the exception came from the database, with a
\* transaction that is rolled back and accepts no statement any more.
Fails(k, broken) ==
    LET c == call[k]
        kept == IF broken THEN [Clean(c) EXCEPT !.broken = TRUE] ELSE c
    IN  /\ Becomes(k, IF c.bulk THEN Onward(kept) ELSE Idle)
        /\ leftover' = IF c.bulk THEN leftover \cup Flushed(kept) ELSE leftover

Data == <<candidates, applied, resumes>>

-----------------------------------------------------------------------------
(* One file.                                                               *)

\* A single upload may name a candidate, and the files of a bulk upload never do.
Begin(k, files, job, named) ==
    /\ call[k] = Idle
    /\ used < MaxUploads
    /\ Len(files) > 1 => ~named
    /\ Becomes(k, [pc |-> "checking", todo |-> files, bulk |-> Len(files) > 1, job |-> job,
                   named |-> named, candidate |-> Known, id |-> 0, seen |-> {}, candidates |-> {},
                   resumes |-> {}, unset |-> {}, broken |-> FALSE])
    /\ UNCHANGED <<Data, used, leftover, overlapped, faults>>

\* Mutant: resumes of this candidate are looked through, not those of the tenant.
MutantOwnResumes(k) ==
    {r \in resumes : r.complete /\ r.file = File(k) /\ r.candidate = call[k].candidate}

\* find_file_by_checksum.
Matches(k) == {r \in resumes : r.complete /\ r.file = File(k)}

\* The phases of a call that has missed its file and not committed it yet.
Working == {"associating", "starting", "unsetting", "inserting", "storing"}

Missing(f) == {k \in Calls : call[k].pc \in Working /\ File(k) = f}

\* A known file is answered with its resume; two resumes of one file are an error.
CheckKnown(k) ==
    /\ call[k].pc = "checking"
    /\ \/ ~call[k].broken /\ Cardinality(Matches(k)) = 1
          /\ Becomes(k, Onward(call[k])) /\ UNCHANGED leftover
       \/ ~call[k].broken /\ Cardinality(Matches(k)) > 1 /\ Fails(k, FALSE)
       \/ call[k].broken /\ Fails(k, TRUE)
    /\ UNCHANGED <<Data, used, overlapped, faults>>

\* Mutant: the placeholder is not added to the session.
MutantForgetsPlaceholder(k) ==
    /\ call[k].pc = "checking" /\ ~call[k].broken
    /\ Matches(k) = {}
    /\ used < MaxUploads /\ used' = used + 1
    /\ Becomes(k, [call[k] EXCEPT !.pc = IF call[k].job THEN "associating" ELSE "starting",
                                  !.id = used',
                                  !.candidate = IF call[k].named THEN Known ELSE used'])
    /\ UNCHANGED <<Data, leftover, overlapped, faults>>

\* A new file gets a placeholder candidate, unless the caller has named one.
CheckNew(k) ==
    /\ call[k].pc = "checking" /\ ~call[k].broken
    /\ Matches(k) = {}
    /\ used < MaxUploads /\ used' = used + 1
    /\ LET c == call[k]
           new == IF c.named THEN Known ELSE used'
       IN  Becomes(k, [c EXCEPT !.pc = IF c.job THEN "associating" ELSE "starting",
                                !.id = used', !.candidate = new,
                                !.candidates = @ \cup ({new} \ {Known})])
    /\ overlapped' = IF Missing(File(k)) # {} THEN overlapped \cup {File(k)} ELSE overlapped
    /\ UNCHANGED <<Data, leftover, faults>>

\* add_candidate_to_job, which commits.
Associate(k) ==
    /\ call[k].pc = "associating"
    /\ LET c == call[k]
       IN  IF c.candidate \in applied
           THEN Fails(k, FALSE) /\ UNCHANGED Data
           ELSE /\ Commit(c)
                /\ applied' = applied \cup {c.candidate}
                /\ Becomes(k, [Clean(c) EXCEPT !.pc = "starting"])
                /\ UNCHANGED leftover
    /\ UNCHANGED <<used, overlapped, faults>>

Primaries(c) == {r.id : r \in {x \in resumes : x.candidate = c /\ x.primary}}

\* unset_primary_resumes: an UPDATE, which sees what is committed when it starts,
StartUnset(k) ==
    /\ call[k].pc = "starting"
    /\ Becomes(k, [call[k] EXCEPT !.pc = "unsetting", !.seen = Primaries(call[k].candidate)])
    /\ UNCHANGED <<Data, used, leftover, overlapped, faults>>

\* waits for whoever has changed a row of that and not committed, and looks again.
FinishUnset(k) ==
    /\ call[k].pc = "unsetting"
    /\ \A j \in Calls \ {k} : call[j] # Idle => call[j].unset \cap call[k].seen = {}
    /\ Becomes(k, [call[k] EXCEPT !.pc = "inserting", !.seen = {},
                   !.unset = @ \cup (call[k].seen \cap Primaries(call[k].candidate))])
    /\ UNCHANGED <<Data, used, leftover, overlapped, faults>>

\* Open transactions that decide whether the candidate has a primary resume.
Undecided(k) ==
    {j \in Calls \ {k} : call[j] # Idle /\
        \/ \E r \in call[j].resumes : r.candidate = call[k].candidate
        \/ call[j].unset \cap Primaries(call[k].candidate) # {}}

NewResume(c, complete) ==
    [id |-> c.id, candidate |-> c.candidate, file |-> Head(c.todo), primary |-> TRUE,
     complete |-> complete]

\* Mutant: the row is committed before the file is stored.
MutantCommitsEarly(k) ==
    /\ call[k].pc = "inserting"
    /\ Undecided(k) = {} /\ Primaries(call[k].candidate) \subseteq call[k].unset
    /\ LET c == [call[k] EXCEPT !.resumes = @ \cup {NewResume(call[k], FALSE)}]
       IN  Commit(c) /\ Becomes(k, [Clean(c) EXCEPT !.pc = "storing"])
    /\ UNCHANGED <<applied, used, leftover, overlapped, faults>>

\* Mutant: there is no unique index.
MutantNoPrimaryIndex(k) ==
    /\ call[k].pc = "inserting"
    /\ Becomes(k, [call[k] EXCEPT !.pc = "storing",
                                  !.resumes = @ \cup {NewResume(call[k], FALSE)}])
    /\ UNCHANGED <<Data, used, leftover, overlapped, faults>>

\* The INSERT meets the unique index on the primary resume of a candidate.
InsertResume(k) ==
    /\ call[k].pc = "inserting"
    /\ Undecided(k) = {}
    /\ IF Primaries(call[k].candidate) \subseteq call[k].unset
       THEN /\ Becomes(k, [call[k] EXCEPT !.pc = "storing",
                                          !.resumes = @ \cup {NewResume(call[k], FALSE)}])
            /\ UNCHANGED leftover
       ELSE Fails(k, TRUE)
    /\ UNCHANGED <<Data, used, overlapped, faults>>

\* The file is in the store; its row is flushed, which a check constraint refuses for an
\* empty one, and all is committed.
StoreFile(k) ==
    /\ call[k].pc = "storing"
    /\ IF File(k) \in Empty
       THEN Fails(k, TRUE) /\ UNCHANGED <<candidates, resumes>>
       ELSE LET c == [call[k] EXCEPT !.resumes = (@ \ {NewResume(call[k], FALSE)})
                                                 \cup {NewResume(call[k], TRUE)}]
            IN  /\ Commit(c)
                /\ Becomes(k, [Clean(c) EXCEPT !.pc = "publishing"])
                /\ UNCHANGED leftover
    /\ UNCHANGED <<applied, used, overlapped, faults>>

\* The parse message is published: see ResumeParsing.  Either way the resume stays.
Enqueue(k) ==
    /\ call[k].pc = "publishing"
    /\ Becomes(k, Onward(call[k]))
    /\ UNCHANGED <<Data, used, leftover, overlapped, faults>>

-----------------------------------------------------------------------------
\* The store fails, the job has no stage, or the database fails.
Fault(k) ==
    /\ call[k].pc \in {"checking"} \cup Working
    /\ faults < MaxFaults /\ faults' = faults + 1
    /\ \/ call[k].pc \in {"associating", "storing"} /\ Fails(k, FALSE)
       \/ Fails(k, TRUE)
    /\ UNCHANGED <<Data, used, overlapped>>

\* The call ends at any point, and its session with it.
Die(k) ==
    /\ call[k] # Idle
    /\ faults < MaxFaults /\ faults' = faults + 1
    /\ Becomes(k, Idle)
    /\ UNCHANGED <<Data, used, leftover, overlapped>>

\* A single file, or two in a bulk upload.
Requests == {<<f>> : f \in Files} \cup (Files \X Files)

Next ==
    \E k \in Calls :
        \/ \E files \in Requests, job \in BOOLEAN, named \in BOOLEAN :
              Begin(k, files, job, named)
        \/ CheckKnown(k) \/ CheckNew(k) \/ Associate(k)
        \/ StartUnset(k) \/ FinishUnset(k) \/ InsertResume(k) \/ StoreFile(k) \/ Enqueue(k)
        \/ Fault(k) \/ Die(k)

Spec == Init /\ [][Next]_vars

-----------------------------------------------------------------------------
CallState ==
    [pc : {"checking", "publishing"} \cup Working,
     todo : Seq(Files), bulk : BOOLEAN, job : BOOLEAN, named : BOOLEAN,
     candidate : {Known} \cup Numbers, id : {0} \cup Numbers, seen : SUBSET Numbers, candidates : SUBSET Numbers,
     resumes : SUBSET Resume, unset : SUBSET Numbers, broken : BOOLEAN]

\* Every variable stays in its type, and rows refer to rows.
TypeOK ==
    /\ candidates \subseteq {Known} \cup Numbers
    /\ applied \subseteq candidates
    /\ resumes \subseteq Resume
    /\ \A r \in resumes : r.candidate \in candidates
    /\ call \in [Calls -> {Idle} \cup CallState]
    /\ used \in 0..MaxUploads
    /\ leftover \subseteq Numbers /\ overlapped \subseteq Files
    /\ faults \in 0..MaxFaults

\* A file is stored once in a tenant, however often it is uploaded and whatever fails in
\* between, unless two calls have looked for it before either had committed it.
OneResumePerFile ==
    \A f \in Files \ overlapped :
        Cardinality({r \in resumes : r.complete /\ r.file = f}) <= 1

\* A candidate with resumes has exactly one primary resume, whoever uploads meanwhile.
PrimaryKept ==
    \A c \in candidates :
        (\E r \in resumes : r.candidate = c) => Cardinality(Primaries(c)) = 1

\* What failed calls leave behind: no resume without its file, and a placeholder
\* without a resume only for a job, where add_candidate_to_job has committed it; but for
\* the leftovers that a bulk upload commits with a later file.
NothingHalfDone ==
    /\ \A r \in resumes : r.complete \/ r.id \in leftover
    /\ \A c \in candidates \ ({Known} \cup applied \cup leftover) :
          \E r \in resumes : r.candidate = c

-----------------------------------------------------------------------------
(* The parts of the inductive invariant of ResumeUpload_proofs that no      *)
(* property states.                                                        *)

\* The resumes that a call has flushed, and the numbers of those and of the resume that
\* it is about to flush.
Session(k) == IF call[k] = Idle THEN {} ELSE call[k].resumes

Held(k) ==
    {r.id : r \in Session(k)} \cup (IF call[k].pc \in Working THEN {call[k].id} ELSE {})

Stored == {r.id : r \in resumes}

\* What a session holds: the candidate and the resume of the file at hand, and for a bulk
\* upload those of earlier files that have failed.
SessionKept(c) ==
    /\ c.todo # <<>> /\ (c.bulk => ~c.named)
    /\ c.pc \in Working => /\ c.id \in Numbers
                           /\ c.candidate = (IF c.named THEN Known ELSE c.id)
                           /\ c.candidate \in candidates \cup c.candidates
    /\ \A x \in c.candidates : x \in leftover \/ (c.pc \in Working /\ x = c.candidate)
    /\ c.pc = "storing" => NewResume(c, FALSE) \in c.resumes
    /\ \A r \in c.resumes :
          /\ r.candidate \in candidates \cup c.candidates
          /\ \/ c.pc = "storing" /\ r = NewResume(c, FALSE)
             \/ /\ c.bulk /\ r.id \in leftover /\ r.candidate = r.id
                /\ r.primary /\ ~r.complete
                /\ c.pc \in Working => r.id # c.id
    /\ \A r, s \in c.resumes : r.id = s.id => r = s

SessionsKept == \A k \in Calls : call[k] # Idle => SessionKept(call[k])

\* A number is given to one resume.
NumbersGivenOnce ==
    /\ \A r, s \in resumes : r.id = s.id => r = s
    /\ Stored \subseteq 1..used
    /\ \A k \in Calls : Held(k) \subseteq (1..used) \ Stored
    /\ \A j, k \in Calls : j # k => Held(j) \cap Held(k) = {}

\* A session that holds a resume of a candidate has unset its primary resumes, and one
\* that has unset some holds a resume of that candidate, or is about to insert it.
Covered(c) ==
    /\ c.unset \subseteq Stored
    /\ \A r \in c.resumes : Primaries(r.candidate) \subseteq c.unset
    /\ \A r \in resumes : r.id \in c.unset =>
          \/ c.pc = "inserting" /\ r.candidate = c.candidate
          \/ \E s \in c.resumes : s.candidate = r.candidate

PrimaryDecided ==
    /\ \A k \in Calls : call[k] # Idle => Covered(call[k])
    /\ \A j, k \in Calls : \A r \in Session(j), s \in Session(k) :
          r.candidate = s.candidate => j = k /\ r = s
    /\ \A r \in resumes : Primaries(r.candidate) # {}
    /\ \A r, s \in resumes : r.primary /\ s.primary /\ r.candidate = s.candidate => r = s

\* While a call works on a file, nobody else does, and no resume has it.
FileDecided ==
    \A f \in Files \ overlapped :
        /\ \A j, k \in Missing(f) : j = k
        /\ \A k \in Missing(f), r \in resumes : ~(r.complete /\ r.file = f)
        /\ \A r, s \in resumes : r.complete /\ s.complete /\ r.file = f /\ s.file = f => r = s

\* The inductive invariant of ResumeUpload_proofs.
IInv ==
    /\ TypeOK /\ Known \in candidates
    /\ SessionsKept /\ NumbersGivenOnce /\ PrimaryDecided /\ FileDecided /\ NothingHalfDone
=============================================================================
