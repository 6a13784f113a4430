---------------------------- MODULE Hiring_proofs ----------------------------
(***************************************************************************)
(* Proofs about Hiring for any number of calls, stages and candidates.  The *)
(* argument: a commit marks every call that has read what it writes, so     *)
(* that a call without a mark still knows the job, the stages or the        *)
(* application it decides on, and is younger than all that is recorded of   *)
(* them; a commit of such a call does what its reader was promised.  What   *)
(* refers to a stage is kept by the constraints of the tables alone.        *)
(***************************************************************************)
EXTENDS Hiring, FiniteSetTheorems, SequenceTheorems, WellFoundedInduction, TLAPS

-----------------------------------------------------------------------------
(* What a call looks like.                                                 *)

LEMMA HandlerShape ==
  ASSUME TypeOK, NEW h \in Handlers
  PROVE  /\ handler[h] \in HandlerState
         /\ handler[h].pc = "idle" => handler[h] = Idle
         /\ handler[h].pc \in JobCall => handler[h] \in JobCallState
         /\ handler[h].pc \in StageCall => handler[h] \in StageCallState
         /\ handler[h].pc \in CandidateCall => handler[h] \in CandidateCallState
         /\ handler[h].pc # "idle" =>
              /\ handler[h].pc \in JobCall \cup StageCall \cup CandidateCall
              /\ handler[h].overtaken \in BOOLEAN /\ handler[h].began \in 1..MaxCalls
  <1>1. handler[h] \in HandlerState
    BY DEF TypeOK
  <1>2. \/ handler[h] = Idle \/ handler[h] \in JobCallState
        \/ handler[h] \in StageCallState \/ handler[h] \in CandidateCallState
    BY <1>1 DEF HandlerState
  <1>3. Idle.pc = "idle"
    BY DEF Idle
  <1>4. \A c \in JobCallState : c.pc \in JobCall /\ c.overtaken \in BOOLEAN /\ c.began \in 1..MaxCalls
    BY DEF JobCallState
  <1>5. \A c \in StageCallState :
          c.pc \in StageCall /\ c.overtaken \in BOOLEAN /\ c.began \in 1..MaxCalls
    BY DEF StageCallState
  <1>6. \A c \in CandidateCallState :
          c.pc \in CandidateCall /\ c.overtaken \in BOOLEAN /\ c.began \in 1..MaxCalls
    BY DEF CandidateCallState
  <1>7. "idle" \notin JobCall \cup StageCall \cup CandidateCall
    BY DEF JobCall, StageCall, CandidateCall
  <1>8. /\ JobCall \cap StageCall = {} /\ JobCall \cap CandidateCall = {}
        /\ StageCall \cap CandidateCall = {}
    BY DEF JobCall, StageCall, CandidateCall
  <1> QED
    BY <1>1, <1>2, <1>3, <1>4, <1>5, <1>6, <1>7, <1>8

LEMMA IdleType == Idle \in HandlerState /\ Idle.pc = "idle"
  BY DEF HandlerState, Idle

\* What a call decides on.
LEMMA OnIs ==
  ASSUME NEW h \in Handlers
  PROVE  /\ handler[h].pc \in JobCall => On(h) = {"job"}
         /\ handler[h].pc \in StageCall => On(h) = {"stages"}
         /\ handler[h].pc \in CandidateCall => On(h) = {handler[h].candidate}
         /\ handler[h].pc = "idle" => On(h) = {}
  BY DEF On, JobCall, StageCall, CandidateCall

\* Being marked changes nothing else of a call.
LEMMA MarkIs ==
  ASSUME TypeOK, NEW h \in Handlers, handler[h].pc # "idle"
  PROVE  LET c == handler[h]
             new == [c EXCEPT !.overtaken = TRUE]
         IN  /\ new \in HandlerState
             /\ new.pc = c.pc /\ new.began = c.began /\ new.overtaken
             /\ c.pc \in JobCall => new.read = c.read
             /\ c.pc \in StageCall => new.read = c.read /\ new.orders = c.orders
             /\ c.pc \in CandidateCall =>
                  new.candidate = c.candidate /\ new.to = c.to /\ new.read = c.read
  <1> DEFINE c == handler[h]
             new == [c EXCEPT !.overtaken = TRUE]
  <1>1. CASE c.pc \in JobCall
    <2>1. c \in JobCallState
      BY <1>1, HandlerShape
    <2>2. /\ new \in JobCallState
          /\ new.pc = c.pc /\ new.began = c.began /\ new.overtaken /\ new.read = c.read
      BY <2>1 DEF JobCallState
    <2> QED
      BY <1>1, <2>2 DEF HandlerState, JobCall, StageCall, CandidateCall
  <1>2. CASE c.pc \in StageCall
    <2>1. c \in StageCallState
      BY <1>2, HandlerShape
    <2>2. /\ new \in StageCallState
          /\ new.pc = c.pc /\ new.began = c.began /\ new.overtaken /\ new.read = c.read
          /\ new.orders = c.orders
      BY <2>1 DEF StageCallState
    <2> QED
      BY <1>2, <2>2 DEF HandlerState, JobCall, StageCall, CandidateCall
  <1>3. CASE c.pc \in CandidateCall
    <2>1. c \in CandidateCallState
      BY <1>3, HandlerShape
    <2>2. /\ new \in CandidateCallState
          /\ new.pc = c.pc /\ new.began = c.began /\ new.overtaken /\ new.read = c.read
          /\ new.candidate = c.candidate /\ new.to = c.to
      BY <2>1 DEF CandidateCallState
    <2> QED
      BY <1>3, <2>2 DEF HandlerState, JobCall, StageCall, CandidateCall
  <1> QED
    BY <1>1, <1>2, <1>3, HandlerShape

\* A call that is still in flight after a commit, and one that is marked by it.
LEMMA EndsIs ==
  ASSUME TypeOK, NEW h \in Handlers, NEW X, Ends(h, X), NEW g \in Handlers
  PROVE  /\ g = h => handler'[g] = Idle
         /\ g # h /\ On(g) \cap X # {} => handler'[g] = [handler[g] EXCEPT !.overtaken = TRUE]
         /\ g # h /\ On(g) \cap X = {} => handler'[g] = handler[g]
  BY DEF Ends

LEMMA EndsType ==
  ASSUME TypeOK, NEW h \in Handlers, NEW X, Ends(h, X)
  PROVE  handler' \in [Handlers -> HandlerState]
  <1>1. ASSUME NEW g \in Handlers PROVE handler'[g] \in HandlerState
    <2>1. CASE g = h
      BY <2>1, EndsIs, IdleType
    <2>2. CASE g # h /\ On(g) \cap X # {}
      <3>1. handler[g].pc # "idle"
        BY <2>2, OnIs
      <3>2. [handler[g] EXCEPT !.overtaken = TRUE] \in HandlerState
        BY <3>1, MarkIs
      <3> QED
        BY <2>2, <3>2, EndsIs
    <2>3. CASE g # h /\ On(g) \cap X = {}
      <3>1. handler[g] \in HandlerState
        BY DEF TypeOK
      <3> QED
        BY <2>3, <3>1, EndsIs
    <2> QED
      BY <2>1, <2>2, <2>3
  <1>2. handler' = [g \in Handlers |-> handler'[g]]
    BY DEF Ends
  <1> QED
    BY <1>1, <1>2

-----------------------------------------------------------------------------
(* What a call knows.                                                      *)

Readers(h) == JobReader(h) /\ StageReader(h) /\ CandidateReader(h)

\* A step writes nothing but X.
Writes(X) ==
    /\ job' = job \/ "job" \in X
    /\ position' = position \/ "stages" \in X
    /\ \A c \in Candidates :
          /\ Applied(c) => Applied(c)'
          /\ c \notin X =>
                /\ application'[c].stage = application[c].stage
                /\ Len(history'[c]) = Len(history[c])
                /\ \A i \in 1..Len(history[c]) : history'[c][i].began = history[c][i].began

LEMMA ReaderKept ==
  ASSUME TypeOK, NEW g \in Handlers, Readers(g), NEW X, Writes(X),
         \/ handler'[g] = Idle
         \/ handler'[g] = handler[g] /\ On(g) \cap X = {}
         \/ handler'[g] = [handler[g] EXCEPT !.overtaken = TRUE] /\ handler[g].pc # "idle"
  PROVE  /\ Readers(g)'
         /\ handler'[g].pc # "idle" =>
              handler[g].pc # "idle" /\ handler'[g].began = handler[g].began
  <1>1. CASE handler'[g] = Idle
    BY <1>1, IdleType DEF Readers, JobReader, StageReader, CandidateReader, JobCall, StageCall,
                          CandidateCall
  <1>2. CASE handler'[g] = handler[g] /\ On(g) \cap X = {}
    <2>1. JobReader(g)'
      BY <1>2, OnIs DEF Readers, JobReader, Writes
    <2>2. StageReader(g)'
      BY <1>2, OnIs DEF Readers, StageReader, Writes
    <2>3. CandidateReader(g)'
      <3> SUFFICES ASSUME handler[g].pc \in CandidateCall PROVE CandidateReader(g)'
        BY <1>2 DEF CandidateReader
      <3>1. handler[g].candidate \in Candidates /\ handler[g].candidate \notin X
        BY <1>2, OnIs, HandlerShape DEF CandidateCallState
      <3> QED
        BY <1>2, <3>1 DEF Readers, CandidateReader, Writes
    <2> QED
      BY <1>2, <2>1, <2>2, <2>3 DEF Readers
  <1>3. CASE handler'[g] = [handler[g] EXCEPT !.overtaken = TRUE] /\ handler[g].pc # "idle"
    <2> DEFINE c == handler[g]
               new == handler'[g]
    <2>1. /\ new.pc = c.pc /\ new.began = c.began /\ new.overtaken
          /\ c.pc \in JobCall => new.read = c.read
          /\ c.pc \in StageCall => new.read = c.read /\ new.orders = c.orders
          /\ c.pc \in CandidateCall =>
               new.candidate = c.candidate /\ new.to = c.to /\ new.read = c.read
      BY <1>3, MarkIs
    <2>2. c.pc \in CandidateCall => c.candidate \in Candidates
      BY HandlerShape DEF CandidateCallState
    <2> HIDE DEF new
    <2>3. JobReader(g)'
      BY <2>1 DEF Readers, JobReader, new
    <2>4. StageReader(g)'
      <3> SUFFICES ASSUME c.pc \in StageCall PROVE StageReader(g)'
        BY <2>1 DEF StageReader, new
      <3>1. StageReader(g)
        BY DEF Readers
      <3>2. new.pc = c.pc /\ new.overtaken /\ new.read = c.read /\ new.orders = c.orders
        BY <2>1
      <3>3. {s \in Stages : new.read[s] # 0} = {s \in Stages : c.read[s] # 0}
        BY <3>2
      <3> QED
        BY <3>1, <3>2, <3>3 DEF StageReader, new
    <2>5. CandidateReader(g)'
      BY <2>1, <2>2 DEF Readers, CandidateReader, Writes, new
    <2> QED
      BY <1>3, <2>1, <2>3, <2>4, <2>5 DEF Readers, new
  <1> QED
    BY <1>1, <1>2, <1>3

Reading == \A g \in Handlers : Readers(g)

\* A commit, a failure and the beginning of a call.
LEMMA EndsKeeps ==
  ASSUME TypeOK, Reading, NEW h \in Handlers, NEW X, Ends(h, X), Writes(X)
  PROVE  /\ Reading'
         /\ \A g \in Handlers : handler'[g].pc # "idle" =>
              handler[g].pc # "idle" /\ handler'[g].began = handler[g].began
  <1> SUFFICES ASSUME NEW g \in Handlers
               PROVE  /\ Readers(g)'
                      /\ handler'[g].pc # "idle" =>
                           handler[g].pc # "idle" /\ handler'[g].began = handler[g].began
    BY DEF Reading
  <1>1. \/ handler'[g] = Idle
        \/ handler'[g] = handler[g] /\ On(g) \cap X = {}
        \/ handler'[g] = [handler[g] EXCEPT !.overtaken = TRUE] /\ On(g) \cap X # {}
    BY EndsIs
  <1>2. On(g) \cap X # {} => handler[g].pc # "idle"
    BY OnIs
  <1>3. Readers(g)
    BY DEF Reading
  <1> QED
    BY <1>1, <1>2, <1>3, ReaderKept

LEMMA WritesNothing ==
  ASSUME UNCHANGED <<job, position, application, history>>
  PROVE  Writes({})
  BY DEF Writes, Applied

LEMMA FailsKeeps ==
  ASSUME TypeOK, Reading, NEW h \in Handlers, Fails(h)
  PROVE  /\ Reading' /\ handler' \in [Handlers -> HandlerState]
         /\ \A g \in Handlers : handler'[g].pc # "idle" =>
              handler[g].pc # "idle" /\ handler'[g].began = handler[g].began
  <1>1. \A g \in Handlers : handler'[g] = IF g = h THEN Idle ELSE handler[g]
    BY DEF Fails, TypeOK
  <1>2. Writes({})
    BY WritesNothing DEF Fails
  <1>3. ASSUME NEW g \in Handlers
        PROVE  /\ Readers(g)'
               /\ handler'[g].pc # "idle" =>
                    handler[g].pc # "idle" /\ handler'[g].began = handler[g].began
    <2>1. handler'[g] = Idle \/ (handler'[g] = handler[g] /\ On(g) \cap {} = {})
      BY <1>1
    <2>2. Readers(g)
      BY DEF Reading
    <2> QED
      BY <1>2, <2>1, <2>2, ReaderKept
  <1>4. handler' \in [Handlers -> HandlerState]
    BY IdleType DEF Fails, TypeOK
  <1> QED
    BY <1>3, <1>4 DEF Reading

\* The beginning of a call whose reader is right.
LEMMA BeginsKeeps ==
  ASSUME TypeOK, Reading, NEW h \in Handlers, NEW s \in HandlerState, Begins(h, s),
         s.pc # "idle", Readers(h)'
  PROVE  /\ Reading' /\ handler' \in [Handlers -> HandlerState]
         /\ handler'[h] = s
         /\ \A g \in Handlers \ {h} : handler'[g] = handler[g]
  <1>1. \A g \in Handlers : handler'[g] = IF g = h THEN s ELSE handler[g]
    BY DEF Begins, TypeOK
  <1>2. Writes({})
    BY WritesNothing DEF Begins
  <1>3. ASSUME NEW g \in Handlers PROVE Readers(g)'
    <2>1. CASE g # h
      <3>1. handler'[g] = handler[g] /\ On(g) \cap {} = {}
        BY <1>1, <2>1
      <3>2. Readers(g)
        BY DEF Reading
      <3> QED
        BY <1>2, <3>1, <3>2, ReaderKept
    <2> QED
      BY <2>1
  <1>4. handler' \in [Handlers -> HandlerState]
    BY DEF Begins, TypeOK
  <1> QED
    BY <1>1, <1>3, <1>4 DEF Reading

-----------------------------------------------------------------------------
(* Steps that write no row.                                                *)

LEMMA IInvReading == IInv => TypeOK /\ Reading
  BY DEF IInv, Reading, Readers

LEMMA QuietInv ==
  ASSUME IInv, UNCHANGED <<job, position, application, history, raced>>,
         Reading', handler' \in [Handlers -> HandlerState],
         calls' \in 0..MaxCalls, calls <= calls',
         \A g \in Handlers : handler'[g].pc # "idle" => handler'[g].began <= calls'
  PROVE  IInv'
  <1>1. TypeOK'
    BY DEF IInv, TypeOK
  <1>2. ReferencesHold' /\ HistoryOfApplied'
    BY DEF IInv, ReferencesHold, HistoryOfApplied, Applied, Present, Unique
  <1>3. TwoStagesRemain'
    BY DEF IInv, TwoStagesRemain, Exists, Present
  <1>4. HistoryTells'
    BY DEF IInv, HistoryTells, Tells
  <1>5. NobodyAhead'
    <2>1. ASSUME NEW c \in Candidates, NEW i \in 1..Len(history[c])
          PROVE  history[c][i].began <= calls'
      <3>1. history[c][i].began <= calls
        BY DEF IInv, NobodyAhead
      <3>2. history[c][i] \in Entry
        BY ElementOfSeq DEF IInv, TypeOK
      <3>3. history[c][i].began \in 1..MaxCalls
        BY <3>2 DEF Entry
      <3>4. calls \in Int /\ calls' \in Int /\ history[c][i].began \in Int
        BY <3>3, HiringConstantsOK DEF IInv, TypeOK
      <3> QED
        BY <3>1, <3>4
    <2> QED
      BY <2>1 DEF NobodyAhead
  <1> QED
    BY <1>1, <1>2, <1>3, <1>4, <1>5 DEF IInv, Reading, Readers

LEMMA FailsInv ==
  ASSUME IInv, NEW h \in Handlers, Fails(h), UNCHANGED calls
  PROVE  IInv'
  <1>1. /\ Reading' /\ handler' \in [Handlers -> HandlerState]
        /\ \A g \in Handlers : handler'[g].pc # "idle" =>
             handler[g].pc # "idle" /\ handler'[g].began = handler[g].began
    BY IInvReading, FailsKeeps
  <1>2. calls \in 0..MaxCalls /\ calls <= calls
    BY HiringConstantsOK DEF IInv, TypeOK
  <1> QED
    BY <1>1, <1>2, QuietInv DEF Fails, IInv, NobodyAhead

LEMMA BeginsInv ==
  ASSUME IInv, NEW h \in Handlers, NEW s \in HandlerState, Begins(h, s),
         s.pc # "idle", s.began = calls + 1, Readers(h)'
  PROVE  IInv'
  <1>1. /\ Reading' /\ handler' \in [Handlers -> HandlerState]
        /\ handler'[h] = s
        /\ \A g \in Handlers \ {h} : handler'[g] = handler[g]
    BY IInvReading, BeginsKeeps
  <1>2. calls' = calls + 1 /\ calls' \in 0..MaxCalls /\ calls <= calls'
    BY HiringConstantsOK DEF IInv, TypeOK, Begins
  <1>3. ASSUME NEW g \in Handlers, handler'[g].pc # "idle"
        PROVE  handler'[g].began <= calls'
    <2>1. CASE g = h
      BY <1>1, <1>2, <2>1
    <2>2. CASE g # h
      <3>1. handler[g].began <= calls /\ handler'[g].began = handler[g].began
        BY <1>1, <1>3, <2>2 DEF IInv, NobodyAhead
      <3>2. handler[g].began \in 1..MaxCalls /\ calls \in Nat
        BY <1>1, <1>3, <2>2, HandlerShape DEF IInv, TypeOK
      <3> QED
        BY <1>2, <3>1, <3>2, HiringConstantsOK
    <2> QED
      BY <2>1, <2>2
  <1> QED
    BY <1>1, <1>2, <1>3, QuietInv DEF Begins

LEMMA ReadJobInv ==
  ASSUME IInv, NEW h \in Handlers, NEW pc \in JobCall, ReadJob(h, pc),
         pc = "opening" => job.status \in {"draft", "paused"},
         pc = "pausing" => job.status = "open"
  PROVE  IInv'
  <1> DEFINE s == [pc |-> pc, began |-> calls + 1, overtaken |-> FALSE, read |-> job]
  <1>1. job \in Job /\ calls + 1 \in 1..MaxCalls
    BY HiringConstantsOK DEF IInv, TypeOK, ReadJob, Begins
  <1>2. s \in JobCallState
    BY <1>1 DEF JobCallState
  <1>3. Begins(h, s) /\ handler'[h] = s /\ UNCHANGED job
    BY DEF ReadJob, Begins, IInv, TypeOK
  <1>4. pc \notin StageCall /\ pc \notin CandidateCall /\ pc # "idle"
    BY DEF JobCall, StageCall, CandidateCall
  <1>5. Readers(h)'
    BY <1>3, <1>4 DEF Readers, JobReader, StageReader, CandidateReader
  <1> QED
    BY <1>2, <1>3, <1>4, <1>5, BeginsInv DEF HandlerState

LEMMA ReadStagesInv ==
  ASSUME IInv, NEW h \in Handlers, NEW pc \in StageCall,
         NEW orders \in Seq(Stages \X (0..MaxStages)), ReadStages(h, pc, orders),
         pc = "removing" => Len(orders) = 1 /\ Cardinality(Present) > 2,
         pc # "removing" => \A i \in 1..Len(orders) : orders[i][2] # 0
  PROVE  IInv'
  <1> DEFINE s == [pc |-> pc, began |-> calls + 1, overtaken |-> FALSE, read |-> position,
                   orders |-> orders]
  <1>1. position \in Positions /\ calls + 1 \in 1..MaxCalls
    BY HiringConstantsOK DEF IInv, TypeOK, ReadStages, Begins
  <1>2. s \in StageCallState
    BY <1>1 DEF StageCallState
  <1>3. Begins(h, s) /\ handler'[h] = s /\ UNCHANGED position
    BY DEF ReadStages, Begins, IInv, TypeOK
  <1>4. pc \notin JobCall /\ pc \notin CandidateCall /\ pc # "idle"
    BY DEF JobCall, StageCall, CandidateCall
  <1>5. Readers(h)'
    BY <1>3, <1>4 DEF Readers, JobReader, StageReader, CandidateReader, Present
  <1> QED
    BY <1>2, <1>3, <1>4, <1>5, BeginsInv DEF HandlerState

LEMMA ReadApplicationInv ==
  ASSUME IInv, NEW h \in Handlers, NEW pc \in CandidateCall, NEW c \in Candidates,
         NEW to \in Stages, ReadApplication(h, pc, c, to), pc # "adding" => Applied(c)
  PROVE  IInv'
  <1> DEFINE s == [pc |-> pc, began |-> calls + 1, overtaken |-> FALSE, candidate |-> c,
                   read |-> application[c], to |-> to]
  <1>1. application[c] \in Application /\ calls + 1 \in 1..MaxCalls
    BY HiringConstantsOK DEF IInv, TypeOK, ReadApplication, Begins
  <1>2. s \in CandidateCallState
    BY <1>1 DEF CandidateCallState
  <1>3. Begins(h, s) /\ handler'[h] = s /\ UNCHANGED <<application, history>>
    BY DEF ReadApplication, Begins, IInv, TypeOK
  <1>4. pc \notin JobCall /\ pc \notin StageCall /\ pc # "idle"
    BY DEF JobCall, StageCall, CandidateCall
  <1>5. ASSUME NEW i \in 1..Len(history[c]) PROVE history[c][i].began < calls + 1
    <2>1. history[c][i].began <= calls
      BY DEF IInv, NobodyAhead
    <2>2. history[c][i] \in Entry
      BY ElementOfSeq DEF IInv, TypeOK
    <2>3. history[c][i].began \in 1..MaxCalls /\ calls \in 0..MaxCalls
      BY <2>2 DEF Entry, IInv, TypeOK
    <2> QED
      BY <2>1, <2>3, HiringConstantsOK
  <1>6. Readers(h)'
    BY <1>3, <1>4, <1>5 DEF Readers, JobReader, StageReader, CandidateReader, Applied
  <1> QED
    BY <1>2, <1>3, <1>4, <1>6, BeginsInv DEF HandlerState

-----------------------------------------------------------------------------
(* The last of some orders.                                                *)

LEMMA LessThan ==
  ASSUME NEW x \in Nat, NEW y \in Nat, y < x
  PROVE  <<y, x>> \in OpToRel(<, Nat)
  <1> DEFINE p == <<y, x>>
  <1>1. p \in Nat \X Nat /\ p[1] < p[2]
    OBVIOUS
  <1> HIDE DEF p
  <1>2. p \in OpToRel(<, Nat)
    BY <1>1, Zenon DEF OpToRel
  <1> QED
    BY <1>2, Zenon DEF p

LEMMA Least ==
  ASSUME NEW T, T \subseteq Nat, T # {}
  PROVE  \E x \in T : \A y \in T : x <= y
  <1>1. \E x \in T : \A y \in T : ~(<<y, x>> \in OpToRel(<, Nat))
    BY WFMin, NatLessThanWellFounded
  <1>2. \E x \in T : \A y \in T : ~(y < x)
    BY <1>1, LessThan, Zenon
  <1> QED
    BY <1>2

LEMMA Greatest ==
  ASSUME NEW n \in Nat, NEW T, T \subseteq 1..n, T # {}
  PROVE  \E x \in T : \A y \in T : y <= x
  <1> DEFINE U == {n - i : i \in T}
  <1>1. U \subseteq Nat /\ U # {}
    <2>1. \A i \in T : n - i \in Nat
      OBVIOUS
    <2> QED
      BY <2>1
  <1>2. PICK u \in U : \A v \in U : u <= v
    BY <1>1, Least
  <1>3. PICK x \in T : u = n - x
    OBVIOUS
  <1>4. ASSUME NEW y \in T PROVE y <= x
    <2>1. n - x <= n - y
      BY <1>2, <1>3
    <2> QED
      BY <2>1
  <1> QED
    BY <1>4

\* Positions are kept or taken from the orders.
LEMMA ArrangedIs ==
  ASSUME TypeOK, NEW c \in StageCallState, NEW n \in 0..Len(c.orders),
         \A i \in 1..Len(c.orders) : c.orders[i][2] # 0
  PROVE  /\ Arranged(c, n) \in Positions
         /\ \A s \in Stages : position[s] # 0 => Arranged(c, n)[s] # 0
  <1>1. \A i \in 1..Len(c.orders) : c.orders[i] \in Stages \X (0..MaxStages)
    BY ElementOfSeq DEF StageCallState
  <1>2. Len(c.orders) \in Nat
    BY LenProperties DEF StageCallState
  <1>3. position \in Positions
    BY DEF TypeOK
  <1>4. ASSUME NEW s \in Stages
        PROVE  /\ Arranged(c, n)[s] \in 0..MaxStages
               /\ position[s] # 0 => Arranged(c, n)[s] # 0
    <2> DEFINE mine == {i \in 1..n : c.orders[i][1] = s /\ c.orders[i][2] # c.read[s]}
               last == CHOOSE i \in mine : \A j \in mine : j <= i
    <2>1. CASE mine = {} \/ (c.pc = "arranging" /\ c.read[s] = 0)
      <3>1. Arranged(c, n)[s] = position[s]
        BY <2>1 DEF Arranged
      <3> QED
        BY <1>3, <3>1 DEF Positions
    <2>2. CASE mine # {} /\ ~(c.pc = "arranging" /\ c.read[s] = 0)
      <3>1. Arranged(c, n)[s] = c.orders[last][2]
        BY <2>2 DEF Arranged
      <3>2. \E x \in mine : \A y \in mine : y <= x
        <4>1. n \in Nat /\ mine \subseteq 1..n
          BY <1>2
        <4> HIDE DEF mine
        <4> QED
          BY <2>2, <4>1, Greatest
      <3>3. last \in mine
        BY <3>2
      <3>4. last \in 1..Len(c.orders)
        <4>1. mine \subseteq 1..n
          OBVIOUS
        <4> HIDE DEF mine, last
        <4>2. last \in 1..n
          BY <3>3, <4>1
        <4> QED
          BY <1>2, <4>2
      <3> HIDE DEF last, mine
      <3> QED
        BY <1>1, <3>1, <3>4
    <2> QED
      BY <2>1, <2>2
  <1>5. Arranged(c, n) = [s \in Stages |-> Arranged(c, n)[s]]
    BY DEF Arranged
  <1> HIDE DEF Arranged
  <1> QED
    BY <1>4, <1>5 DEF Positions

-----------------------------------------------------------------------------
(* Commits.                                                                *)

Data == Candidates \cup {"job", "stages"}

LEMMA EndsParts ==
  ASSUME IInv, NEW h \in Handlers, NEW X, X \subseteq Data, Ends(h, X), Writes(X),
         UNCHANGED calls
  PROVE  /\ Reading' /\ handler' \in [Handlers -> HandlerState]
         /\ raced' \subseteq Data /\ raced \subseteq raced'
         /\ handler[h].overtaken => X \subseteq raced'
         /\ calls' \in 0..MaxCalls
         /\ \A g \in Handlers : handler'[g].pc # "idle" => handler'[g].began <= calls'
  <1>1. /\ Reading'
        /\ \A g \in Handlers : handler'[g].pc # "idle" =>
             handler[g].pc # "idle" /\ handler'[g].began = handler[g].began
    BY IInvReading, EndsKeeps
  <1>2. handler' \in [Handlers -> HandlerState]
    BY IInvReading, EndsType
  <1>3. /\ raced' \subseteq Data /\ raced \subseteq raced'
        /\ handler[h].overtaken => X \subseteq raced'
    BY DEF Ends, IInv, TypeOK, Data
  <1> QED
    BY <1>1, <1>2, <1>3 DEF IInv, TypeOK, NobodyAhead

LEMMA MergedType ==
  ASSUME TypeOK, NEW c \in JobCallState, c.pc # "deleting"
  PROVE  Merged(c.read, Edited(c)) \in Job
  <1>1. c.read \in Job /\ c.began \in 1..MaxCalls /\ job \in Job
    BY DEF JobCallState, TypeOK
  <1>2. Edited(c).status \in Statuses /\ Edited(c).archived \in BOOLEAN
    BY <1>1 DEF Edited, Wanted, Statuses, Job
  <1>3. Edited(c).opened \in 0..MaxCalls
    <2>1. c.began \in 0..MaxCalls /\ c.read.opened \in 0..MaxCalls
      BY <1>1, HiringConstantsOK DEF Job
    <2> QED
      BY <2>1 DEF Edited
  <1> HIDE DEF Edited
  <1> DEFINE new == Edited(c)
  <1>4. Merged(c.read, new).status \in Statuses \cup {"deleted"}
    BY <1>1, <1>2 DEF Merged, Job
  <1>5. Merged(c.read, new).archived \in BOOLEAN
    BY <1>1, <1>2 DEF Merged, Job
  <1>6. Merged(c.read, new).opened \in 0..MaxCalls
    BY <1>1, <1>3 DEF Merged, Job
  <1>7. Merged(c.read, new) =
          [status |-> Merged(c.read, new).status, archived |-> Merged(c.read, new).archived,
           opened |-> Merged(c.read, new).opened]
    BY DEF Merged
  <1> HIDE DEF Merged, new
  <1> QED
    BY <1>4, <1>5, <1>6, <1>7 DEF Job, new

LEMMA CommitJobInv ==
  ASSUME IInv, NEW h \in Handlers, CommitJob(h)
  PROVE  IInv'
  <1>1. CASE ~Exists
    BY <1>1, FailsInv DEF CommitJob
  <1>2. CASE Exists
    <2> DEFINE c == handler[h]
               new == Merged(c.read, Edited(c))
               X == IF new = job THEN {} ELSE {"job"}
    <2>1. /\ job' = new /\ Ends(h, X) /\ c.pc \in JobCall \ {"deleting"}
          /\ UNCHANGED <<position, application, history, calls>>
      BY <1>2 DEF CommitJob
    <2>2. new \in Job
      BY <2>1, HandlerShape, MergedType DEF IInv
    <2> HIDE DEF new
    <2>3. Writes(X)
      BY <2>1 DEF Writes, Applied
    <2>4. X \subseteq Data
      BY DEF Data
    <2> HIDE DEF X
    <2>5. /\ Reading' /\ handler' \in [Handlers -> HandlerState]
          /\ raced' \subseteq Data /\ raced \subseteq raced'
          /\ calls' \in 0..MaxCalls
          /\ \A g \in Handlers : handler'[g].pc # "idle" => handler'[g].began <= calls'
      BY <2>1, <2>3, <2>4, EndsParts
    <2>6. TypeOK'
      BY <2>1, <2>2, <2>5 DEF IInv, TypeOK, Data
    <2>7. ReferencesHold' /\ HistoryOfApplied'
      BY <2>1 DEF IInv, ReferencesHold, HistoryOfApplied, Applied, Present, Unique
    <2>8. TwoStagesRemain'
      BY <1>2, <2>1, <2>5 DEF IInv, TwoStagesRemain, Exists, Present
    <2>9. HistoryTells'
      BY <2>1, <2>5 DEF IInv, HistoryTells, Tells
    <2>10. NobodyAhead'
      BY <2>1, <2>5 DEF IInv, NobodyAhead
    <2> QED
      BY <2>5, <2>6, <2>7, <2>8, <2>9, <2>10 DEF IInv, Reading, Readers
  <1> QED
    BY <1>1, <1>2

LEMMA DeleteJobInv ==
  ASSUME IInv, NEW h \in Handlers, DeleteJob(h)
  PROVE  IInv'
  <1>1. CASE \E c \in Candidates : Applied(c)
    BY <1>1, FailsInv DEF DeleteJob
  <1>2. CASE ~\E c \in Candidates : Applied(c)
    <2> DEFINE X == {"job", "stages"}
    <2>1. /\ job' = [job EXCEPT !.status = "deleted"] /\ position' = [s \in Stages |-> 0]
          /\ Ends(h, X) /\ UNCHANGED <<application, history, calls>>
      BY <1>2 DEF DeleteJob
    <2>2. \A c \in Candidates : application[c].stage = None /\ Len(history[c]) = 0
      <3> SUFFICES ASSUME NEW c \in Candidates
                   PROVE  application[c].stage = None /\ Len(history[c]) = 0
        OBVIOUS
      <3>1. application[c].stage = None /\ ~(Len(history[c]) > 0)
        BY <1>2 DEF Applied, IInv, HistoryOfApplied
      <3>2. history[c] \in Seq(Entry)
        BY DEF IInv, TypeOK
      <3>3. Len(history[c]) \in Nat
        BY <3>2, LenProperties
      <3> QED
        BY <3>1, <3>3
    <2>3. Writes(X) /\ X \subseteq Data
      BY <2>1 DEF Writes, Applied, Data
    <2>4. job' \in Job /\ job'.status = "deleted" /\ position' \in Positions
      <3>1. job \in Job
        BY DEF IInv, TypeOK
      <3>2. job' \in Job /\ job'.status = "deleted"
        BY <2>1, <3>1 DEF Job
      <3>3. 0 \in 0..MaxStages
        BY HiringConstantsOK
      <3>4. position' \in Positions
        BY <2>1, <3>3 DEF Positions
      <3> QED
        BY <3>2, <3>4
    <2> HIDE DEF X
    <2>5. /\ Reading' /\ handler' \in [Handlers -> HandlerState]
          /\ raced' \subseteq Data /\ raced \subseteq raced'
          /\ calls' \in 0..MaxCalls
          /\ \A g \in Handlers : handler'[g].pc # "idle" => handler'[g].began <= calls'
      BY <2>1, <2>3, EndsParts
    <2>6. TypeOK'
      BY <2>1, <2>4, <2>5 DEF IInv, TypeOK, Data
    <2>7. ReferencesHold'
      <3>1. Unique(position')
        BY <2>1 DEF Unique
      <3> QED
        BY <2>1, <2>2, <3>1 DEF ReferencesHold, Applied
    <2>8. TwoStagesRemain'
      BY <2>4 DEF TwoStagesRemain, Exists
    <2>9. HistoryTells' /\ HistoryOfApplied'
      BY <2>1, <2>5 DEF IInv, HistoryTells, Tells, HistoryOfApplied, Applied
    <2>10. NobodyAhead'
      BY <2>1, <2>5 DEF IInv, NobodyAhead
    <2> QED
      BY <2>5, <2>6, <2>7, <2>8, <2>9, <2>10 DEF IInv, Reading, Readers
  <1> QED
    BY <1>1, <1>2

LEMMA PresentFinite ==
  /\ IsFiniteSet(Present)
  /\ \A S \in SUBSET Stages : IsFiniteSet(S) /\ Cardinality(S) \in Nat
  /\ \A S, T \in SUBSET Stages : S \subseteq T => Cardinality(S) <= Cardinality(T)
  <1>1. \A S \in SUBSET Stages : IsFiniteSet(S) /\ Cardinality(S) \in Nat
    BY HiringConstantsOK, FS_Subset, FS_CardinalityType
  <1>2. ASSUME NEW S \in SUBSET Stages, NEW T \in SUBSET Stages, S \subseteq T
        PROVE  Cardinality(S) <= Cardinality(T)
    BY <1>1, <1>2, FS_Subset
  <1> QED
    BY <1>1, <1>2 DEF Present

LEMMA CommitStagesInv ==
  ASSUME IInv, NEW h \in Handlers, CommitStages(h)
  PROVE  IInv'
  <1> DEFINE c == handler[h]
             n == Len(c.orders)
             new == Arranged(c, n)
             gone == c.pc = "arranging" /\ \E s \in Stages : position[s] = 0 /\ new[s] # 0
             fine == Exists /\ ~gone /\ \A k \in 1..n : Unique(Arranged(c, k))
  <1>1. CASE ~fine
    <2>1. Fails(h) /\ UNCHANGED calls
      BY <1>1 DEF CommitStages
    <2> QED
      BY <2>1, FailsInv
  <1>2. CASE fine
    <2> DEFINE X == IF new = position THEN {} ELSE {"stages"}
    <2>1. /\ position' = new /\ Ends(h, X) /\ c.pc \in {"creating", "arranging"}
          /\ UNCHANGED <<job, application, history, calls>>
      BY <1>2 DEF CommitStages
    <2>2. c \in StageCallState
      BY <2>1, HandlerShape DEF IInv, StageCall
    <2>3. n \in Nat
      BY <2>2, LenProperties DEF StageCallState
    <2>4. \A i \in 1..n : c.orders[i][2] # 0
      BY <2>1 DEF IInv, StageReader, StageCall
    <2>5. new \in Positions /\ \A s \in Stages : position[s] # 0 => new[s] # 0
      BY <2>2, <2>3, <2>4, ArrangedIs DEF IInv
    <2>6. Unique(new)
      <3>1. CASE n = 0
        <4>1. \A s \in Stages : new[s] = position[s]
          BY <3>1 DEF Arranged
        <4> HIDE DEF new
        <4> QED
          BY <4>1 DEF Unique, IInv, ReferencesHold
      <3>2. CASE n # 0
        <4>1. n \in 1..n
          BY <2>3, <3>2
        <4> QED
          BY <1>2, <4>1
      <3> QED
        BY <3>1, <3>2
    <2>7. Exists /\ Exists'
      BY <1>2, <2>1 DEF Exists
    <2> HIDE DEF new, n, fine
    <2>8. Writes(X)
      BY <2>1 DEF Writes, Applied
    <2>9. X \subseteq Data
      BY DEF Data
    <2> HIDE DEF X
    <2>10. /\ Reading' /\ handler' \in [Handlers -> HandlerState]
           /\ raced' \subseteq Data /\ raced \subseteq raced'
           /\ calls' \in 0..MaxCalls
           /\ \A g \in Handlers : handler'[g].pc # "idle" => handler'[g].began <= calls'
      BY <2>1, <2>8, <2>9, EndsParts
    <2>11. TypeOK'
      BY <2>1, <2>5, <2>10 DEF IInv, TypeOK, Data
    <2>12. Present \subseteq Present'
      BY <2>1, <2>5 DEF Present
    <2>13. ReferencesHold'
      <3>1. Unique(position')
        BY <2>1, <2>6
      <3>2. ASSUME NEW d \in Candidates
            PROVE  /\ Applied(d)' => application'[d].stage \in Present'
                   /\ \A i \in 1..Len(history'[d]) :
                         history'[d][i].to \in Present' /\ history'[d][i].from \in Present' \cup {None}
        BY <2>1, <2>12 DEF IInv, ReferencesHold, Applied
      <3> QED
        BY <3>1, <3>2 DEF ReferencesHold
    <2>14. TwoStagesRemain'
      <3>1. Cardinality(Present) <= Cardinality(Present')
        BY <2>12, PresentFinite DEF Present
      <3>2. Cardinality(Present) \in Nat /\ Cardinality(Present') \in Nat
        BY PresentFinite DEF Present
      <3> QED
        BY <2>7, <2>10, <3>1, <3>2 DEF IInv, TwoStagesRemain
    <2>15. HistoryTells' /\ HistoryOfApplied'
      BY <2>1, <2>10 DEF IInv, HistoryTells, Tells, HistoryOfApplied, Applied
    <2>16. NobodyAhead'
      BY <2>1, <2>10 DEF IInv, NobodyAhead
    <2> QED
      BY <2>10, <2>11, <2>13, <2>14, <2>15, <2>16 DEF IInv, Reading, Readers
  <1> QED
    BY <1>1, <1>2

LEMMA ForgetIs ==
  ASSUME TypeOK, NEW s \in Stages, NEW d \in Candidates
  PROVE  /\ Forget(s)[d] \in Seq(Entry) /\ Len(Forget(s)[d]) = Len(history[d])
         /\ Len(history[d]) \in Nat
         /\ \A i \in 1..Len(history[d]) :
              /\ Forget(s)[d][i].to = history[d][i].to
              /\ Forget(s)[d][i].began = history[d][i].began
              /\ Forget(s)[d][i].from = IF history[d][i].from = s THEN None ELSE history[d][i].from
  <1> DEFINE n == Len(history[d])
             e(i) == [history[d][i] EXCEPT !.from = IF @ = s THEN None ELSE @]
  <1>1. history[d] \in Seq(Entry)
    BY DEF TypeOK
  <1>2. n \in Nat /\ \A i \in 1..n : history[d][i] \in Entry
    BY <1>1, LenProperties, ElementOfSeq
  <1>3. Forget(s)[d] = [i \in 1..n |-> e(i)]
    BY DEF Forget
  <1>4. ASSUME NEW i \in 1..n
        PROVE  /\ e(i) \in Entry
               /\ e(i).to = history[d][i].to /\ e(i).began = history[d][i].began
               /\ e(i).from = IF history[d][i].from = s THEN None ELSE history[d][i].from
    <2>1. history[d][i] \in Entry
      BY <1>2
    <2> QED
      BY <2>1 DEF Entry
  <1> HIDE DEF e, n
  <1>5. Forget(s)[d] \in Seq(Entry) /\ Len(Forget(s)[d]) = n
    <2>1. [i \in 1..n |-> e(i)] \in [1..n -> Entry]
      BY <1>4
    <2>2. [i \in 1..n |-> e(i)] \in Seq(Entry) /\ Len([i \in 1..n |-> e(i)]) = n
      BY <1>2, <1>4, IsASeq, <2>1
    <2> QED
      BY <1>3, <2>2
  <1>6. \A i \in 1..n : Forget(s)[d][i] = e(i)
    BY <1>3
  <1> QED
    BY <1>2, <1>4, <1>5, <1>6 DEF n

LEMMA RemoveStageInv ==
  ASSUME IInv, NEW h \in Handlers, RemoveStage(h)
  PROVE  IInv'
  <1> DEFINE c == handler[h]
             s == c.orders[1][1]
  <1>1. CASE InUse(s)
    BY <1>1, FailsInv DEF RemoveStage
  <1>2. CASE ~InUse(s)
    <2> DEFINE X == IF s \in Present THEN {"stages"} ELSE {}
    <2>1. /\ position' = [position EXCEPT ![s] = 0] /\ history' = Forget(s)
          /\ Ends(h, X) /\ c.pc = "removing" /\ UNCHANGED <<job, application, calls>>
      BY <1>2 DEF RemoveStage
    <2>2. /\ c \in StageCallState /\ Len(c.orders) = 1
          /\ Cardinality({r \in Stages : c.read[r] # 0}) > 2
          /\ ~c.overtaken => c.read = position
      BY <2>1, HandlerShape DEF IInv, StageReader, StageCall
    <2>3. s \in Stages
      <3>1. c.orders \in Seq(Stages \X (0..MaxStages)) /\ 1 \in 1..Len(c.orders)
        BY <2>2 DEF StageCallState
      <3>2. c.orders[1] \in Stages \X (0..MaxStages)
        BY <3>1, ElementOfSeq
      <3> QED
        BY <3>2
    <2>4. \A r \in Stages : position'[r] = IF r = s THEN 0 ELSE position[r]
      BY <2>1 DEF IInv, TypeOK, Positions
    <2>5. /\ \A d \in Candidates : application[d].stage # s
          /\ \A d \in Candidates : \A i \in 1..Len(history[d]) : history[d][i].to # s
      BY <1>2 DEF InUse
    <2>6. \A d \in Candidates :
            /\ history'[d] \in Seq(Entry) /\ Len(history'[d]) = Len(history[d])
            /\ Len(history[d]) \in Nat
            /\ \A i \in 1..Len(history[d]) :
                 /\ history'[d][i].to = history[d][i].to
                 /\ history'[d][i].began = history[d][i].began
                 /\ history'[d][i].from = IF history[d][i].from = s THEN None
                                          ELSE history[d][i].from
      <3>1. TypeOK
        BY DEF IInv
      <3>2. history' = Forget(s)
        BY <2>1
      <3> HIDE DEF s
      <3> SUFFICES ASSUME NEW d \in Candidates
                   PROVE  /\ Forget(s)[d] \in Seq(Entry) /\ Len(Forget(s)[d]) = Len(history[d])
                          /\ Len(history[d]) \in Nat
                          /\ \A i \in 1..Len(history[d]) :
                               /\ Forget(s)[d][i].to = history[d][i].to
                               /\ Forget(s)[d][i].began = history[d][i].began
                               /\ Forget(s)[d][i].from = IF history[d][i].from = s THEN None
                                                         ELSE history[d][i].from
        BY <3>2
      <3> QED
        BY <3>1, <2>3, ForgetIs
    <2> HIDE DEF s
    <2>7. Present' = Present \ {s}
      BY <2>4 DEF Present
    <2>8. Writes(X)
      <3>1. position' = position \/ "stages" \in X
        <4>1. CASE s \in Present
          BY <4>1
        <4>2. CASE s \notin Present
          <5>1. position \in [Stages -> 0..MaxStages] /\ position' = [position EXCEPT ![s] = 0]
            BY <2>1 DEF IInv, TypeOK, Positions
          <5>2. position[s] = 0
            BY <2>3, <4>2 DEF Present
          <5> QED
            BY <2>3, <5>1, <5>2
        <4> QED
          BY <4>1, <4>2
      <3> QED
        BY <2>1, <2>6, <3>1 DEF Writes, Applied
    <2>9. X \subseteq Data
      BY DEF Data
    <2>10. /\ Reading' /\ handler' \in [Handlers -> HandlerState]
           /\ raced' \subseteq Data /\ raced \subseteq raced'
           /\ c.overtaken => X \subseteq raced'
           /\ calls' \in 0..MaxCalls
           /\ \A g \in Handlers : handler'[g].pc # "idle" => handler'[g].began <= calls'
      <3> HIDE DEF X
      <3> QED
        BY <2>1, <2>8, <2>9, EndsParts
    <2>11. TypeOK'
      <3>1. 0 \in 0..MaxStages
        BY HiringConstantsOK
      <3>2. position' \in Positions
        BY <2>1, <3>1 DEF IInv, TypeOK, Positions
      <3>3. history' \in [Candidates -> Seq(Entry)]
        <4>1. history' = [d \in Candidates |-> history'[d]]
          BY <2>1 DEF Forget
        <4> QED
          BY <2>6, <4>1
      <3> QED
        BY <2>1, <2>10, <3>2, <3>3 DEF IInv, TypeOK, Data
    <2>12. ReferencesHold'
      <3>1. Unique(position')
        BY <2>4 DEF Unique, IInv, ReferencesHold
      <3>2. ASSUME NEW d \in Candidates, Applied(d)' PROVE application'[d].stage \in Present'
        BY <2>1, <2>5, <2>7, <3>2 DEF IInv, ReferencesHold, Applied
      <3>3. ASSUME NEW d \in Candidates, NEW i \in 1..Len(history'[d])
            PROVE  history'[d][i].to \in Present' /\ history'[d][i].from \in Present' \cup {None}
        <4>1. i \in 1..Len(history[d])
          BY <2>6
        <4>2. history[d][i].to \in Present /\ history[d][i].from \in Present \cup {None}
          BY <4>1 DEF IInv, ReferencesHold
        <4> QED
          BY <2>5, <2>6, <2>7, <4>1, <4>2
      <3> QED
        BY <3>1, <3>2, <3>3 DEF ReferencesHold
    <2>13. TwoStagesRemain'
      <3> SUFFICES ASSUME Exists', "stages" \notin raced' PROVE Cardinality(Present') >= 2
        BY DEF TwoStagesRemain
      <3>1. Exists /\ "stages" \notin raced
        BY <2>1, <2>10 DEF Exists
      <3>2. CASE s \notin Present
        <4>1. Present' = Present
          BY <2>7, <3>2
        <4> QED
          BY <3>1, <4>1 DEF IInv, TwoStagesRemain
      <3>3. CASE s \in Present
        <4>1. ~c.overtaken
          BY <2>10, <3>3
        <4>2. Cardinality(Present) > 2
          BY <2>2, <4>1 DEF Present
        <4>3. Cardinality(Present') = Cardinality(Present) - 1
          BY <2>7, <3>3, PresentFinite, FS_RemoveElement
        <4>4. Cardinality(Present) \in Nat
          BY PresentFinite DEF Present
        <4> QED
          BY <4>2, <4>3, <4>4
      <3> QED
        BY <3>2, <3>3
    <2>14. HistoryTells'
      <3> SUFFICES ASSUME NEW d \in Candidates \ raced' PROVE Tells(d)'
        BY DEF HistoryTells
      <3> DEFINE n == Len(history[d])
      <3>1. Tells(d)
        BY <2>10 DEF IInv, HistoryTells
      <3>2. n \in Nat /\ Len(history'[d]) = n
        BY <2>6
      <3>3. n > 0 => application'[d].stage = history'[d][n].to
        <4>1. n > 0 => n \in 1..n
          BY <3>2
        <4> QED
          BY <2>1, <2>6, <3>1, <4>1 DEF Tells
      <3>4. ASSUME NEW i \in 1..n-1
            PROVE  /\ history'[d][i].began < history'[d][i+1].began
                   /\ history'[d][i+1].from \in {history'[d][i].to, None}
        <4>1. i \in 1..n /\ i + 1 \in 1..n
          BY <3>2
        <4>2. /\ history[d][i].began < history[d][i+1].began
              /\ history[d][i+1].from \in {history[d][i].to, None}
          BY <3>1 DEF Tells
        <4> QED
          BY <2>6, <4>1, <4>2
      <3> QED
        BY <3>2, <3>3, <3>4 DEF Tells
    <2>15. HistoryOfApplied'
      BY <2>1, <2>6 DEF IInv, HistoryOfApplied, Applied
    <2>16. NobodyAhead'
      BY <2>1, <2>6, <2>10 DEF IInv, NobodyAhead
    <2> QED
      BY <2>10, <2>11, <2>12, <2>13, <2>14, <2>15, <2>16 DEF IInv, Reading, Readers
  <1> QED
    BY <1>1, <1>2

LEMMA AddInv ==
  ASSUME IInv, NEW h \in Handlers, Add(h)
  PROVE  IInv'
  <1> DEFINE c == handler[h]
             d == c.candidate
             fine == Exists /\ ~Applied(d) /\ c.to \in Present
  <1>1. CASE ~fine
    <2>1. Fails(h) /\ UNCHANGED calls
      BY <1>1 DEF Add
    <2> QED
      BY <2>1, FailsInv
  <1>2. CASE fine
    <2> DEFINE X == {d}
    <2>1. /\ application' = [application EXCEPT ![d].stage = c.to]
          /\ Ends(h, X) /\ c.pc = "adding" /\ UNCHANGED <<job, position, history, calls>>
      BY <1>2 DEF Add
    <2>2. d \in Candidates /\ c.to \in Present
      BY <1>2, <2>1, HandlerShape DEF IInv, CandidateCall, CandidateCallState
    <2>3. application[d] \in Application /\ application[d].stage = None
      BY <1>2, <2>2 DEF IInv, TypeOK, Applied
    <2>4. /\ application'[d] \in Application /\ application'[d].stage = c.to
          /\ \A e \in Candidates \ {d} : application'[e] = application[e]
      BY <2>1, <2>2, <2>3 DEF IInv, TypeOK, Application, Present
    <2>5. c.to # None
      BY <2>2, HiringConstantsOK DEF Present
    <2> HIDE DEF c, d, fine
    <2>6. \A e \in Candidates : Applied(e) => Applied(e)'
      BY <2>4, <2>5 DEF Applied
    <2>7. Writes(X)
      BY <2>1, <2>4, <2>6 DEF Writes
    <2>8. X \subseteq Data
      BY <2>2 DEF Data
    <2>9. /\ Reading' /\ handler' \in [Handlers -> HandlerState]
          /\ raced' \subseteq Data /\ raced \subseteq raced'
          /\ calls' \in 0..MaxCalls
          /\ \A g \in Handlers : handler'[g].pc # "idle" => handler'[g].began <= calls'
      <3> HIDE DEF X
      <3> QED
        BY <2>1, <2>7, <2>8, EndsParts
    <2>10. TypeOK'
      <3>1. application' \in [Candidates -> Application]
        BY <2>1, <2>2, <2>4 DEF IInv, TypeOK
      <3> QED
        BY <2>1, <2>9, <3>1 DEF IInv, TypeOK, Data
    <2>11. Len(history[d]) = 0
      <3>1. history[d] \in Seq(Entry)
        BY <2>2 DEF IInv, TypeOK
      <3> QED
        BY <2>2, <2>3, <3>1, LenProperties DEF IInv, HistoryOfApplied, Applied
    <2>12. ReferencesHold'
      BY <2>1, <2>2, <2>4 DEF IInv, ReferencesHold, Applied, Present, Unique
    <2>13. HistoryOfApplied'
      BY <2>1, <2>6 DEF IInv, HistoryOfApplied
    <2>14. TwoStagesRemain'
      BY <2>1, <2>9 DEF IInv, TwoStagesRemain, Exists, Present
    <2>15. HistoryTells'
      <3> SUFFICES ASSUME NEW e \in Candidates \ raced' PROVE Tells(e)'
        BY DEF HistoryTells
      <3>1. Tells(e)
        BY <2>9 DEF IInv, HistoryTells
      <3> QED
        BY <2>1, <2>4, <2>11, <3>1 DEF Tells
    <2>16. NobodyAhead'
      BY <2>1, <2>9 DEF IInv, NobodyAhead
    <2> QED
      BY <2>9, <2>10, <2>12, <2>13, <2>14, <2>15, <2>16 DEF IInv, Reading, Readers
  <1> QED
    BY <1>1, <1>2

LEMMA ShortlistInv ==
  ASSUME IInv, NEW h \in Handlers, Shortlist(h)
  PROVE  IInv'
  <1> DEFINE d == handler[h].candidate
  <1>1. /\ application' = [application EXCEPT ![d].shortlisted = TRUE]
        /\ Ends(h, {}) /\ handler[h].pc = "shortlisting"
        /\ UNCHANGED <<job, position, history, calls>>
    BY DEF Shortlist
  <1>2. d \in Candidates
    BY <1>1, HandlerShape DEF IInv, CandidateCall, CandidateCallState
  <1>3. \A e \in Candidates : application[e] \in Application
    BY DEF IInv, TypeOK
  <1>4. \A e \in Candidates :
          application'[e] = IF e = d THEN [application[e] EXCEPT !.shortlisted = TRUE]
                            ELSE application[e]
    BY <1>1, <1>2 DEF IInv, TypeOK
  <1>5. \A e \in Candidates :
          application'[e] \in Application /\ application'[e].stage = application[e].stage
    BY <1>3, <1>4 DEF Application
  <1> HIDE DEF d
  <1>6. Writes({}) /\ {} \subseteq Data
    BY <1>1, <1>5 DEF Writes, Applied
  <1>7. /\ Reading' /\ handler' \in [Handlers -> HandlerState]
        /\ raced' \subseteq Data /\ raced \subseteq raced'
        /\ calls' \in 0..MaxCalls
        /\ \A g \in Handlers : handler'[g].pc # "idle" => handler'[g].began <= calls'
    BY <1>1, <1>6, EndsParts
  <1>8. TypeOK'
    <2>1. application' \in [Candidates -> Application]
      BY <1>1, <1>5 DEF IInv, TypeOK
    <2> QED
      BY <1>1, <1>7, <2>1 DEF IInv, TypeOK, Data
  <1>9. ReferencesHold' /\ HistoryOfApplied'
    BY <1>1, <1>5 DEF IInv, ReferencesHold, Applied, Present, Unique, HistoryOfApplied
  <1>10. TwoStagesRemain'
    BY <1>1, <1>7 DEF IInv, TwoStagesRemain, Exists, Present
  <1>11. HistoryTells'
    BY <1>1, <1>5, <1>7 DEF IInv, HistoryTells, Tells
  <1>12. NobodyAhead'
    BY <1>1, <1>7 DEF IInv, NobodyAhead
  <1> QED
    BY <1>7, <1>8, <1>9, <1>10, <1>11, <1>12 DEF IInv, Reading, Readers

LEMMA MoveInv ==
  ASSUME IInv, NEW h \in Handlers, Move(h)
  PROVE  IInv'
  <1> DEFINE c == handler[h]
             d == c.candidate
             entry == [from |-> c.read.stage, to |-> c.to, began |-> c.began]
  <1>1. CASE ~Recordable(c)
    <2>1. Fails(h) /\ UNCHANGED calls
      BY <1>1 DEF Move
    <2> QED
      BY <2>1, FailsInv
  <1>2. CASE Recordable(c)
    <2> DEFINE X == {d}
               n == Len(history[d])
    <2>1. /\ history' = [history EXCEPT ![d] = Append(@, entry)]
          /\ application' = IF c.to = c.read.stage THEN application
                            ELSE [application EXCEPT ![d].stage = c.to]
          /\ Ends(h, X) /\ c.pc \in {"moving", "rejecting"} /\ UNCHANGED <<job, position, calls>>
      BY <1>2 DEF Move
    <2>2. c \in CandidateCallState
      BY <2>1, HandlerShape DEF IInv, CandidateCall
    <2>3. /\ d \in Candidates /\ c.to \in Present /\ c.read.stage \in Present
          /\ entry \in Entry
      BY <1>2, <2>2 DEF CandidateCallState, Recordable, Present, Entry
    <2>4. Applied(d) /\ (~c.overtaken =>
            /\ c.read.stage = application[d].stage
            /\ \A i \in 1..n : history[d][i].began < c.began)
      BY <2>1 DEF IInv, CandidateReader, CandidateCall
    <2>5. c.began \in Nat /\ c.began <= calls
      BY <2>1, <2>2 DEF IInv, NobodyAhead, CandidateCallState
    <2>6. entry.from = c.read.stage /\ entry.to = c.to /\ entry.began = c.began
      OBVIOUS
    <2>7. history[d] \in Seq(Entry) /\ application[d] \in Application
      BY <2>3 DEF IInv, TypeOK
    <2> HIDE DEF c, d, entry
    <2>8. n \in Nat /\ \A i \in 1..n : history[d][i] \in Entry
      BY <2>7, LenProperties, ElementOfSeq
    <2>9. /\ history'[d] \in Seq(Entry) /\ Len(history'[d]) = n + 1
          /\ \A i \in 1..n : history'[d][i] = history[d][i]
          /\ history'[d][n+1] = entry
          /\ \A e \in Candidates \ {d} : history'[e] = history[e]
      <3>1. history'[d] = Append(history[d], entry)
        BY <2>1, <2>3 DEF IInv, TypeOK
      <3>2. \A e \in Candidates \ {d} : history'[e] = history[e]
        BY <2>1, <2>3 DEF IInv, TypeOK
      <3> QED
        BY <2>3, <2>7, <3>1, <3>2, AppendProperties
    <2>10. /\ application'[d] \in Application
           /\ application'[d].stage = IF c.to = c.read.stage THEN application[d].stage ELSE c.to
           /\ \A e \in Candidates \ {d} : application'[e] = application[e]
      <3>1. CASE c.to = c.read.stage
        BY <2>1, <2>7, <3>1
      <3>2. CASE c.to # c.read.stage
        <4>1. application' = [application EXCEPT ![d].stage = c.to]
          BY <2>1, <3>2
        <4> QED
          BY <2>3, <2>7, <3>2, <4>1 DEF IInv, TypeOK, Application, Present
      <3> QED
        BY <3>1, <3>2
    <2> HIDE DEF n
    <2>11. application'[d].stage \in Present
      BY <2>3, <2>4, <2>10 DEF IInv, ReferencesHold
    <2>12. \A e \in Candidates : Applied(e) => Applied(e)'
      BY <2>10, <2>11, HiringConstantsOK DEF Applied, Present
    <2>13. Writes(X)
      BY <2>1, <2>9, <2>10, <2>12 DEF Writes
    <2>14. X \subseteq Data
      BY <2>3 DEF Data
    <2>15. /\ Reading' /\ handler' \in [Handlers -> HandlerState]
           /\ raced' \subseteq Data /\ raced \subseteq raced'
           /\ c.overtaken => d \in raced'
           /\ calls' \in 0..MaxCalls
           /\ \A g \in Handlers : handler'[g].pc # "idle" => handler'[g].began <= calls'
      <3>1. handler[h].overtaken => X \subseteq raced'
        <4> HIDE DEF X
        <4> QED
          BY <2>1, <2>13, <2>14, EndsParts
      <3>2. c.overtaken => d \in raced'
        BY <3>1 DEF c
      <3> HIDE DEF X
      <3> QED
        BY <2>1, <2>13, <2>14, <3>2, EndsParts
    <2>16. TypeOK'
      <3>1. application' \in [Candidates -> Application]
        <4>1. application' = [e \in Candidates |-> application'[e]]
          BY <2>1 DEF IInv, TypeOK
        <4> QED
          BY <2>10, <4>1 DEF IInv, TypeOK
      <3>2. history' \in [Candidates -> Seq(Entry)]
        <4>1. history' = [e \in Candidates |-> history'[e]]
          BY <2>1 DEF IInv, TypeOK
        <4> QED
          BY <2>9, <4>1 DEF IInv, TypeOK
      <3> QED
        BY <2>1, <2>15, <3>1, <3>2 DEF IInv, TypeOK, Data
    <2>17. ReferencesHold'
      <3>1. Unique(position') /\ Present' = Present
        BY <2>1 DEF IInv, ReferencesHold, Present, Unique
      <3>2. ASSUME NEW e \in Candidates, Applied(e)' PROVE application'[e].stage \in Present
        BY <2>10, <2>11, <3>2 DEF IInv, ReferencesHold, Applied
      <3>3. ASSUME NEW e \in Candidates, NEW i \in 1..Len(history'[e])
            PROVE  history'[e][i].to \in Present /\ history'[e][i].from \in Present \cup {None}
        <4>1. CASE e = d /\ i = n + 1
          BY <2>3, <2>6, <2>9, <4>1
        <4>2. CASE e = d /\ i # n + 1
          <5>1. i \in 1..n
            BY <2>8, <2>9, <4>2
          <5> QED
            BY <2>9, <4>2, <5>1 DEF IInv, ReferencesHold, n
        <4>3. CASE e # d
          BY <2>9, <4>3 DEF IInv, ReferencesHold
        <4> QED
          BY <4>1, <4>2, <4>3
      <3> QED
        BY <3>1, <3>2, <3>3 DEF ReferencesHold
    <2>18. TwoStagesRemain'
      BY <2>1, <2>15 DEF IInv, TwoStagesRemain, Exists, Present
    <2>19. HistoryOfApplied'
      BY <2>4, <2>9, <2>12 DEF IInv, HistoryOfApplied
    <2>20. HistoryTells'
      <3> SUFFICES ASSUME NEW e \in Candidates \ raced' PROVE Tells(e)'
        BY DEF HistoryTells
      <3>1. Tells(e)
        BY <2>15 DEF IInv, HistoryTells
      <3>2. CASE e # d
        BY <2>9, <2>10, <3>1, <3>2 DEF Tells
      <3>3. CASE e = d
        <4>1. ~c.overtaken
          BY <2>15, <3>3
        <4>2. application'[d].stage = entry.to
          BY <2>4, <2>6, <2>10, <4>1
        <4>3. ASSUME NEW i \in 1..n
              PROVE  /\ history'[d][i].began < history'[d][i+1].began
                     /\ history'[d][i+1].from \in {history'[d][i].to, None}
          <5>1. CASE i = n
            <6>1. n \in 1..n /\ n > 0
              BY <2>8, <5>1
            <6>2. history[d][n].to = entry.from
              BY <2>4, <2>6, <3>1, <3>3, <4>1, <6>1 DEF Tells, n
            <6>3. history[d][n].began < entry.began
              BY <2>4, <2>6, <4>1, <6>1
            <6> QED
              BY <2>9, <5>1, <6>1, <6>2, <6>3
          <5>2. CASE i # n
            <6>1. i \in 1..n-1 /\ i \in 1..n /\ i + 1 \in 1..n
              BY <2>8, <5>2
            <6>2. /\ history[d][i].began < history[d][i+1].began
                  /\ history[d][i+1].from \in {history[d][i].to, None}
              BY <3>1, <3>3, <6>1 DEF Tells, n
            <6> QED
              BY <2>9, <6>1, <6>2
          <5> QED
            BY <5>1, <5>2
        <4>4. Len(history'[d]) - 1 = n
          BY <2>8, <2>9
        <4> QED
          BY <2>9, <3>3, <4>2, <4>3, <4>4 DEF Tells
      <3> QED
        BY <3>2, <3>3
    <2>21. NobodyAhead'
      <3>1. ASSUME NEW e \in Candidates, NEW i \in 1..Len(history'[e])
            PROVE  history'[e][i].began <= calls'
        <4>1. CASE e = d /\ i = n + 1
          BY <2>1, <2>5, <2>6, <2>9, <4>1
        <4>2. CASE e = d /\ i # n + 1
          <5>1. i \in 1..n
            BY <2>8, <2>9, <4>2
          <5> QED
            BY <2>1, <2>9, <4>2, <5>1 DEF IInv, NobodyAhead, n
        <4>3. CASE e # d
          BY <2>1, <2>9, <4>3 DEF IInv, NobodyAhead
        <4> QED
          BY <4>1, <4>2, <4>3
      <3> QED
        BY <2>15, <3>1 DEF NobodyAhead
    <2> QED
      BY <2>15, <2>16, <2>17, <2>18, <2>19, <2>20, <2>21 DEF IInv, Reading, Readers
  <1> QED
    BY <1>1, <1>2

-----------------------------------------------------------------------------
(* The beginnings of calls.                                                *)

LEMMA JobReadsInv ==
  ASSUME IInv, NEW h \in Handlers,
         OpenReads(h) \/ PauseReads(h) \/ CloseReads(h) \/ ArchiveReads(h) \/ DeleteReads(h)
  PROVE  IInv'
  <1>1. CASE OpenReads(h)
    BY <1>1, ReadJobInv DEF OpenReads, JobCall
  <1>2. CASE PauseReads(h)
    BY <1>2, ReadJobInv DEF PauseReads, JobCall
  <1>3. CASE CloseReads(h)
    BY <1>3, ReadJobInv DEF CloseReads, JobCall
  <1>4. CASE ArchiveReads(h)
    BY <1>4, ReadJobInv DEF ArchiveReads, JobCall
  <1>5. CASE DeleteReads(h)
    BY <1>5, ReadJobInv DEF DeleteReads, JobCall
  <1> QED
    BY <1>1, <1>2, <1>3, <1>4, <1>5

\* One order that gives stage s the position p.
LEMMA OneOrder ==
  ASSUME NEW s \in Stages, NEW p \in 0..MaxStages
  PROVE  /\ <<<<s, p>>>> \in Seq(Stages \X (0..MaxStages))
         /\ Len(<<<<s, p>>>>) = 1 /\ <<<<s, p>>>>[1][2] = p
  OBVIOUS

\* Orders of an arrangement give positions that are taken or within the limit.
LEMMA OrdersAre ==
  ASSUME TypeOK, NEW orders \in Orders
  PROVE  /\ orders \in Seq(Stages \X (0..MaxStages))
         /\ \A i \in 1..Len(orders) : orders[i][2] # 0
  <1>1. CASE orders \in Updates
    <2>1. PICK s \in Stages, p \in 1..MaxStages : orders = <<<<s, p>>>>
      BY <1>1 DEF Updates
    <2>2. p \in 0..MaxStages /\ p # 0
      OBVIOUS
    <2>3. /\ orders \in Seq(Stages \X (0..MaxStages))
          /\ Len(orders) = 1 /\ orders[1][2] = p
      BY <2>1, <2>2, OneOrder
    <2>4. \A i \in 1..Len(orders) : i = 1
      BY <2>3
    <2> QED
      BY <2>2, <2>3, <2>4
  <1>2. CASE orders \notin Updates
    <2>1. PICK s \in Present, t \in Present :
            orders = <<<<s, position[t]>>, <<t, position[s]>>>>
      BY <1>2 DEF Orders
    <2>2. /\ s \in Stages /\ t \in Stages
          /\ position[s] \in 0..MaxStages /\ position[t] \in 0..MaxStages
          /\ position[s] # 0 /\ position[t] # 0
      BY <2>1 DEF Present, TypeOK, Positions
    <2>3. <<s, position[t]>> \in Stages \X (0..MaxStages) /\ <<t, position[s]>> \in Stages \X (0..MaxStages)
      BY <2>2
    <2>4. orders \in Seq(Stages \X (0..MaxStages)) /\ Len(orders) = 2
      BY <2>1, <2>3
    <2>5. orders[1][2] = position[t] /\ orders[2][2] = position[s]
      BY <2>1
    <2>6. \A i \in 1..Len(orders) : i = 1 \/ i = 2
      BY <2>4
    <2> QED
      BY <2>2, <2>4, <2>5, <2>6
  <1> QED
    BY <1>1, <1>2

LEMMA StageReadsInv ==
  ASSUME IInv, NEW h \in Handlers,
         \/ \E s \in Stages, p \in 1..MaxStages : CreateReads(h, s, p)
         \/ \E orders \in Orders : ArrangeReads(h, orders)
         \/ \E s \in Stages : RemoveReads(h, s)
  PROVE  IInv'
  <1>1. ASSUME NEW s \in Stages, NEW p \in 1..MaxStages, CreateReads(h, s, p)
        PROVE  IInv'
    <2> DEFINE orders == <<<<s, p>>>>
    <2>1. p \in 0..MaxStages /\ p # 0
      OBVIOUS
    <2>2. orders \in Seq(Stages \X (0..MaxStages)) /\ Len(orders) = 1 /\ orders[1][2] = p
      BY <2>1, OneOrder
    <2>3. \A i \in 1..Len(orders) : i = 1
      BY <2>2
    <2>4. ReadStages(h, "creating", orders) /\ "creating" \in StageCall /\ "creating" # "removing"
      BY <1>1 DEF CreateReads, StageCall
    <2> HIDE DEF orders
    <2> QED
      BY <2>1, <2>2, <2>3, <2>4, ReadStagesInv
  <1>2. ASSUME NEW orders \in Orders, ArrangeReads(h, orders)
        PROVE  IInv'
    <2>1. /\ orders \in Seq(Stages \X (0..MaxStages))
          /\ \A i \in 1..Len(orders) : orders[i][2] # 0
      BY OrdersAre DEF IInv
    <2>2. ReadStages(h, "arranging", orders) /\ "arranging" \in StageCall /\ "arranging" # "removing"
      BY <1>2 DEF ArrangeReads, StageCall
    <2> QED
      BY <2>1, <2>2, ReadStagesInv
  <1>3. ASSUME NEW s \in Stages, RemoveReads(h, s)
        PROVE  IInv'
    <2> DEFINE orders == <<<<s, 0>>>>
    <2>1. orders \in Seq(Stages \X (0..MaxStages)) /\ Len(orders) = 1
      BY OneOrder, HiringConstantsOK
    <2>2. ReadStages(h, "removing", orders) /\ "removing" \in StageCall /\ Cardinality(Present) > 2
      BY <1>3 DEF RemoveReads, StageCall
    <2> HIDE DEF orders
    <2> QED
      BY <2>1, <2>2, ReadStagesInv
  <1> QED
    BY <1>1, <1>2, <1>3

\* A nonempty set of stages has a first and a last one.
LEMMA FirstLast ==
  ASSUME TypeOK, NEW S, S \subseteq Stages, S # {}
  PROVE  First(S) \in S /\ Last(S) \in S
  <1> DEFINE P == {position[s] : s \in S}
  <1>1. \A s \in S : position[s] \in 0..MaxStages
    BY DEF TypeOK, Positions
  <1>2. \E s \in S : \A t \in S : position[s] <= position[t]
    <2>1. P \subseteq Nat /\ P # {}
      BY <1>1
    <2>2. PICK p \in P : \A q \in P : p <= q
      <3> HIDE DEF P
      <3> QED
        BY <2>1, Least
    <2> QED
      BY <2>2
  <1>3. \E s \in S : \A t \in S : position[t] <= position[s]
    <2> DEFINE Q == {position[s] + 1 : s \in S}
    <2>1. Q \subseteq 1..(MaxStages + 1) /\ Q # {} /\ MaxStages + 1 \in Nat
      <3>1. \A s \in S : position[s] + 1 \in 1..(MaxStages + 1)
        BY <1>1, HiringConstantsOK
      <3>2. Q \subseteq 1..(MaxStages + 1)
        BY <3>1
      <3>3. Q # {}
        OBVIOUS
      <3>4. MaxStages + 1 \in Nat
        BY HiringConstantsOK
      <3> QED
        BY <3>2, <3>3, <3>4
    <2>2. PICK p \in Q : \A q \in Q : q <= p
      <3> HIDE DEF Q
      <3> QED
        BY <2>1, Greatest
    <2>3. PICK s \in S : p = position[s] + 1
      OBVIOUS
    <2>4. ASSUME NEW t \in S PROVE position[t] <= position[s]
      <3>1. position[t] + 1 <= position[s] + 1
        BY <2>2, <2>3
      <3> QED
        BY <1>1, <3>1
    <2> QED
      BY <2>4
  <1> QED
    BY <1>2, <1>3 DEF First, Last

LEMMA CandidateReadsInv ==
  ASSUME IInv, NEW h \in Handlers,
         \/ \E c \in Candidates : AddReads(h, c) \/ RejectReads(h, c) \/ ShortlistReads(h, c)
         \/ \E c \in Candidates, s \in Stages : MoveReads(h, c, s)
  PROVE  IInv'
  <1>1. Present \subseteq Stages
    BY DEF Present
  <1>2. ASSUME NEW c \in Candidates, AddReads(h, c) PROVE IInv'
    <2>1. First(Present) \in Stages
      BY <1>1, <1>2, FirstLast DEF AddReads, IInv
    <2> QED
      BY <1>2, <2>1, ReadApplicationInv DEF AddReads, CandidateCall
  <1>3. ASSUME NEW c \in Candidates, RejectReads(h, c) PROVE IInv'
    <2>1. RejectedStage \in Stages
      <3>1. CASE Present \cap Rejecting # {}
        <4>1. First(Present \cap Rejecting) \in Present \cap Rejecting
          BY <1>1, <3>1, FirstLast DEF IInv
        <4> QED
          BY <1>1, <3>1, <4>1 DEF RejectedStage
      <3>2. CASE Present \cap Rejecting = {}
        <4>1. Last(Present) \in Present
          BY <1>1, <1>3, FirstLast DEF RejectReads, IInv
        <4> QED
          BY <1>1, <3>2, <4>1 DEF RejectedStage
      <3> QED
        BY <3>1, <3>2
    <2> QED
      BY <1>3, <2>1, ReadApplicationInv DEF RejectReads, CandidateCall
  <1>4. ASSUME NEW c \in Candidates, ShortlistReads(h, c) PROVE IInv'
    <2>1. application[c].stage \in Stages
      BY <1>1, <1>4 DEF ShortlistReads, IInv, ReferencesHold
    <2> QED
      BY <1>4, <2>1, ReadApplicationInv DEF ShortlistReads, CandidateCall
  <1>5. ASSUME NEW c \in Candidates, NEW s \in Stages, MoveReads(h, c, s) PROVE IInv'
    BY <1>5, ReadApplicationInv DEF MoveReads, CandidateCall
  <1> QED
    BY <1>2, <1>3, <1>4, <1>5

-----------------------------------------------------------------------------
(* The invariant.                                                          *)

LEMMA InitInv == Init => IInv
  <1> SUFFICES ASSUME Init PROVE IInv
    OBVIOUS
  <1>1. PICK n \in 2..MaxStages : position = [s \in Stages |-> IF s <= n THEN s ELSE 0]
    BY DEF Init
  <1>2. n \in Nat /\ n >= 2 /\ n <= MaxStages
    BY <1>1, HiringConstantsOK
  <1>3. \A s \in Stages : position[s] = IF s <= n THEN s ELSE 0
    BY <1>1
  <1>4. \A s \in Stages : s \in Nat /\ s # 0
    BY HiringConstantsOK
  <1>5. position \in Positions
    <2>1. \A s \in Stages : (IF s <= n THEN s ELSE 0) \in 0..MaxStages
      BY <1>2, <1>4, HiringConstantsOK
    <2> QED
      BY <1>1, <2>1 DEF Positions
  <1>6. Unique(position)
    BY <1>3, <1>4 DEF Unique
  <1>7. Cardinality(Present) >= 2
    <2>1. 1 \in Present /\ 2 \in Present
      BY <1>2, <1>3, HiringConstantsOK DEF Present
    <2>2. Cardinality({1, 2}) = 2
      <3>1. IsFiniteSet({1}) /\ Cardinality({1}) = 1
        BY FS_Singleton
      <3>2. Cardinality({1} \cup {2}) = 2
        BY <3>1, FS_AddElement
      <3>3. {1, 2} = {1} \cup {2}
        OBVIOUS
      <3> QED
        BY <3>2, <3>3
    <2>3. {1, 2} \subseteq Present /\ Present \in SUBSET Stages /\ {1, 2} \in SUBSET Stages
      BY <2>1, HiringConstantsOK DEF Present
    <2>4. Cardinality({1, 2}) <= Cardinality(Present)
      BY <2>3, PresentFinite
    <2>5. Cardinality(Present) \in Nat
      BY <2>3, PresentFinite
    <2> QED
      BY <2>2, <2>4, <2>5
  <1>8. job \in Job
    <2>1. \A s \in Statuses : (IF s = "open" THEN 1 ELSE 0) \in 0..MaxCalls
      BY HiringConstantsOK
    <2>2. PICK s \in Statuses :
            job = [status |-> s, archived |-> FALSE, opened |-> IF s = "open" THEN 1 ELSE 0]
      BY DEF Init
    <2> DEFINE o == IF s = "open" THEN 1 ELSE 0
    <2>3. o \in 0..MaxCalls /\ job = [status |-> s, archived |-> FALSE, opened |-> o]
      BY <2>1, <2>2
    <2> HIDE DEF o
    <2> QED
      BY <2>3 DEF Job
  <1>9. application \in [Candidates -> Application]
    BY DEF Init, Application, Present
  <1>10. \A c \in Candidates : history[c] = <<>> /\ Len(history[c]) = 0 /\ history[c] \in Seq(Entry)
    <2>1. \A c \in Candidates : history[c] = <<>>
      BY DEF Init
    <2> QED
      BY <2>1, EmptySeq
  <1>11. history \in [Candidates -> Seq(Entry)]
    BY <1>10 DEF Init
  <1>12. \A h \in Handlers : handler[h] = Idle /\ handler[h].pc = "idle"
    BY IdleType DEF Init
  <1>13. TypeOK
    <2>1. calls \in 0..MaxCalls
      BY HiringConstantsOK DEF Init
    <2>2. handler \in [Handlers -> HandlerState]
      BY IdleType DEF Init
    <2> QED
      BY <1>5, <1>8, <1>9, <1>11, <2>1, <2>2 DEF Init, TypeOK
  <1>14. ReferencesHold
    <2>1. \A c \in Candidates : Applied(c) => application[c].stage \in Present
      BY DEF Init, Applied
    <2>2. \A c \in Candidates : 1..Len(history[c]) = {}
      BY <1>10
    <2> QED
      BY <1>6, <2>1, <2>2 DEF ReferencesHold
  <1>15. TwoStagesRemain
    BY <1>7 DEF TwoStagesRemain
  <1>16. HistoryTells /\ NobodyAhead /\ HistoryOfApplied
    <2>1. \A c \in Candidates : 1..Len(history[c]) = {} /\ 1..Len(history[c])-1 = {} /\ ~(Len(history[c]) > 0)
      BY <1>10
    <2> QED
      BY <1>12, <2>1 DEF HistoryTells, Tells, NobodyAhead, HistoryOfApplied
  <1>17. \A h \in Handlers : JobReader(h) /\ StageReader(h) /\ CandidateReader(h)
    BY <1>12 DEF JobReader, StageReader, CandidateReader, JobCall, StageCall, CandidateCall
  <1> QED
    BY <1>13, <1>14, <1>15, <1>16, <1>17 DEF IInv

LEMMA NextInv == IInv /\ [Next]_vars => IInv'
  <1> SUFFICES ASSUME IInv, [Next]_vars PROVE IInv'
    OBVIOUS
  <1>1. ASSUME NEW h \in Handlers, JobStep(h) PROVE IInv'
    BY <1>1, JobReadsInv, CommitJobInv, DeleteJobInv DEF JobStep
  <1>2. ASSUME NEW h \in Handlers, StageStep(h) PROVE IInv'
    BY <1>2, StageReadsInv, CommitStagesInv, RemoveStageInv DEF StageStep
  <1>3. ASSUME NEW h \in Handlers, CandidateStep(h) PROVE IInv'
    BY <1>3, CandidateReadsInv, AddInv, MoveInv, ShortlistInv DEF CandidateStep
  <1>4. ASSUME NEW h \in Handlers, Abort(h) PROVE IInv'
    BY <1>4, FailsInv DEF Abort
  <1>5. CASE UNCHANGED vars
    <2>1. Reading'
      BY <1>5 DEF vars, IInv, Reading, Readers, JobReader, StageReader, CandidateReader, Applied
    <2>2. calls \in 0..MaxCalls /\ calls <= calls
      BY HiringConstantsOK DEF IInv, TypeOK
    <2> QED
      BY <1>5, <2>1, <2>2, QuietInv DEF vars, IInv, TypeOK, NobodyAhead
  <1> QED
    BY <1>1, <1>2, <1>3, <1>4, <1>5 DEF Next

\* The inductive invariant: what every call without a mark still knows, and what
\* the tables keep.
THEOREM IInvHolds == Spec => []IInv
  BY InitInv, NextInv, PTL DEF Spec

\* Every variable stays in its type: what a call has read and what it will write are rows
\* of the tables, and positions stay within the limit.
THEOREM TypeCorrect == Spec => []TypeOK
  <1>1. IInv => TypeOK
    BY DEF IInv
  <1> QED
    BY <1>1, IInvHolds, PTL

\* No interleaving of removals, moves, additions and rearrangements leaves an
\* application or a history entry at a stage that is gone, or two stages at one
\* position.
THEOREM ReferencesAlwaysHold == Spec => []ReferencesHold
  <1>1. IInv => ReferencesHold
    BY DEF IInv
  <1> QED
    BY <1>1, IInvHolds, PTL

\* A job keeps two stages unless a removal has been overtaken.
THEOREM TwoStagesAlwaysRemain == Spec => []TwoStagesRemain
  <1>1. IInv => TwoStagesRemain
    BY DEF IInv
  <1> QED
    BY <1>1, IInvHolds, PTL

\* The history of an application leads to its stage unless a move has been overtaken.
THEOREM HistoryAlwaysTells == Spec => []HistoryTells
  <1>1. IInv => HistoryTells
    BY DEF IInv
  <1> QED
    BY <1>1, IInvHolds, PTL

-----------------------------------------------------------------------------
(* The lifecycle of the job.                                               *)

Lifecycle ==
    job' # job /\ "job" \notin raced' =>
        /\ job.status \in {"closed", "archived"} => job'.status \notin {"draft", "open", "paused"}
        /\ job.opened # 0 => job'.opened = job.opened
        /\ job.archived => job'.archived

LEMMA CommitKeepsLifecycle ==
  ASSUME IInv, NEW h \in Handlers, CommitJob(h), job' # job, "job" \notin raced'
  PROVE  /\ job.status \in {"closed", "archived"} => job'.status \notin {"draft", "open", "paused"}
         /\ job.opened # 0 => job'.opened = job.opened
         /\ job.archived => job'.archived
  <1> DEFINE c == handler[h]
             e == Edited(c)
  <1>1. Exists
    BY DEF CommitJob, Fails
  <1>2. /\ job' = Merged(c.read, e) /\ c.pc \in JobCall \ {"deleting"}
        /\ Ends(h, {"job"})
    BY <1>1 DEF CommitJob
  <1>3. ~c.overtaken
    BY <1>2 DEF Ends
  <1>4. /\ c.read = job
        /\ c.pc = "opening" => job.status \in {"draft", "paused"}
        /\ c.pc = "pausing" => job.status = "open"
    BY <1>2, <1>3 DEF IInv, JobReader
  <1>5. job \in Job
    BY DEF IInv, TypeOK
  <1>6. /\ c.pc = "closing" => e.status = "closed"
        /\ c.pc = "archiving" => e.status = "archived"
        /\ job.opened # 0 => e.opened = job.opened
        /\ job.archived => e.archived
    BY <1>2, <1>4, <1>5 DEF Edited, Wanted, Job
  <1> HIDE DEF e, c
  <1>7. /\ job'.status = e.status \/ job'.status = job.status
        /\ job'.opened = e.opened \/ job'.opened = job.opened
        /\ job'.archived = e.archived \/ job'.archived = job.archived
    BY <1>2, <1>4 DEF Merged
  <1>8. c.pc \in {"opening", "pausing", "closing", "archiving"}
    BY <1>2 DEF JobCall
  <1> QED
    BY <1>4, <1>5, <1>6, <1>7, <1>8

LEMMA StepKeepsLifecycle == IInv /\ [Next]_vars => Lifecycle
  <1> SUFFICES ASSUME IInv, [Next]_vars, job' # job, "job" \notin raced'
               PROVE  Lifecycle
    BY DEF Lifecycle
  <1>1. ASSUME NEW h \in Handlers, CommitJob(h) PROVE Lifecycle
    BY <1>1, CommitKeepsLifecycle DEF Lifecycle
  <1>2. ASSUME NEW h \in Handlers, DeleteJob(h) PROVE Lifecycle
    <2>1. job' = [job EXCEPT !.status = "deleted"] /\ job \in Job
      BY <1>2 DEF DeleteJob, Fails, IInv, TypeOK
    <2>2. job'.status = "deleted" /\ job'.opened = job.opened /\ job'.archived = job.archived
      BY <2>1 DEF Job
    <2> QED
      BY <2>2 DEF Lifecycle
  <1>3. PICK h \in Handlers : JobStep(h) \/ StageStep(h) \/ CandidateStep(h) \/ Abort(h)
    BY DEF Next, vars
  <1>4. ~Abort(h)
    BY DEF Abort, Fails
  <1>5. ~CandidateStep(h)
    BY DEF CandidateStep, AddReads, MoveReads, RejectReads, ShortlistReads, ReadApplication,
           Begins, Add, Move, Shortlist, Fails
  <1>6. ~StageStep(h)
    BY DEF StageStep, CreateReads, ArrangeReads, RemoveReads, ReadStages, Begins,
           CommitStages, RemoveStage, Fails
  <1>7. CommitJob(h) \/ DeleteJob(h)
    BY <1>3, <1>4, <1>5, <1>6 DEF JobStep, OpenReads, PauseReads, CloseReads, ArchiveReads,
                                  DeleteReads, ReadJob, Begins
  <1> QED
    BY <1>1, <1>2, <1>7

\* A job that is closed or archived is not opened or paused again, and its first
\* opening keeps its time, but by a call that has been overtaken.
THEOREM LifecycleIsRespected == Spec => LifecycleRespected
  <1>1. IInv /\ [Next]_vars =>
          [job' # job /\ "job" \notin raced' =>
             /\ job.status \in {"closed", "archived"} => job'.status \notin {"draft", "open", "paused"}
             /\ job.opened # 0 => job'.opened = job.opened
             /\ job.archived => job'.archived]_vars
    BY StepKeepsLifecycle DEF Lifecycle
  <1> QED
    BY <1>1, IInvHolds, PTL DEF Spec, LifecycleRespected
=============================================================================
