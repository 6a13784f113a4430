------------------------ MODULE ResumeUpload_proofs ------------------------
(***************************************************************************)
(* Proofs about ResumeUpload for any number of calls, files, uploads and   *)
(* failures.  The argument: what a call holds until it commits is its own, *)
(* numbers and candidates alike, and the unique index lets a session hold  *)
(* a resume only if it has unset the primary resumes of the candidate, so  *)
(* that a commit exchanges one primary resume for another.                 *)
(***************************************************************************)
EXTENDS ResumeUpload, FiniteSetTheorems, TLAPS

-----------------------------------------------------------------------------
(* The state of a call.                                                    *)

Alive == {"checking", "publishing"} \cup Working

LEMMA CallShape ==
  ASSUME TypeOK, NEW k \in Calls
  PROVE  /\ call[k] # Idle <=> call[k] \in CallState
         /\ call[k] # Idle <=> call[k].pc \in Alive
         /\ call[k].pc \in Working => call[k] \in CallState /\ call[k] # Idle
  <1>1. Idle.pc = "idle" /\ "idle" \notin Alive
    BY DEF Idle, Alive, Working
  <1>2. \A c \in CallState : c.pc \in Alive /\ c # Idle
    BY <1>1 DEF CallState, Alive
  <1>3. Working \subseteq Alive
    BY DEF Alive
  <1> QED
    BY <1>1, <1>2, <1>3 DEF TypeOK

\* What a call looks like that has gone on to its next file, or ended.
LEMMA OnwardShape ==
  ASSUME NEW c \in CallState
  PROVE  \/ Onward(c) = Idle
         \/ /\ Onward(c) \in CallState /\ Onward(c).pc = "checking" /\ Onward(c).todo # <<>>
            /\ Onward(c).bulk = c.bulk /\ Onward(c).named = c.named
            /\ Onward(c).candidates = c.candidates /\ Onward(c).resumes = c.resumes
            /\ Onward(c).unset = c.unset
  <1>1. CASE Len(c.todo) > 1
    <2>1. c.todo \in Seq(Files)
      BY DEF CallState
    <2>2. Tail(c.todo) \in Seq(Files) /\ Len(Tail(c.todo)) = Len(c.todo) - 1
      BY <1>1, <2>1
    <2>3. Len(c.todo) \in Nat
      BY <2>1
    <2>4. Tail(c.todo) # <<>>
      <3>1. Len(<<>>) = 0
        OBVIOUS
      <3>2. ASSUME NEW n \in Nat, n > 1 PROVE n - 1 # 0
        BY <3>2
      <3>3. Len(Tail(c.todo)) # 0
        BY <1>1, <2>2, <2>3, <3>2, Zenon
      <3> QED
        BY <3>1, <3>3, Zenon
    <2>5. Onward(c) = [c EXCEPT !.todo = Tail(c.todo), !.pc = "checking"]
      BY <1>1 DEF Onward
    <2> QED
      BY <2>2, <2>4, <2>5 DEF CallState, Working
  <1>2. CASE ~(Len(c.todo) > 1)
    BY <1>2 DEF Onward
  <1> QED
    BY <1>1, <1>2

LEMMA CleanShape ==
  ASSUME NEW c \in CallState
  PROVE  /\ Clean(c) \in CallState
         /\ Clean(c).candidates = {} /\ Clean(c).resumes = {} /\ Clean(c).unset = {}
         /\ Clean(c).todo = c.todo /\ Clean(c).bulk = c.bulk /\ Clean(c).named = c.named
         /\ Clean(c).pc = c.pc /\ Clean(c).id = c.id /\ Clean(c).candidate = c.candidate
  BY DEF Clean, CallState

\* A file at hand is a file.
LEMMA FileAtHand ==
  ASSUME TypeOK, SessionsKept, NEW k \in Calls, call[k] # Idle
  PROVE  File(k) \in Files /\ call[k].todo \in Seq(Files) /\ call[k].todo # <<>>
  <1>1. call[k].todo \in Seq(Files) /\ call[k].todo # <<>>
    BY CallShape DEF SessionsKept, SessionKept, CallState
  <1> QED
    BY <1>1 DEF File

-----------------------------------------------------------------------------
(* Steps of one call.                                                      *)

\* What such a step leaves alone and lets grow.
StepOf(k) ==
    /\ call' \in [Calls -> {Idle} \cup CallState]
    /\ \A j \in Calls \ {k} : call'[j] = call[j]
    /\ used <= used' /\ used' \in 0..MaxUploads /\ faults' \in 0..MaxFaults
    /\ leftover \subseteq leftover' /\ leftover' \subseteq Numbers
    /\ overlapped \subseteq overlapped' /\ overlapped' \subseteq Files

\* The invariant as far as the call alone is concerned.
Sound(k) == call[k] # Idle => SessionKept(call[k]) /\ Covered(call[k])

\* Another call's session stays as it was.
LEMMA SessionStays ==
  ASSUME NEW j \in Calls, SessionKept(call[j]), call'[j] = call[j],
         candidates \subseteq candidates', leftover \subseteq leftover'
  PROVE  SessionKept(call[j])'
  BY DEF SessionKept, NewResume

\* A session that holds less than before, or what it held, and the file it is at.
LEMMA CoveredStays ==
  ASSUME NEW j \in Calls, Covered(call[j]), call'[j] = call[j], UNCHANGED resumes
  PROVE  Covered(call[j])'
  BY DEF Covered, Stored, Primaries

\* What others see of a call: the numbers it holds, the candidates it holds resumes of,
\* and the file it works on.  What it holds that is new, nobody else does.
SeenApart(k) ==
    /\ Held(k)' \subseteq Held(k) \cup ((used + 1)..used')
    /\ \A r \in Session(k)' \ Session(k), j \in Calls :
          \A s \in Session(j) : r.candidate # s.candidate
    /\ \A r, s \in Session(k)' \ Session(k) : r = s
    /\ \A f \in Files \ overlapped' : k \in Missing(f)' =>
          \/ k \in Missing(f)
          \/ Missing(f) \subseteq {k} /\ \A r \in resumes : ~(r.complete /\ r.file = f)

\* A step that changes no table keeps the invariant if it does so for the call itself.
LEMMA FrameIInv ==
  ASSUME IInv, NEW k \in Calls, StepOf(k), UNCHANGED Data, Sound(k)', SeenApart(k)
  PROVE  IInv'
  <1> USE DEF Data, StepOf
  <1>0. TypeOK /\ SessionsKept /\ NumbersGivenOnce /\ PrimaryDecided /\ FileDecided
        /\ NothingHalfDone /\ Known \in candidates
    BY DEF IInv
  <1>1. TypeOK' /\ Known \in candidates'
    BY <1>0 DEF TypeOK
  <1>2. SessionsKept'
    <2> SUFFICES ASSUME NEW j \in Calls, (call[j] # Idle)' PROVE SessionKept(call[j])'
      BY DEF SessionsKept
    <2>1. CASE j = k
      BY <2>1 DEF Sound
    <2>2. CASE j # k
      BY <1>0, <2>2, SessionStays DEF SessionsKept, Idle
    <2> QED
      BY <2>1, <2>2
  <1>3. \A j \in Calls \ {k} : Session(j)' = Session(j) /\ Held(j)' = Held(j)
    BY DEF Session, Held
  <1>4. NumbersGivenOnce'
    <2>1. Stored' = Stored /\ used \in Nat /\ used' \in Nat
      BY <1>0 DEF Stored, TypeOK
    <2>2. \A r, s \in resumes' : r.id = s.id => r = s
      BY <1>0 DEF NumbersGivenOnce
    <2>3. Stored \subseteq 1..used
      BY <1>0 DEF NumbersGivenOnce
    <2>4. Stored' \subseteq 1..used'
      BY <2>1, <2>3
    <2>5. ASSUME NEW j \in Calls PROVE Held(j) \subseteq (1..used) \ Stored
      BY <1>0 DEF NumbersGivenOnce
    <2>6. ASSUME NEW j \in Calls PROVE Held(j)' \subseteq (1..used') \ Stored'
      <3>1. Held(j)' \subseteq Held(j) \cup ((used + 1)..used')
        BY <1>3 DEF SeenApart
      <3> QED
        BY <2>1, <2>3, <2>5, <3>1
    <2>7. ASSUME NEW i \in Calls, NEW j \in Calls, i # j PROVE (Held(i) \cap Held(j))' = {}
      <3>1. Held(i) \cap Held(j) = {}
        BY <1>0, <2>7 DEF NumbersGivenOnce
      <3>2. Held(i) \subseteq 1..used /\ Held(j) \subseteq 1..used
        BY <2>5
      <3>3. CASE i # k /\ j # k
        BY <1>3, <3>1, <3>3
      <3>4. CASE i = k
        BY <1>3, <2>1, <2>7, <3>1, <3>2, <3>4 DEF SeenApart
      <3>5. CASE j = k
        BY <1>3, <2>1, <2>7, <3>1, <3>2, <3>5 DEF SeenApart
      <3> QED
        BY <3>3, <3>4, <3>5
    <2> QED
      BY <2>2, <2>4, <2>6, <2>7 DEF NumbersGivenOnce
  <1>5. PrimaryDecided'
    <2>1. ASSUME NEW j \in Calls, (call[j] # Idle)' PROVE Covered(call[j])'
      <3>1. CASE j = k
        BY <2>1, <3>1 DEF Sound
      <3>2. CASE j # k
        BY <1>0, <2>1, <3>2, CoveredStays DEF PrimaryDecided, Idle
      <3> QED
        BY <3>1, <3>2
    <2>2. ASSUME NEW i \in Calls, NEW j \in Calls, NEW r \in Session(i)', NEW s \in Session(j)',
                 r.candidate = s.candidate
          PROVE  i = j /\ r = s
      <3>1. CASE r \in Session(i) /\ s \in Session(j)
        BY <1>0, <2>2, <3>1 DEF PrimaryDecided
      <3>2. CASE r \notin Session(i)
        BY <1>3, <2>2, <3>2 DEF SeenApart
      <3>3. CASE s \notin Session(j)
        BY <1>3, <2>2, <3>3 DEF SeenApart
      <3> QED
        BY <3>1, <3>2, <3>3
    <2>3. \A r \in resumes' : Primaries(r.candidate)' # {}
      BY <1>0 DEF PrimaryDecided, Primaries
    <2>4. \A r, s \in resumes' : r.primary /\ s.primary /\ r.candidate = s.candidate => r = s
      BY <1>0 DEF PrimaryDecided
    <2> QED
      BY <2>1, <2>2, <2>3, <2>4 DEF PrimaryDecided
  <1>6. FileDecided'
    <2> SUFFICES ASSUME NEW f \in Files \ overlapped'
                 PROVE  /\ \A i, j \in Missing(f)' : i = j
                        /\ \A j \in Missing(f)', r \in resumes' : ~(r.complete /\ r.file = f)
                        /\ \A r, s \in resumes' : r.complete /\ s.complete /\ r.file = f
                              /\ s.file = f => r = s
      BY DEF FileDecided
    <2>1. /\ \A i, j \in Missing(f) : i = j
          /\ \A j \in Missing(f), r \in resumes : ~(r.complete /\ r.file = f)
          /\ \A r, s \in resumes : r.complete /\ s.complete /\ r.file = f /\ s.file = f => r = s
      BY <1>0 DEF FileDecided
    <2>2. \A j \in Calls \ {k} : j \in Missing(f)' <=> j \in Missing(f)
      BY DEF Missing, File
    <2>3. Missing(f)' \subseteq Calls
      BY DEF Missing
    <2> QED
      BY <2>1, <2>2, <2>3 DEF SeenApart
  <1>7. NothingHalfDone'
    BY <1>0 DEF NothingHalfDone
  <1> QED
    BY <1>1, <1>2, <1>4, <1>5, <1>6, <1>7 DEF IInv

\* A call ends, with its session.
LEMMA EndsIInv ==
  ASSUME IInv, NEW k \in Calls, StepOf(k), UNCHANGED Data, call'[k] = Idle
  PROVE  IInv'
  <1>1. Idle.pc = "idle" /\ "idle" \notin Working
    BY DEF Idle, Working
  <1>2. Sound(k)'
    BY DEF Sound
  <1>3. Session(k)' = {} /\ Held(k)' = {}
    BY <1>1 DEF Session, Held
  <1>4. \A f \in Files : k \notin Missing(f)'
    BY <1>1 DEF Missing
  <1> QED
    BY <1>2, <1>3, <1>4, FrameIInv DEF SeenApart

\* A call turns to a file with some of what its session held.
LEMMA TurnsIInv ==
  ASSUME IInv, NEW k \in Calls, StepOf(k), UNCHANGED Data, Sound(k)',
         call'[k] # Idle, call'[k].pc \notin Working, call'[k].resumes \subseteq Session(k)
  PROVE  IInv'
  <1>1. Session(k)' \subseteq Session(k)
    BY DEF Session
  <1>2. Held(k)' \subseteq Held(k)
    BY <1>1 DEF Held
  <1>3. \A f \in Files : k \notin Missing(f)'
    BY DEF Missing
  <1> QED
    BY <1>1, <1>2, <1>3, FrameIInv DEF SeenApart

\* Becomes gives a step of the call.
LEMMA BecomesStep ==
  ASSUME IInv, NEW k \in Calls, NEW new \in {Idle} \cup CallState, Becomes(k, new)
  PROVE  /\ call' \in [Calls -> {Idle} \cup CallState]
         /\ call'[k] = new
         /\ \A j \in Calls \ {k} : call'[j] = call[j]
  BY DEF Becomes, IInv, TypeOK

\* What stays in the session of a bulk upload after a failure.
LEMMA FailsIInv ==
  ASSUME IInv, NEW k \in Calls, call[k] # Idle, NEW broken \in BOOLEAN, Fails(k, broken),
         broken \/ call[k].pc # "inserting",
         UNCHANGED <<Data, used, overlapped>>, faults' \in 0..MaxFaults
  PROVE  IInv'
  <1>0. TypeOK /\ SessionKept(call[k]) /\ Covered(call[k]) /\ call[k] \in CallState
    BY CallShape DEF IInv, SessionsKept, PrimaryDecided
  <1> DEFINE kept == IF broken THEN [Clean(call[k]) EXCEPT !.broken = TRUE] ELSE call[k]
  <1>1. /\ kept \in CallState /\ kept.bulk = call[k].bulk /\ kept.named = call[k].named
        /\ \/ kept = call[k] /\ ~broken
           \/ kept.candidates = {} /\ kept.resumes = {} /\ kept.unset = {}
    <2>1. CASE broken
      <3> DEFINE c == Clean(call[k])
      <3>1. /\ c \in CallState /\ c.candidates = {} /\ c.resumes = {} /\ c.unset = {}
            /\ c.bulk = call[k].bulk /\ c.named = call[k].named
        BY <1>0, CleanShape
      <3>2. kept = [c EXCEPT !.broken = TRUE]
        BY <2>1
      <3> HIDE DEF c, kept
      <3> QED
        BY <3>1, <3>2 DEF CallState
    <2>2. CASE ~broken
      BY <1>0, <2>2
    <2> QED
      BY <2>1, <2>2
  <1>2. /\ Becomes(k, IF call[k].bulk THEN Onward(kept) ELSE Idle)
        /\ leftover' = IF call[k].bulk THEN leftover \cup Flushed(kept) ELSE leftover
    BY DEF Fails
  <1> HIDE DEF kept
  <1>3. Flushed(kept) \subseteq Numbers
    BY <1>1 DEF Flushed, CallState, Resume
  <1>4. leftover \subseteq leftover' /\ leftover' \subseteq Numbers
    BY <1>0, <1>2, <1>3 DEF TypeOK
  <1>5. used' = used /\ used \in 0..MaxUploads /\ used <= used' /\ overlapped' = overlapped
        /\ overlapped \subseteq Files
    BY <1>0, UploadConstantsOK DEF TypeOK
  <1>6. CASE ~call[k].bulk \/ Onward(kept) = Idle
    <2>1. Becomes(k, Idle)
      BY <1>2, <1>6
    <2> QED
      BY <1>4, <1>5, <2>1, BecomesStep, EndsIInv DEF StepOf
  <1>7. CASE call[k].bulk /\ Onward(kept) # Idle
    <2> DEFINE new == Onward(kept)
    <2>1. /\ new \in CallState /\ new.pc = "checking" /\ new.todo # <<>>
          /\ new.bulk /\ ~new.named
          /\ new.candidates = kept.candidates /\ new.resumes = kept.resumes
          /\ new.unset = kept.unset
      BY <1>0, <1>1, <1>7, OnwardShape DEF SessionKept
    <2>2. Becomes(k, new)
      BY <1>2, <1>7
    <2> HIDE DEF new
    <2>3. call'[k] = new /\ StepOf(k)
      BY <1>4, <1>5, <2>1, <2>2, BecomesStep DEF StepOf
    <2>4. kept.candidates \subseteq leftover' /\ \A r \in kept.resumes : r.id \in leftover'
      BY <1>2, <1>7 DEF Flushed
    <2>5. \A r \in kept.resumes :
             /\ r.candidate \in candidates \cup kept.candidates
             /\ r.candidate = r.id /\ r.primary /\ ~r.complete
      BY <1>0, <1>1, <1>7, UploadConstantsOK DEF SessionKept, NewResume, Working
    <2>6. \A r, s \in kept.resumes : r.id = s.id => r = s
      BY <1>0, <1>1 DEF SessionKept
    <2>7. new.pc \notin Working /\ new.pc # "storing" /\ new.pc # "inserting" /\ new # Idle
      BY <2>1 DEF Working, Idle
    <2>8. SessionKept(call[k])'
      <3>1. candidates' = candidates
        BY DEF Data
      <3> QED
        BY <2>1, <2>3, <2>4, <2>5, <2>6, <2>7, <3>1 DEF SessionKept
    <2>9. Covered(call[k])'
      <3>1. resumes' = resumes
        BY DEF Data
      <3>2. /\ kept.unset \subseteq Stored
            /\ \A r \in kept.resumes : Primaries(r.candidate) \subseteq kept.unset
            /\ \A r \in resumes : r.id \in kept.unset =>
                  \E s \in kept.resumes : s.candidate = r.candidate
        BY <1>0, <1>1 DEF Covered
      <3> QED
        BY <2>1, <2>3, <3>1, <3>2 DEF Covered, Stored, Primaries
    <2>10. kept.resumes \subseteq Session(k)
      BY <1>1 DEF Session
    <2> QED
      BY <2>1, <2>3, <2>7, <2>8, <2>9, <2>10, TurnsIInv DEF Sound
  <1> QED
    BY <1>6, <1>7

\* A call leaves a file it is done with.
LEMMA OnwardIInv ==
  ASSUME IInv, NEW k \in Calls, call[k].pc \in {"checking", "publishing"},
         Becomes(k, Onward(call[k])), UNCHANGED <<Data, used, leftover, overlapped, faults>>
  PROVE  IInv'
  <1>0. /\ TypeOK /\ call[k] # Idle /\ call[k] \in CallState
        /\ SessionKept(call[k]) /\ Covered(call[k])
    BY CallShape DEF IInv, SessionsKept, PrimaryDecided, Alive
  <1>1. /\ used \in 0..MaxUploads /\ used <= used' /\ faults \in 0..MaxFaults
        /\ leftover \subseteq Numbers /\ overlapped \subseteq Files
    BY <1>0, UploadConstantsOK DEF TypeOK
  <1> DEFINE new == Onward(call[k])
  <1>2. \/ new = Idle
        \/ /\ new \in CallState /\ new.pc = "checking" /\ new.todo # <<>>
           /\ new.bulk = call[k].bulk /\ new.named = call[k].named
           /\ new.candidates = call[k].candidates /\ new.resumes = call[k].resumes
           /\ new.unset = call[k].unset
    BY <1>0, OnwardShape
  <1> HIDE DEF new
  <1>3. Becomes(k, new)
    BY DEF new
  <1>4. StepOf(k) /\ call'[k] = new
    BY <1>1, <1>2, <1>3, BecomesStep DEF StepOf
  <1>5. CASE new = Idle
    BY <1>4, <1>5, EndsIInv
  <1>6. CASE new # Idle
    <2>1. new.pc \notin Working /\ new.pc # "storing" /\ new.pc # "inserting"
          /\ call[k].pc \notin Working /\ call[k].pc # "storing" /\ call[k].pc # "inserting"
      BY <1>2, <1>6 DEF Working
    <2>2. SessionKept(call[k])'
      BY <1>0, <1>2, <1>4, <1>6, <2>1 DEF SessionKept, Data
    <2>3. Covered(call[k])'
      BY <1>0, <1>2, <1>4, <1>6, <2>1 DEF Covered, Stored, Primaries, Data
    <2> QED
      BY <1>0, <1>2, <1>4, <1>6, <2>1, <2>2, <2>3, TurnsIInv DEF Sound, Session
  <1> QED
    BY <1>5, <1>6

-----------------------------------------------------------------------------
(* The actions that commit nothing.                                        *)

LEMMA CallFacts ==
  ASSUME IInv, NEW k \in Calls
  PROVE  /\ TypeOK /\ Known \in candidates
         /\ used \in 0..MaxUploads /\ used <= used /\ faults \in 0..MaxFaults
         /\ leftover \subseteq Numbers /\ overlapped \subseteq Files
         /\ call[k] # Idle =>
               /\ call[k] \in CallState /\ SessionKept(call[k]) /\ Covered(call[k])
               /\ File(k) \in Files
         /\ call[k].pc \in Alive => call[k] # Idle
  BY CallShape, FileAtHand, UploadConstantsOK DEF IInv, SessionsKept, PrimaryDecided, TypeOK

LEMMA BeginIInv ==
  ASSUME IInv, NEW k \in Calls, NEW files \in Requests, NEW job \in BOOLEAN,
         NEW named \in BOOLEAN, Begin(k, files, job, named)
  PROVE  IInv'
  <1> DEFINE new == [pc |-> "checking", todo |-> files, bulk |-> Len(files) > 1, job |-> job,
                     named |-> named, candidate |-> Known, id |-> 0, seen |-> {},
                     candidates |-> {}, resumes |-> {}, unset |-> {}, broken |-> FALSE]
  <1>1. files \in Seq(Files) /\ files # <<>>
    <2>1. CASE files \in {<<f>> : f \in Files}
      <3>1. PICK f \in Files : files = <<f>>
        BY <2>1
      <3> QED
        BY <3>1
    <2>2. CASE files \in Files \X Files
      <3>1. PICK f \in Files, g \in Files : files = <<f, g>>
        BY <2>2
      <3> QED
        BY <3>1
    <2> QED
      BY <2>1, <2>2 DEF Requests
  <1>2. new \in CallState
    BY <1>1 DEF CallState
  <1>3. /\ new.pc = "checking" /\ new.todo # <<>> /\ (new.bulk => ~new.named)
        /\ new.candidates = {} /\ new.resumes = {} /\ new.unset = {}
    BY <1>1 DEF Begin
  <1>4. Becomes(k, new) /\ UNCHANGED <<Data, used, leftover, overlapped, faults>>
    BY DEF Begin
  <1> HIDE DEF new
  <1>5. StepOf(k) /\ call'[k] = new
    BY <1>2, <1>4, BecomesStep, CallFacts DEF StepOf
  <1>6. new # Idle /\ new.pc \notin Working /\ new.pc # "storing"
    BY <1>3 DEF Idle, Working
  <1>7. SessionKept(call[k])'
    BY <1>3, <1>5, <1>6 DEF SessionKept
  <1>8. Covered(call[k])'
    BY <1>3, <1>5, <1>6 DEF Covered
  <1> QED
    BY <1>3, <1>4, <1>5, <1>6, <1>7, <1>8, TurnsIInv DEF Sound

LEMMA CheckKnownIInv ==
  ASSUME IInv, NEW k \in Calls, CheckKnown(k)
  PROVE  IInv'
  <1>1. call[k].pc = "checking" /\ UNCHANGED <<Data, used, overlapped, faults>> /\ call[k] # Idle
    BY CallFacts DEF CheckKnown, Alive
  <1>2. CASE Becomes(k, Onward(call[k])) /\ UNCHANGED leftover
    BY <1>1, <1>2, OnwardIInv
  <1>3. CASE Fails(k, FALSE)
    BY <1>1, <1>3, CallFacts, FailsIInv
  <1>4. CASE Fails(k, TRUE)
    BY <1>1, <1>4, CallFacts, FailsIInv
  <1> QED
    BY <1>2, <1>3, <1>4 DEF CheckKnown

LEMMA CheckNewIInv ==
  ASSUME IInv, NEW k \in Calls, CheckNew(k)
  PROVE  IInv'
  <1>0. /\ call[k].pc = "checking" /\ Matches(k) = {} /\ used < MaxUploads /\ used' = used + 1
        /\ overlapped' = IF Missing(File(k)) # {} THEN overlapped \cup {File(k)} ELSE overlapped
        /\ UNCHANGED <<Data, leftover, faults>>
    BY DEF CheckNew
  <1>1. /\ TypeOK /\ Known \in candidates /\ leftover \subseteq Numbers
        /\ call[k] # Idle /\ call[k] \in CallState /\ SessionKept(call[k]) /\ Covered(call[k])
        /\ File(k) \in Files /\ faults \in 0..MaxFaults /\ overlapped \subseteq Files
    BY <1>0, CallFacts DEF Alive
  <1>2. used' \in Numbers /\ used' \in 0..MaxUploads /\ used <= used' /\ used \in Nat
    BY <1>0, <1>1, UploadConstantsOK DEF TypeOK, Numbers
  <1> DEFINE cand == IF call[k].named THEN Known ELSE used + 1
             new == [call[k] EXCEPT !.pc = IF call[k].job THEN "associating" ELSE "starting",
                                    !.id = used + 1, !.candidate = cand,
                                    !.candidates = @ \cup ({cand} \ {Known})]
  <1>3. Becomes(k, new)
    BY <1>0 DEF CheckNew
  <1>4. cand \in {Known} \cup Numbers /\ {cand} \ {Known} \subseteq Numbers
    BY <1>0, <1>2
  <1>5. /\ new \in CallState /\ new.pc \in {"associating", "starting"} /\ new.id = used + 1
        /\ new.candidate = cand /\ new.candidates = call[k].candidates \cup ({cand} \ {Known})
        /\ new.todo = call[k].todo /\ new.bulk = call[k].bulk /\ new.named = call[k].named
        /\ new.resumes = call[k].resumes /\ new.unset = call[k].unset
    <2> HIDE DEF cand
    <2> QED
      BY <1>0, <1>1, <1>2, <1>4 DEF CallState, Working
  <1> HIDE DEF new
  <1>6. StepOf(k) /\ call'[k] = new
    BY <1>0, <1>1, <1>2, <1>3, <1>5, BecomesStep DEF StepOf
  <1>7. new # Idle /\ new.pc \in Working /\ new.pc # "storing" /\ new.pc # "inserting"
        /\ "checking" \notin Working
    BY <1>5 DEF Idle, Working
  <1>8. \A r \in call[k].resumes : r.id \in 1..used
    BY <1>1 DEF IInv, NumbersGivenOnce, Held, Session
  <1>9. \A r \in call[k].resumes : r.id # used + 1
    BY <1>2, <1>8
  <1>10. SessionKept(call[k])'
    <2>1. new.todo # <<>> /\ (new.bulk => ~new.named)
      BY <1>1, <1>5 DEF SessionKept
    <2>2. /\ new.id \in Numbers /\ new.candidate = (IF new.named THEN Known ELSE new.id)
          /\ new.candidate \in candidates \cup new.candidates
      BY <1>0, <1>1, <1>2, <1>5
    <2>3. \A x \in new.candidates : x \in leftover \/ (new.pc \in Working /\ x = new.candidate)
      BY <1>0, <1>1, <1>5, <1>7 DEF SessionKept
    <2>4. \A r \in new.resumes :
             /\ r.candidate \in candidates \cup new.candidates
             /\ new.bulk /\ r.id \in leftover /\ r.candidate = r.id /\ r.primary /\ ~r.complete
             /\ r.id # new.id
      <3> HIDE DEF cand
      <3> QED
        BY <1>0, <1>1, <1>5, <1>9 DEF SessionKept
    <2>5. \A r, s \in new.resumes : r.id = s.id => r = s
      BY <1>1, <1>5 DEF SessionKept
    <2> QED
      BY <1>0, <1>6, <1>7, <2>1, <2>2, <2>3, <2>4, <2>5 DEF SessionKept, Data
  <1>11. Covered(call[k])'
    BY <1>0, <1>1, <1>5, <1>6, <1>7 DEF Covered, Stored, Primaries, Data
  <1>12. SeenApart(k)
    <2>1. Session(k)' = Session(k)
      BY <1>1, <1>5, <1>6, <1>7 DEF Session
    <2>2. Held(k)' \subseteq Held(k) \cup ((used + 1)..used')
      BY <1>0, <1>2, <1>5, <1>6, <2>1 DEF Held
    <2>3. ASSUME NEW f \in Files \ overlapped', k \in Missing(f)'
          PROVE  Missing(f) = {} /\ \A r \in resumes : ~(r.complete /\ r.file = f)
      <3>1. f = File(k)
        BY <1>5, <1>6, <2>3 DEF Missing, File
      <3> QED
        BY <1>0, <2>3, <3>1 DEF Matches
    <2> QED
      BY <2>1, <2>2, <2>3 DEF SeenApart
  <1> QED
    BY <1>0, <1>6, <1>10, <1>11, <1>12, FrameIInv DEF Sound

\* A call goes on with its file and holds what it held.
LEMMA WorksOnIInv ==
  ASSUME IInv, NEW k \in Calls, StepOf(k), UNCHANGED Data, Covered(call[k])', call'[k] # Idle,
         call[k].pc \in Working \ {"storing"}, call'[k].pc \in Working \ {"storing"},
         call'[k].todo = call[k].todo, call'[k].bulk = call[k].bulk,
         call'[k].named = call[k].named, call'[k].id = call[k].id,
         call'[k].candidate = call[k].candidate, call'[k].candidates = call[k].candidates,
         call'[k].resumes = call[k].resumes
  PROVE  IInv'
  <1>1. call[k] # Idle /\ SessionKept(call[k])
    BY CallFacts DEF Alive
  <1>2. SessionKept(call[k])'
    BY <1>1 DEF SessionKept, Data, StepOf
  <1>3. Session(k)' = Session(k) /\ Held(k)' = Held(k)
    BY <1>1 DEF Session, Held
  <1>4. \A f \in Files : k \in Missing(f)' => k \in Missing(f)
    BY DEF Missing, File
  <1>5. SeenApart(k)
    BY <1>3, <1>4 DEF SeenApart
  <1> QED
    BY <1>2, <1>5, FrameIInv DEF Sound

LEMMA PrimariesStored == \A c : Primaries(c) \subseteq Stored
  BY DEF Primaries, Stored

LEMMA StoredNumbers ==
  ASSUME TypeOK
  PROVE  Stored \subseteq Numbers
  BY DEF TypeOK, Stored, Resume

LEMMA StartUnsetIInv ==
  ASSUME IInv, NEW k \in Calls, StartUnset(k)
  PROVE  IInv'
  <1> DEFINE seen == Primaries(call[k].candidate)
             new == [call[k] EXCEPT !.pc = "unsetting", !.seen = seen]
  <1>0. /\ call[k].pc = "starting" /\ Becomes(k, new)
        /\ UNCHANGED <<Data, used, leftover, overlapped, faults>>
    BY DEF StartUnset
  <1>1. /\ call[k].pc \in Working \ {"storing"} /\ "unsetting" \in Working \ {"storing"}
        /\ call[k] # Idle /\ call[k] \in CallState /\ Covered(call[k])
    BY <1>0, CallFacts DEF Working, Alive
  <1>2. seen \subseteq Numbers
    BY CallFacts, PrimariesStored, StoredNumbers
  <1> HIDE DEF seen
  <1>3. /\ new \in CallState /\ new.pc = "unsetting" /\ new.todo = call[k].todo
        /\ new.bulk = call[k].bulk /\ new.named = call[k].named /\ new.id = call[k].id
        /\ new.candidate = call[k].candidate /\ new.candidates = call[k].candidates
        /\ new.resumes = call[k].resumes /\ new.unset = call[k].unset
    BY <1>1, <1>2 DEF CallState
  <1> HIDE DEF new
  <1>4. StepOf(k) /\ call'[k] = new /\ new # Idle
    BY <1>0, <1>3, BecomesStep, CallFacts DEF StepOf, Idle
  <1>5. Covered(call[k])'
    BY <1>0, <1>1, <1>3, <1>4 DEF Covered, Stored, Primaries, Data
  <1> QED
    BY <1>0, <1>1, <1>3, <1>4, <1>5, WorksOnIInv

LEMMA FinishUnsetIInv ==
  ASSUME IInv, NEW k \in Calls, FinishUnset(k)
  PROVE  IInv'
  <1> DEFINE gone == call[k].seen \cap Primaries(call[k].candidate)
             new == [call[k] EXCEPT !.pc = "inserting", !.seen = {}, !.unset = @ \cup gone]
  <1>0. /\ call[k].pc = "unsetting" /\ Becomes(k, new)
        /\ UNCHANGED <<Data, used, leftover, overlapped, faults>>
    BY DEF FinishUnset
  <1>1. /\ call[k].pc \in Working \ {"storing"} /\ "inserting" \in Working \ {"storing"}
        /\ call[k] # Idle /\ call[k] \in CallState /\ Covered(call[k])
    BY <1>0, CallFacts DEF Working, Alive
  <1>2. gone \subseteq Primaries(call[k].candidate) /\ gone \subseteq Stored
        /\ gone \subseteq Numbers
    BY CallFacts, PrimariesStored, StoredNumbers
  <1> HIDE DEF gone
  <1>3. /\ new \in CallState /\ new.pc = "inserting" /\ new.todo = call[k].todo
        /\ new.bulk = call[k].bulk /\ new.named = call[k].named /\ new.id = call[k].id
        /\ new.candidate = call[k].candidate /\ new.candidates = call[k].candidates
        /\ new.resumes = call[k].resumes /\ new.unset = call[k].unset \cup gone
    BY <1>1, <1>2 DEF CallState
  <1> HIDE DEF new
  <1>4. StepOf(k) /\ call'[k] = new /\ new # Idle
    BY <1>0, <1>3, BecomesStep, CallFacts DEF StepOf, Idle
  <1>5. \A r \in resumes : r.id \in gone => r.candidate = call[k].candidate
    BY <1>2 DEF Primaries, IInv, NumbersGivenOnce
  <1>6. Covered(call[k])'
    <2>1. UNCHANGED resumes
      BY <1>0 DEF Data
    <2>2. new.unset \subseteq Stored
      BY <1>1, <1>2, <1>3 DEF Covered
    <2>3. \A r \in new.resumes : Primaries(r.candidate) \subseteq new.unset
      BY <1>1, <1>3 DEF Covered
    <2>4. \A r \in resumes : r.id \in new.unset =>
             r.candidate = call[k].candidate \/ \E s \in new.resumes : s.candidate = r.candidate
      BY <1>0, <1>1, <1>3, <1>5 DEF Covered
    <2> QED
      BY <1>3, <1>4, <2>1, <2>2, <2>3, <2>4 DEF Covered, Stored, Primaries
  <1> QED
    BY <1>0, <1>1, <1>3, <1>4, <1>6, WorksOnIInv

\* The unique index lets a session have a resume of a candidate only once it has unset
\* the primary ones, and when no other session has one.
LEMMA InsertResumeIInv ==
  ASSUME IInv, NEW k \in Calls, InsertResume(k)
  PROVE  IInv'
  <1> DEFINE row == NewResume(call[k], FALSE)
             new == [call[k] EXCEPT !.pc = "storing", !.resumes = @ \cup {row}]
  <1>0. /\ call[k].pc = "inserting" /\ Undecided(k) = {}
        /\ UNCHANGED <<Data, used, overlapped, faults>>
    BY DEF InsertResume
  <1>1. /\ call[k].pc \in Working /\ "storing" \in Working /\ call[k] # Idle
        /\ call[k] \in CallState /\ SessionKept(call[k]) /\ Covered(call[k]) /\ File(k) \in Files
    BY <1>0, CallFacts DEF Working, Alive
  <1>2. CASE ~(Primaries(call[k].candidate) \subseteq call[k].unset)
    BY <1>0, <1>1, <1>2, FailsIInv, CallFacts DEF InsertResume
  <1>3. CASE Primaries(call[k].candidate) \subseteq call[k].unset
    <2>0. Becomes(k, new) /\ UNCHANGED leftover
      BY <1>3 DEF InsertResume
    <2>1. /\ row \in Resume /\ row.id = call[k].id /\ row.candidate = call[k].candidate
          /\ row = [id |-> call[k].id, candidate |-> call[k].candidate, file |-> Head(call[k].todo),
                    primary |-> TRUE, complete |-> FALSE]
      BY <1>1 DEF NewResume, Resume, File, SessionKept, CallState
    <2> HIDE DEF row
    <2>2. /\ new \in CallState /\ new.pc = "storing" /\ new.todo = call[k].todo
          /\ new.bulk = call[k].bulk /\ new.named = call[k].named /\ new.id = call[k].id
          /\ new.candidate = call[k].candidate /\ new.candidates = call[k].candidates
          /\ new.resumes = call[k].resumes \cup {row} /\ new.unset = call[k].unset
      BY <1>1, <2>1 DEF CallState
    <2> HIDE DEF new
    <2>3. StepOf(k) /\ call'[k] = new /\ new # Idle
      BY <1>0, <2>0, <2>2, BecomesStep, CallFacts DEF StepOf, Idle
    <2>4. /\ UNCHANGED <<candidates, resumes, leftover>>
          /\ \A r \in call[k].resumes : call[k].bulk /\ r.id \in leftover /\ r.candidate = r.id
                /\ r.primary /\ ~r.complete /\ r.id # call[k].id
      BY <1>0, <1>1, <2>0 DEF SessionKept, Data
    <2>5. SessionKept(call[k])'
      <3>1. NewResume(new, FALSE) = row
        BY <2>1, <2>2 DEF NewResume
      <3>2. \A r \in new.resumes : r.candidate \in candidates \cup new.candidates
        BY <1>1, <2>1, <2>2 DEF SessionKept
      <3>3. \A r \in new.resumes : r = row \/
               /\ new.bulk /\ r.id \in leftover /\ r.candidate = r.id /\ r.primary /\ ~r.complete
               /\ r.id # new.id
        BY <2>2, <2>4
      <3>4. \A r, s \in new.resumes : r.id = s.id => r = s
        <4>1. \A r, s \in call[k].resumes : r.id = s.id => r = s
          BY <1>1 DEF SessionKept
        <4>2. \A r \in call[k].resumes : r.id # row.id
          BY <2>1, <2>4
        <4> QED
          BY <2>2, <4>1, <4>2
      <3>5. \A x \in new.candidates : x \in leftover \/ x = new.candidate
        BY <1>1, <2>2 DEF SessionKept
      <3>6. /\ new.todo # <<>> /\ (new.bulk => ~new.named) /\ new.id \in Numbers
            /\ new.candidate = (IF new.named THEN Known ELSE new.id)
            /\ new.candidate \in candidates \cup new.candidates
        BY <1>1, <2>2 DEF SessionKept
      <3>7. SessionKept(new)
        BY <1>1, <2>2, <3>1, <3>2, <3>3, <3>4, <3>5, <3>6 DEF SessionKept
      <3> QED
        BY <2>3, <2>4, <3>7 DEF SessionKept, NewResume
    <2>6. Covered(call[k])'
      BY <1>0, <1>1, <1>3, <2>1, <2>2, <2>3, <2>4 DEF Covered, Stored, Primaries
    <2>7. SeenApart(k)
      <3>1. Session(k) = call[k].resumes /\ Session(k)' = call[k].resumes \cup {row}
        BY <1>1, <2>2, <2>3 DEF Session
      <3>2. Held(k)' = Held(k)
        BY <1>1, <2>1, <2>2, <2>3, <3>1 DEF Held
      <3>3. \A f \in Files : k \in Missing(f)' => k \in Missing(f)
        BY <1>1, <2>2, <2>3 DEF Missing, File
      <3>4. ASSUME NEW j \in Calls, NEW s \in Session(j) PROVE s.candidate # row.candidate
        <4>1. CASE j = k
          <5>1. s.candidate = s.id /\ s.id # call[k].id /\ ~call[k].named
            BY <1>1, <2>4, <3>1, <3>4, <4>1 DEF SessionKept
          <5>2. call[k].candidate = call[k].id
            BY <1>1, <5>1 DEF SessionKept
          <5> QED
            BY <2>1, <5>1, <5>2
        <4>2. CASE j # k
          BY <1>0, <2>1, <3>4, <4>2 DEF Undecided, Session
        <4> QED
          BY <4>1, <4>2
      <3> QED
        BY <3>1, <3>2, <3>3, <3>4 DEF SeenApart
    <2> QED
      BY <1>0, <2>3, <2>5, <2>6, <2>7, FrameIInv DEF Sound
  <1> QED
    BY <1>2, <1>3

LEMMA FaultIInv ==
  ASSUME IInv, NEW k \in Calls, Fault(k)
  PROVE  IInv'
  <1>1. call[k] # Idle /\ UNCHANGED <<Data, used, overlapped>>
    BY CallFacts DEF Fault, Alive
  <1>2. faults' \in 0..MaxFaults
    BY CallFacts, UploadConstantsOK DEF Fault
  <1>3. CASE call[k].pc \in {"associating", "storing"} /\ Fails(k, FALSE)
    BY <1>1, <1>2, <1>3, FailsIInv
  <1>4. CASE Fails(k, TRUE)
    BY <1>1, <1>2, <1>4, FailsIInv
  <1> QED
    BY <1>3, <1>4 DEF Fault

LEMMA DieIInv ==
  ASSUME IInv, NEW k \in Calls, Die(k)
  PROVE  IInv'
  <1>1. Becomes(k, Idle) /\ UNCHANGED <<Data, used, leftover, overlapped>>
    BY DEF Die
  <1>2. faults' \in 0..MaxFaults
    BY CallFacts, UploadConstantsOK DEF Die
  <1>3. StepOf(k) /\ call'[k] = Idle
    BY <1>1, <1>2, BecomesStep, CallFacts DEF StepOf
  <1> QED
    BY <1>1, <1>3, EndsIInv

LEMMA EnqueueIInv ==
  ASSUME IInv, NEW k \in Calls, Enqueue(k)
  PROVE  IInv'
  BY OnwardIInv DEF Enqueue

-----------------------------------------------------------------------------
(* The actions that commit.                                                *)

\* A committed resume after the commit of c.
Kept(q, c) == [q EXCEPT !.primary = q.primary /\ q.id \notin c.unset]

LEMMA KeptShape ==
  ASSUME NEW q \in Resume, NEW c
  PROVE  /\ Kept(q, c) \in Resume
         /\ Kept(q, c).id = q.id /\ Kept(q, c).candidate = q.candidate
         /\ Kept(q, c).file = q.file /\ Kept(q, c).complete = q.complete
         /\ Kept(q, c).primary <=> q.primary /\ q.id \notin c.unset
  BY DEF Kept, Resume

LEMMA CommitRows ==
  ASSUME TypeOK, NEW c \in CallState, Commit(c)
  PROVE  /\ candidates' = candidates \cup c.candidates
         /\ \A r \in resumes' : r \in c.resumes \/ \E q \in resumes : r = Kept(q, c)
         /\ \A q \in resumes : Kept(q, c) \in resumes'
         /\ c.resumes \subseteq resumes'
         /\ resumes \subseteq Resume /\ c.resumes \subseteq Resume /\ resumes' \subseteq Resume
  <1>1. resumes' = {Kept(q, c) : q \in resumes} \cup c.resumes
    BY DEF Commit, Kept
  <1>2. resumes \subseteq Resume /\ c.resumes \subseteq Resume
    BY DEF TypeOK, CallState
  <1>3. \A q \in resumes : Kept(q, c) \in Resume
    BY <1>2, KeptShape
  <1>4. candidates' = candidates \cup c.candidates
    BY DEF Commit
  <1> HIDE DEF Commit
  <1> QED
    BY <1>1, <1>2, <1>3, <1>4

\* What a commit makes visible is what the session of the call holds, with or without the
\* file of the resume at hand.
Commits(k, c) ==
    /\ c \in CallState /\ Commit(c)
    /\ c.candidates = call[k].candidates /\ c.unset = call[k].unset
    /\ \A r \in c.resumes : \E q \in Session(k) :
          r.id = q.id /\ r.candidate = q.candidate /\ r.primary
    /\ \A q \in Session(k) : \E r \in c.resumes : r.id = q.id /\ r.candidate = q.candidate
    /\ \A r, s \in c.resumes : r.id = s.id => r = s

\* The call keeps nothing, but for the number of a resume not inserted yet.
LeavesClean(k) ==
    /\ call'[k] # Idle
    /\ call'[k].candidates = {} /\ call'[k].resumes = {} /\ call'[k].unset = {}
    /\ call'[k].pc \in Working => call'[k].id = call[k].id /\ call[k].pc \in Working \ {"storing"}

LEMMA CommitIInv ==
  ASSUME IInv, NEW k \in Calls, call[k].pc \in {"associating", "storing"}, NEW c, Commits(k, c),
         StepOf(k), used' = used, LeavesClean(k), SessionKept(call[k])',
         applied' \subseteq candidates', FileDecided', NothingHalfDone'
  PROVE  IInv'
  <1> USE DEF StepOf
  <1>0. /\ TypeOK /\ SessionsKept /\ NumbersGivenOnce /\ PrimaryDecided /\ Known \in candidates
        /\ call[k] # Idle /\ call[k] \in CallState /\ SessionKept(call[k]) /\ Covered(call[k])
    BY CallFacts DEF IInv, Alive, Working
  <1>1. /\ candidates' = candidates \cup c.candidates
        /\ \A r \in resumes' : r \in c.resumes \/ \E q \in resumes : r = Kept(q, c)
        /\ \A q \in resumes : Kept(q, c) \in resumes'
        /\ c.resumes \subseteq resumes'
        /\ resumes \subseteq Resume /\ resumes' \subseteq Resume
    BY <1>0, CommitRows DEF Commits
  <1>2. \A q \in resumes :
           /\ Kept(q, c) \in Resume
           /\ Kept(q, c).id = q.id /\ Kept(q, c).candidate = q.candidate
           /\ Kept(q, c).primary <=> q.primary /\ q.id \notin c.unset
    BY <1>1, KeptShape
  <1>3. /\ c.candidates = call[k].candidates /\ c.unset = call[k].unset
        /\ \A r \in c.resumes : \E q \in Session(k) :
              r.id = q.id /\ r.candidate = q.candidate /\ r.primary
        /\ \A q \in Session(k) : \E r \in c.resumes : r.id = q.id /\ r.candidate = q.candidate
        /\ \A r, s \in c.resumes : r.id = s.id => r = s
        /\ Session(k) = call[k].resumes
    BY <1>0 DEF Commits, Session
  <1>4. /\ \A j \in Calls \ {k} : Session(j)' = Session(j) /\ Held(j)' = Held(j)
        /\ Session(k)' = {}
    BY DEF Session, Held, LeavesClean
  <1>5. \A j \in Calls : \A r \in Session(j) : r.id \in Held(j) /\ r.id \notin Stored
    BY <1>0 DEF Held, NumbersGivenOnce
  <1>6. \A r \in c.resumes : r.id \in Held(k) /\ r.id \notin Stored
    BY <1>3, <1>5
  <1>7. Stored' = Stored \cup {r.id : r \in c.resumes}
    <2>1. ASSUME NEW n \in Stored' PROVE n \in Stored \cup {r.id : r \in c.resumes}
      <3>1. PICK r \in resumes' : n = r.id
        BY <2>1 DEF Stored
      <3> QED
        BY <1>1, <1>2, <3>1 DEF Stored
    <2>2. ASSUME NEW n \in Stored PROVE n \in Stored'
      <3>1. PICK q \in resumes : n = q.id
        BY <2>2 DEF Stored
      <3> QED
        BY <1>1, <1>2, <3>1 DEF Stored
    <2>3. ASSUME NEW r \in c.resumes PROVE r.id \in Stored'
      BY <1>1 DEF Stored
    <2> QED
      BY <2>1, <2>2, <2>3
  <1> HIDE DEF Kept
  <1>8. TypeOK' /\ Known \in candidates'
    <2>1. \A r \in resumes' : r.candidate \in candidates'
      <3>1. \A q \in resumes : q.candidate \in candidates
        BY <1>0 DEF TypeOK
      <3>2. \A q \in Session(k) : q.candidate \in candidates'
        <4>1. \A q \in call[k].resumes : q.candidate \in candidates \cup call[k].candidates
          BY <1>0 DEF SessionKept
        <4> QED
          BY <1>1, <1>3, <4>1
      <3> QED
        BY <1>1, <1>2, <1>3, <3>1, <3>2
    <2>2. candidates' \subseteq {Known} \cup Numbers
      BY <1>0, <1>1, <1>3 DEF TypeOK, CallState
    <2> QED
      BY <1>0, <1>1, <2>1, <2>2 DEF TypeOK
  <1>9. SessionsKept'
    <2> SUFFICES ASSUME NEW j \in Calls, (call[j] # Idle)' PROVE SessionKept(call[j])'
      BY DEF SessionsKept
    <2>1. CASE j # k
      BY <1>0, <1>1, <2>1, SessionStays DEF SessionsKept, Idle
    <2> QED
      BY <2>1
  <1>10. NumbersGivenOnce'
    <2>1. ASSUME NEW r \in resumes', NEW s \in resumes', r.id = s.id PROVE r = s
      <3>1. CASE r \in c.resumes /\ s \in c.resumes
        BY <1>3, <2>1, <3>1
      <3>2. CASE r \in c.resumes /\ s \notin c.resumes
        BY <1>1, <1>2, <1>6, <2>1, <3>2 DEF Stored
      <3>3. CASE r \notin c.resumes /\ s \in c.resumes
        BY <1>1, <1>2, <1>6, <2>1, <3>3 DEF Stored
      <3>4. CASE r \notin c.resumes /\ s \notin c.resumes
        BY <1>0, <1>1, <1>2, <2>1, <3>4 DEF NumbersGivenOnce
      <3> QED
        BY <3>1, <3>2, <3>3, <3>4
    <2>2. Stored' \subseteq 1..used'
      <3>1. Held(k) \subseteq 1..used /\ Stored \subseteq 1..used
        BY <1>0 DEF NumbersGivenOnce
      <3> QED
        BY <1>6, <1>7, <3>1
    <2>3. ASSUME NEW j \in Calls PROVE Held(j)' \subseteq (1..used') \ Stored'
      <3>1. CASE j # k
        <4>1. Held(j) \cap Held(k) = {} /\ Held(j) \subseteq (1..used) \ Stored
          BY <1>0, <3>1 DEF NumbersGivenOnce
        <4>2. {r.id : r \in c.resumes} \subseteq Held(k)
          BY <1>6
        <4> QED
          BY <1>4, <1>7, <3>1, <4>1, <4>2
      <3>2. CASE j = k
        <4>1. CASE call'[k].pc \in Working
          <5>1. Held(k)' = {call[k].id} /\ call[k].pc \in Working /\ call[k].pc # "storing"
            BY <1>4, <4>1 DEF Held, LeavesClean
          <5>2. call[k].id \in Held(k) /\ call[k].id \in (1..used) \ Stored
            BY <1>0, <5>1 DEF Held, NumbersGivenOnce
          <5>3. \A q \in Session(k) : q.id # call[k].id
            <6>1. SessionKept(call[k])
              BY <1>0
            <6>2. \A q \in call[k].resumes : q.id # call[k].id
              BY <5>1, <6>1 DEF SessionKept
            <6> QED
              BY <1>3, <6>2
          <5> QED
            BY <1>3, <1>7, <3>2, <5>1, <5>2, <5>3
        <4>2. CASE call'[k].pc \notin Working
          BY <1>4, <3>2, <4>2 DEF Held
        <4> QED
          BY <4>1, <4>2
      <3> QED
        BY <3>1, <3>2
    <2>4. Held(k)' \subseteq Held(k)
      BY <1>4 DEF Held, LeavesClean
    <2>5. ASSUME NEW i \in Calls, NEW j \in Calls, i # j PROVE (Held(i) \cap Held(j))' = {}
      BY <1>0, <1>4, <2>4, <2>5 DEF NumbersGivenOnce
    <2> QED
      BY <2>1, <2>2, <2>3, <2>5 DEF NumbersGivenOnce
  <1>11. PrimaryDecided'
    <2>1. ASSUME NEW j \in Calls, (call[j] # Idle)' PROVE Covered(call[j])'
      <3>1. CASE j = k
        BY <3>1 DEF Covered, LeavesClean
      <3>2. CASE j # k
        <4>1. call[j] # Idle /\ call'[j] = call[j] /\ Session(j) = call[j].resumes
              /\ Covered(call[j])
          BY <1>0, <2>1, <3>2 DEF PrimaryDecided, Session, Idle
        <4>2. call[j].unset \subseteq Stored /\ call[j].unset \subseteq Stored'
          BY <1>7, <4>1 DEF Covered
        <4>3. ASSUME NEW r \in call[j].resumes PROVE Primaries(r.candidate)' \subseteq call[j].unset
          <5>1. ASSUME NEW p \in resumes', p.candidate = r.candidate, p.primary
                PROVE  p.id \in call[j].unset
            <6>1. p \notin c.resumes
              BY <1>0, <1>3, <3>2, <4>1, <4>3, <5>1 DEF PrimaryDecided
            <6>2. PICK q \in resumes : p = Kept(q, c)
              BY <1>1, <6>1
            <6>3. q.primary /\ q.candidate = r.candidate /\ q.id = p.id
              BY <1>2, <5>1, <6>2
            <6> QED
              BY <4>1, <4>3, <6>3 DEF Covered, Primaries
          <5> QED
            BY <5>1 DEF Primaries
        <4>4. ASSUME NEW r \in resumes', r.id \in call[j].unset
              PROVE  \/ call[j].pc = "inserting" /\ r.candidate = call[j].candidate
                     \/ \E s \in call[j].resumes : s.candidate = r.candidate
          <5>1. r \notin c.resumes
            BY <1>6, <4>2, <4>4
          <5>2. PICK q \in resumes : q.id = r.id /\ q.candidate = r.candidate
            BY <1>1, <1>2, <5>1
          <5> QED
            BY <4>1, <4>4, <5>2 DEF Covered
        <4> QED
          BY <3>2, <4>1, <4>2, <4>3, <4>4 DEF Covered
      <3> QED
        BY <3>1, <3>2
    <2>2. ASSUME NEW i \in Calls, NEW j \in Calls, NEW r \in Session(i)', NEW s \in Session(j)',
                 r.candidate = s.candidate
          PROVE  i = j /\ r = s
      BY <1>0, <1>4, <2>2 DEF PrimaryDecided
    <2>3. ASSUME NEW r \in resumes' PROVE \E p \in resumes' : p.primary /\ p.candidate = r.candidate
      <3>1. CASE r \in c.resumes
        BY <1>3, <3>1
      <3>2. CASE r \notin c.resumes
        <4>1. PICK q \in resumes : r = Kept(q, c)
          BY <1>1, <3>2
        <4>2. PICK p \in resumes : p.primary /\ p.candidate = q.candidate
          BY <1>0 DEF PrimaryDecided, Primaries
        <4>3. CASE p.id \notin c.unset
          BY <1>1, <1>2, <4>1, <4>2, <4>3
        <4>4. CASE p.id \in c.unset
          <5>1. PICK s \in Session(k) : s.candidate = p.candidate
            BY <1>0, <1>3, <4>4 DEF Covered
          <5>2. PICK t \in c.resumes : t.candidate = s.candidate /\ t.primary
            BY <1>3
          <5> QED
            BY <1>1, <1>2, <4>1, <4>2, <5>1, <5>2
        <4> QED
          BY <4>3, <4>4
      <3> QED
        BY <3>1, <3>2
    <2>4. ASSUME NEW r \in resumes', NEW s \in resumes', r.primary, s.primary,
                 r.candidate = s.candidate
          PROVE  r = s
      <3>1. CASE r \in c.resumes /\ s \in c.resumes
        <4>1. PICK p \in Session(k) : p.id = r.id /\ p.candidate = r.candidate
          BY <1>3, <3>1
        <4>2. PICK q \in Session(k) : q.id = s.id /\ q.candidate = s.candidate
          BY <1>3, <3>1
        <4>3. p = q
          BY <1>0, <2>4, <4>1, <4>2 DEF PrimaryDecided
        <4> QED
          BY <1>3, <3>1, <4>1, <4>2, <4>3
      <3>2. ASSUME NEW x \in c.resumes, NEW y \in resumes' \ c.resumes, y.primary,
                   x.candidate = y.candidate
            PROVE  FALSE
        <4>1. PICK p \in Session(k) : p.candidate = x.candidate
          BY <1>3
        <4>2. PICK q \in resumes : y = Kept(q, c)
          BY <1>1
        <4>3. q.primary /\ q.id \notin call[k].unset /\ q.candidate = p.candidate
          BY <1>2, <1>3, <3>2, <4>1, <4>2
        <4> QED
          BY <1>0, <1>3, <4>1, <4>3 DEF Covered, Primaries
      <3>3. CASE r \notin c.resumes /\ s \notin c.resumes
        <4>1. PICK p \in resumes : r = Kept(p, c)
          BY <1>1, <3>3
        <4>2. PICK q \in resumes : s = Kept(q, c)
          BY <1>1, <3>3
        <4>3. p = q
          BY <1>0, <1>2, <2>4, <4>1, <4>2 DEF PrimaryDecided
        <4> QED
          BY <4>1, <4>2, <4>3
      <3> QED
        BY <2>4, <3>1, <3>2, <3>3
    <2> QED
      BY <2>1, <2>2, <2>3, <2>4 DEF PrimaryDecided, Primaries
  <1> QED
    BY <1>8, <1>9, <1>10, <1>11 DEF IInv

\* A commit leaves nothing half done that was not.
LEMMA CommitHalfDone ==
  ASSUME IInv, NEW c \in CallState, Commit(c), applied \subseteq applied', UNCHANGED leftover,
         \A r \in c.resumes : r.complete \/ r.id \in leftover,
         \A x \in c.candidates : \/ x \in leftover \/ x \in applied'
                                 \/ \E r \in c.resumes : r.candidate = x
  PROVE  NothingHalfDone'
  <1>1. TypeOK /\ NothingHalfDone
    BY DEF IInv
  <1>2. /\ candidates' = candidates \cup c.candidates
        /\ \A r \in resumes' : r \in c.resumes \/ \E q \in resumes : r = Kept(q, c)
        /\ \A q \in resumes : Kept(q, c) \in resumes'
        /\ c.resumes \subseteq resumes' /\ resumes \subseteq Resume
    BY <1>1, CommitRows
  <1>3. \A q \in resumes : /\ Kept(q, c).id = q.id /\ Kept(q, c).candidate = q.candidate
                           /\ Kept(q, c).complete = q.complete
    BY <1>2, KeptShape
  <1>4. ASSUME NEW r \in resumes' PROVE r.complete \/ r.id \in leftover'
    <2>1. CASE r \in c.resumes
      BY <2>1
    <2>2. ASSUME NEW q \in resumes, r = Kept(q, c) PROVE r.complete \/ r.id \in leftover'
      <3>1. q.complete \/ q.id \in leftover
        BY <1>1 DEF NothingHalfDone
      <3> QED
        BY <1>3, <2>2, <3>1
    <2> QED
      BY <1>2, <2>1, <2>2
  <1>5. ASSUME NEW x \in candidates' \ ({Known} \cup applied' \cup leftover')
        PROVE  \E r \in resumes' : r.candidate = x
    <2>1. CASE x \in candidates
      <3>1. PICK q \in resumes : q.candidate = x
        BY <1>1, <1>5, <2>1 DEF NothingHalfDone
      <3> QED
        BY <1>2, <1>3, <3>1
    <2>2. CASE x \in c.candidates
      BY <1>2, <1>5, <2>2
    <2> QED
      BY <1>2, <2>1, <2>2
  <1> QED
    BY <1>4, <1>5 DEF NothingHalfDone

\* A commit that makes at most the file at hand visible, which nobody else works on.
LEMMA CommitFiles ==
  ASSUME IInv, NEW k \in Calls, NEW c \in CallState, Commit(c), StepOf(k), UNCHANGED overlapped,
         \A r \in c.resumes : r.complete => k \in Missing(r.file) /\ k \notin Missing(r.file)',
         \A r, s \in c.resumes : r.complete /\ s.complete => r = s,
         \A f \in Files : k \in Missing(f)' => k \in Missing(f)
  PROVE  FileDecided'
  <1>1. TypeOK /\ FileDecided
    BY DEF IInv
  <1>2. /\ \A r \in resumes' : r \in c.resumes \/ \E q \in resumes : r = Kept(q, c)
        /\ resumes \subseteq Resume
    BY <1>1, CommitRows
  <1>3. \A q \in resumes : Kept(q, c).file = q.file /\ Kept(q, c).complete = q.complete
    BY <1>2, KeptShape
  <1>4. \A f \in Files : Missing(f)' \subseteq Missing(f)
    BY DEF StepOf, Missing, File
  <1> SUFFICES ASSUME NEW f \in Files \ overlapped'
               PROVE  /\ \A i, j \in Missing(f)' : i = j
                      /\ \A j \in Missing(f)', r \in resumes' : ~(r.complete /\ r.file = f)
                      /\ \A r, s \in resumes' : r.complete /\ s.complete /\ r.file = f
                            /\ s.file = f => r = s
    BY DEF FileDecided
  <1>5. /\ \A i, j \in Missing(f) : i = j
        /\ \A j \in Missing(f), r \in resumes : ~(r.complete /\ r.file = f)
        /\ \A r, s \in resumes : r.complete /\ s.complete /\ r.file = f /\ s.file = f => r = s
    BY <1>1 DEF FileDecided
  <1>6. ASSUME NEW r \in resumes' \ c.resumes, r.complete, r.file = f
        PROVE  \E q \in resumes : r = Kept(q, c) /\ q.complete /\ q.file = f
    BY <1>2, <1>3, <1>6
  <1>7. ASSUME NEW j \in Missing(f)', NEW r \in resumes', r.complete, r.file = f PROVE FALSE
    <2>1. CASE r \in c.resumes
      BY <1>4, <1>5, <1>7, <2>1
    <2>2. CASE r \notin c.resumes
      BY <1>4, <1>5, <1>6, <1>7, <2>2
    <2> QED
      BY <2>1, <2>2
  <1>8. ASSUME NEW r \in resumes', NEW s \in resumes', r.complete, s.complete, r.file = f, s.file = f
        PROVE  r = s
    <2>1. CASE r \in c.resumes /\ s \in c.resumes
      BY <1>8, <2>1
    <2>2. CASE r \in c.resumes /\ s \notin c.resumes
      BY <1>5, <1>6, <1>8, <2>2
    <2>3. CASE r \notin c.resumes /\ s \in c.resumes
      BY <1>5, <1>6, <1>8, <2>3
    <2>4. CASE r \notin c.resumes /\ s \notin c.resumes
      <3>1. PICK p \in resumes : r = Kept(p, c) /\ p.complete /\ p.file = f
        BY <1>6, <1>8, <2>4
      <3>2. PICK q \in resumes : s = Kept(q, c) /\ q.complete /\ q.file = f
        BY <1>6, <1>8, <2>4
      <3> QED
        BY <1>5, <3>1, <3>2
    <2> QED
      BY <2>1, <2>2, <2>3, <2>4
  <1>9. \A i, j \in Missing(f)' : i = j
    BY <1>4, <1>5
  <1> QED
    BY <1>7, <1>8, <1>9

LEMMA AssociateIInv ==
  ASSUME IInv, NEW k \in Calls, Associate(k)
  PROVE  IInv'
  <1>0. call[k].pc = "associating" /\ UNCHANGED <<used, overlapped, faults>>
    BY DEF Associate
  <1>1. /\ call[k].pc \in Working /\ call[k].pc # "storing" /\ call[k].pc # "inserting"
        /\ call[k] # Idle /\ TypeOK /\ faults \in 0..MaxFaults
        /\ call[k] \in CallState /\ SessionKept(call[k]) /\ Covered(call[k])
    BY <1>0, CallFacts DEF Working, Alive
  <1>2. CASE call[k].candidate \in applied
    <2>1. Fails(k, FALSE) /\ UNCHANGED Data
      BY <1>2 DEF Associate
    <2> QED
      BY <1>0, <1>1, <2>1, FailsIInv
  <1>3. CASE call[k].candidate \notin applied
    <2> DEFINE clean == Clean(call[k])
               new == [clean EXCEPT !.pc = "starting"]
    <2>1. /\ Commit(call[k]) /\ applied' = applied \cup {call[k].candidate}
          /\ Becomes(k, new) /\ UNCHANGED leftover
      BY <1>3 DEF Associate
    <2>2. /\ clean \in CallState /\ clean.candidates = {} /\ clean.resumes = {} /\ clean.unset = {}
          /\ clean.todo = call[k].todo /\ clean.bulk = call[k].bulk /\ clean.named = call[k].named
          /\ clean.id = call[k].id /\ clean.candidate = call[k].candidate
      BY <1>1, CleanShape
    <2> HIDE DEF clean
    <2>3. /\ new \in CallState /\ new.candidates = {} /\ new.resumes = {} /\ new.unset = {}
          /\ new.todo = call[k].todo /\ new.bulk = call[k].bulk /\ new.named = call[k].named
          /\ new.id = call[k].id /\ new.candidate = call[k].candidate /\ new.pc = "starting"
      BY <2>2 DEF CallState, Working
    <2> HIDE DEF new
    <2>4. StepOf(k) /\ call'[k] = new
      BY <1>0, <2>1, <2>3, BecomesStep, CallFacts DEF StepOf
    <2>5. new # Idle /\ new.pc \in Working /\ new.pc # "storing"
      BY <2>3 DEF Idle, Working
    <2>6. candidates' = candidates \cup call[k].candidates
      BY <2>1 DEF Commit
    <2>7. \A r \in call[k].resumes : r.primary /\ ~r.complete /\ r.id \in leftover
      BY <1>1 DEF SessionKept
    <2>8. Session(k) = call[k].resumes
      BY <1>1 DEF Session
    <2>9. Commits(k, call[k])
      <3>1. \A r, s \in call[k].resumes : r.id = s.id => r = s
        BY <1>1 DEF SessionKept
      <3> QED
        BY <1>1, <2>1, <2>7, <2>8, <3>1 DEF Commits
    <2>10. LeavesClean(k)
      BY <1>1, <2>3, <2>4, <2>5 DEF LeavesClean
    <2>11. SessionKept(call[k])'
      <3>1. /\ call[k].todo # <<>> /\ (call[k].bulk => ~call[k].named) /\ call[k].id \in Numbers
            /\ call[k].candidate = (IF call[k].named THEN Known ELSE call[k].id)
            /\ call[k].candidate \in candidates \cup call[k].candidates
        BY <1>1 DEF SessionKept
      <3> QED
        BY <2>3, <2>4, <2>5, <2>6, <3>1 DEF SessionKept
    <2>12. applied' \subseteq candidates'
      BY <1>1, <2>1, <2>6 DEF SessionKept, TypeOK
    <2>13. NothingHalfDone'
      <3>1. \A x \in call[k].candidates : x \in leftover \/ x = call[k].candidate
        BY <1>1 DEF SessionKept
      <3> QED
        BY <1>1, <2>1, <2>7, <3>1, CommitHalfDone
    <2>14. FileDecided'
      <3>1. \A f \in Files : k \in Missing(f)' => k \in Missing(f)
        BY <1>1, <2>3, <2>4 DEF Missing, File
      <3> QED
        BY <1>0, <1>1, <2>1, <2>4, <2>7, <3>1, CommitFiles
    <2> QED
      BY <1>0, <2>4, <2>9, <2>10, <2>11, <2>12, <2>13, <2>14, CommitIInv
  <1> QED
    BY <1>2, <1>3

LEMMA StoreFileIInv ==
  ASSUME IInv, NEW k \in Calls, StoreFile(k)
  PROVE  IInv'
  <1>0. call[k].pc = "storing" /\ UNCHANGED <<applied, used, overlapped, faults>>
    BY DEF StoreFile
  <1>1. /\ call[k].pc \in Working /\ call[k] # Idle /\ TypeOK /\ faults \in 0..MaxFaults
        /\ call[k] \in CallState /\ SessionKept(call[k]) /\ Covered(call[k]) /\ File(k) \in Files
    BY <1>0, CallFacts DEF Working, Alive
  <1>2. CASE File(k) \in Empty
    <2>1. Fails(k, TRUE) /\ UNCHANGED Data
      BY <1>0, <1>2 DEF StoreFile, Data
    <2> QED
      BY <1>0, <1>1, <2>1, FailsIInv
  <1>3. CASE File(k) \notin Empty
    <2> DEFINE old == NewResume(call[k], FALSE)
               row == NewResume(call[k], TRUE)
               c == [call[k] EXCEPT !.resumes = (@ \ {old}) \cup {row}]
               clean == Clean(c)
               new == [clean EXCEPT !.pc = "publishing"]
    <2>1. Commit(c) /\ Becomes(k, new) /\ UNCHANGED leftover
      BY <1>3 DEF StoreFile
    <2>2. /\ old \in Resume /\ old.id = call[k].id /\ old.candidate = call[k].candidate
          /\ row \in Resume /\ row.id = call[k].id /\ row.candidate = call[k].candidate
          /\ row.file = File(k) /\ row.primary /\ row.complete
      BY <1>1 DEF NewResume, Resume, File, SessionKept, CallState
    <2>3. /\ old \in call[k].resumes
          /\ \A r \in call[k].resumes \ {old} :
                /\ call[k].bulk /\ r.id \in leftover /\ r.candidate = r.id /\ r.primary /\ ~r.complete
                /\ r.id # call[k].id
      BY <1>0, <1>1 DEF SessionKept
    <2> HIDE DEF old, row
    <2>4. /\ c \in CallState /\ c.candidates = call[k].candidates /\ c.unset = call[k].unset
          /\ c.resumes = (call[k].resumes \ {old}) \cup {row} /\ c.todo = call[k].todo
          /\ c.bulk = call[k].bulk /\ c.named = call[k].named
      BY <1>1, <2>2 DEF CallState
    <2> HIDE DEF c
    <2>5. /\ clean \in CallState /\ clean.candidates = {} /\ clean.resumes = {} /\ clean.unset = {}
          /\ clean.todo = call[k].todo /\ clean.bulk = call[k].bulk /\ clean.named = call[k].named
      BY <2>4, CleanShape
    <2> HIDE DEF clean
    <2>6. /\ new \in CallState /\ new.candidates = {} /\ new.resumes = {} /\ new.unset = {}
          /\ new.todo = call[k].todo /\ new.bulk = call[k].bulk /\ new.named = call[k].named
          /\ new.pc = "publishing"
      BY <2>5 DEF CallState, Working
    <2> HIDE DEF new
    <2>7. StepOf(k) /\ call'[k] = new
      BY <1>0, <2>1, <2>6, BecomesStep, CallFacts DEF StepOf
    <2>8. new # Idle /\ new.pc \notin Working /\ new.pc # "storing"
      BY <2>6 DEF Idle, Working
    <2>9. candidates' = candidates \cup call[k].candidates
      BY <2>1, <2>4 DEF Commit
    <2>10. Session(k) = call[k].resumes
      BY <1>1 DEF Session
    <2>11. Commits(k, c)
      <3>1. \A r, s \in call[k].resumes : r.id = s.id => r = s
        BY <1>1 DEF SessionKept
      <3>2. \A r \in c.resumes : \E q \in call[k].resumes :
               r.id = q.id /\ r.candidate = q.candidate /\ r.primary
        BY <2>2, <2>3, <2>4
      <3>3. \A q \in call[k].resumes : \E r \in c.resumes :
               r.id = q.id /\ r.candidate = q.candidate
        BY <2>2, <2>4
      <3>4. \A r, s \in c.resumes : r.id = s.id => r = s
        BY <2>2, <2>3, <2>4, <3>1
      <3> QED
        BY <2>1, <2>4, <2>10, <3>2, <3>3, <3>4 DEF Commits
    <2>12. LeavesClean(k)
      BY <2>6, <2>7, <2>8 DEF LeavesClean
    <2>13. SessionKept(call[k])'
      <3>1. call[k].todo # <<>> /\ (call[k].bulk => ~call[k].named)
        BY <1>1 DEF SessionKept
      <3> QED
        BY <2>6, <2>7, <2>8, <3>1 DEF SessionKept
    <2>14. applied' \subseteq candidates'
      BY <1>0, <1>1, <2>9 DEF TypeOK
    <2>15. NothingHalfDone'
      <3>1. \A x \in call[k].candidates : x \in leftover \/ x = call[k].candidate
        BY <1>1 DEF SessionKept
      <3>2. \A r \in c.resumes : r.complete \/ r.id \in leftover
        BY <2>2, <2>3, <2>4
      <3>3. \A x \in c.candidates : x \in leftover \/ \E r \in c.resumes : r.candidate = x
        BY <2>2, <2>4, <3>1
      <3> QED
        BY <1>0, <2>1, <2>4, <3>2, <3>3, CommitHalfDone
    <2>16. FileDecided'
      <3>1. \A f \in Files : k \notin Missing(f)'
        BY <2>7, <2>8 DEF Missing
      <3>2. k \in Missing(File(k))
        BY <1>1 DEF Missing
      <3>3. \A r \in c.resumes : r.complete => r = row
        BY <2>3, <2>4
      <3>4. \A r \in c.resumes : r.complete => k \in Missing(r.file) /\ k \notin Missing(r.file)'
        BY <1>1, <2>2, <3>1, <3>2, <3>3
      <3> QED
        BY <1>0, <2>1, <2>4, <2>7, <3>1, <3>3, <3>4, CommitFiles
    <2> QED
      BY <1>0, <2>7, <2>11, <2>12, <2>13, <2>14, <2>15, <2>16, CommitIInv
  <1> QED
    BY <1>2, <1>3

-----------------------------------------------------------------------------
(* The theorems.                                                           *)

LEMMA InitIInv == Init => IInv
  <1> SUFFICES ASSUME Init PROVE IInv
    OBVIOUS
  <1>1. \A k \in Calls : call[k] = Idle /\ Session(k) = {} /\ Held(k) = {}
    BY DEF Init, Session, Held, Idle, Working
  <1>2. TypeOK /\ Known \in candidates
    BY UploadConstantsOK DEF Init, TypeOK, Numbers
  <1>3. resumes = {} /\ candidates = {Known} /\ Stored = {}
    BY DEF Init, Stored
  <1>4. \A f \in Files : Missing(f) = {}
    BY <1>1 DEF Missing, Idle, Working
  <1> QED
    BY <1>1, <1>2, <1>3, <1>4
       DEF IInv, SessionsKept, NumbersGivenOnce, PrimaryDecided, FileDecided, NothingHalfDone

LEMMA NextIInv == IInv /\ [Next]_vars => IInv'
  <1>1. ASSUME IInv, UNCHANGED vars PROVE IInv'
    <2>1. TypeOK' /\ NothingHalfDone' /\ Known \in candidates'
      BY <1>1 DEF vars, IInv, TypeOK, NothingHalfDone
    <2>2. SessionsKept'
      BY <1>1 DEF vars, IInv, SessionsKept, SessionKept, NewResume
    <2>3. NumbersGivenOnce'
      BY <1>1 DEF vars, IInv, NumbersGivenOnce, Stored, Session, Held
    <2>4. PrimaryDecided'
      BY <1>1 DEF vars, IInv, PrimaryDecided, Covered, Stored, Session, Primaries
    <2>5. FileDecided'
      BY <1>1 DEF vars, IInv, FileDecided, Missing, File
    <2> QED
      BY <2>1, <2>2, <2>3, <2>4, <2>5 DEF IInv
  <1>2. ASSUME IInv, Next PROVE IInv'
    BY <1>2, BeginIInv, CheckKnownIInv, CheckNewIInv, AssociateIInv, StartUnsetIInv,
       FinishUnsetIInv, InsertResumeIInv, StoreFileIInv, EnqueueIInv, FaultIInv, DieIInv
       DEF Next
  <1> QED
    BY <1>1, <1>2

\* The inductive invariant holds in every reachable state, for any number of calls, files,
\* uploads and failures.
THEOREM IInvHolds == Spec => []IInv
  BY InitIInv, NextIInv, PTL DEF Spec

\* Every variable stays in its type: the resumes refer to committed candidates, and what a
\* call holds is what the code could have flushed.
THEOREM TypeCorrect == Spec => []TypeOK
  <1>1. IInv => TypeOK
    BY DEF IInv
  <1> QED
    BY <1>1, IInvHolds, PTL

LEMMA AtMostOne ==
  ASSUME NEW S, \A x, y \in S : x = y
  PROVE  Cardinality(S) \in {0, 1} /\ (S # {} => Cardinality(S) = 1)
  <1>1. CASE S = {}
    BY <1>1, FS_EmptySet
  <1>2. CASE S # {}
    <2>1. PICK x : S = {x}
      BY <1>2
    <2> QED
      BY <2>1, FS_Singleton
  <1> QED
    BY <1>1, <1>2

\* A file is stored once in a tenant, unless two calls have looked for it before either had
\* committed it: the checksum lookup alone tells that, with no unique index.
THEOREM FileStoredOnce == Spec => []OneResumePerFile
  <1>1. ASSUME IInv, NEW f \in Files \ overlapped
        PROVE  Cardinality({r \in resumes : r.complete /\ r.file = f}) <= 1
    <2> DEFINE S == {r \in resumes : r.complete /\ r.file = f}
    <2>1. \A x, y \in S : x = y
      BY <1>1 DEF IInv, FileDecided
    <2> HIDE DEF S
    <2>2. Cardinality(S) \in {0, 1}
      BY <2>1, AtMostOne
    <2> QED
      BY <2>2 DEF S
  <1>2. IInv => OneResumePerFile
    BY <1>1 DEF OneResumePerFile
  <1> QED
    BY <1>2, IInvHolds, PTL

\* A candidate with resumes has exactly one primary resume, whoever uploads meanwhile, and
\* whatever a bulk upload commits of the files that have failed.
THEOREM OnePrimaryResume == Spec => []PrimaryKept
  <1>1. ASSUME IInv, NEW c \in candidates, NEW r \in resumes, r.candidate = c
        PROVE  Cardinality(Primaries(c)) = 1
    <2>1. \A x, y \in Primaries(c) : x = y
      BY <1>1 DEF IInv, PrimaryDecided, Primaries
    <2>2. Primaries(c) # {}
      BY <1>1 DEF IInv, PrimaryDecided
    <2> HIDE DEF Primaries
    <2> QED
      BY <2>1, <2>2, AtMostOne
  <1>2. IInv => PrimaryKept
    BY <1>1 DEF PrimaryKept
  <1> QED
    BY <1>2, IInvHolds, PTL

\* A failed upload leaves no resume without its file and no placeholder of its own, but for
\* the leftovers that a bulk upload commits with a later file.
THEOREM FailuresLeaveNothing == Spec => []NothingHalfDone
  <1>1. IInv => NothingHalfDone
    BY DEF IInv
  <1> QED
    BY <1>1, IInvHolds, PTL
=============================================================================
