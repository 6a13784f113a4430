---------------------------- MODULE MCCandidates ----------------------------
(* A small talent pool for TLC: one address in two spellings, edits that   *)
(* change one field or several, and resumes that find some or all of them. *)
EXTENDS Candidates, TLC

CONSTANTS a, t1, t2, s1, s2

Plain == [address |-> a, capitals |-> FALSE]
Capitals == [address |-> a, capitals |-> TRUE]

SomeEdits ==
    {[email |-> Capitals, title |-> None, skills |-> None],
     [email |-> None, title |-> t1, skills |-> {s1}],
     [email |-> None, title |-> t2, skills |-> None]}

SomeResumes ==
    {[email |-> Capitals, title |-> t2, skills |-> {}],
     [email |-> Plain, title |-> None, skills |-> {s2}]}

Interchangeable == Permutations(Sessions)
=============================================================================
