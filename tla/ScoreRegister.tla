---------------------------- MODULE ScoreRegister ----------------------------
(***************************************************************************)
(* What the score table promises for one candidate of one job: a register  *)
(* that always holds the score written last, and a history of the earlier  *)
(* ones that only grows.  CurrentScore implements it with transactions.    *)
(***************************************************************************)
CONSTANTS Ids,      \* identifiers of score rows
          NoScore   \* the register before the first score

VARIABLES held,     \* the current score
          past      \* the scores it replaced

Init == held \in Ids \cup {NoScore} /\ past = {}

Write(id) ==
    /\ id # held /\ id \notin past
    /\ held' = id
    /\ past' = past \cup ({held} \ {NoScore})

Next == \E id \in Ids : Write(id)

Spec == Init /\ [][Next]_<<held, past>>
=============================================================================
