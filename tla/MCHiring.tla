------------------------------- MODULE MCHiring -------------------------------
(* For TLC: it does not matter which of two calls is which.                *)
EXTENDS Hiring, TLC

Interchangeable == Permutations(Handlers)
=============================================================================
