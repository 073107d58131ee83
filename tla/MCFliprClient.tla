--------------------------- MODULE MCFliprClient ---------------------------
(***************************************************************************)
(* Instances of FliprClient for TLC: two goroutines over one declared flag. *)
(***************************************************************************)
EXTENDS FliprClient, TLC

ThreadsAreAlike == Permutations(Threads)
=============================================================================
