---------------------------- MODULE MCFliprReads ----------------------------
(***************************************************************************)
(* Instances of FliprReads for TLC: one caller of app beside one or two     *)
(* writers, with flips of app and of the global scope laid under it.        *)
(***************************************************************************)
EXTENDS FliprReads, TLC

CONSTANTS app, glob, k1, on, off, c1

MCKindOf == (on :> "bool") @@ (off :> "bool")
MCFollows == c1 :> app

Flip(n, v) == [op |-> "SetFlag", ns |-> n, key |-> k1, value |-> v]

Flipping == {Flip(app, on), Flip(app, off)}

Polled == {Flip(app, on), Flip(app, off), Flip(glob, on),
           [op |-> "DeleteNamespace", ns |-> app]}

\* Two flips of one namespace and a flip of another.
Apart == {Flip(app, on), Flip(app, off), Flip(glob, on)}

WritersAreAlike == Permutations(Writers)
=============================================================================
