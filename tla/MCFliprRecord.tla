--------------------------- MODULE MCFliprRecord ---------------------------
(***************************************************************************)
(* Instances of FliprRecord for TLC: one service and flipr's own namespace, *)
(* one key, two values, a retire, and flipr's declaration of its key.       *)
(***************************************************************************)
EXTENDS FliprRecord, TLC

CONSTANTS app, own, k1, on, off, plain

MCKindOf == (on :> "bool") @@ (off :> "bool")

Flip(n, v) == [op |-> "SetFlag", ns |-> n, key |-> k1, value |-> v]

Declares ==
    [op |-> "PublishNamespace", ns |-> own,
     flags |-> [k \in Keys |-> [value |-> off, meta |-> plain]]]

ByHand == {Flip(own, on)}

\* A flip, a retire, and a flip of the flag flipr declares.
Asked ==
    {Flip(app, on), Flip(own, off),
     [op |-> "DeleteNamespace", ns |-> app]}

OneFlip == {Flip(app, on)}
=============================================================================
