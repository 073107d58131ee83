---------------------------- MODULE MCFliprTopic ----------------------------
(***************************************************************************)
(* Instances of FliprTopic for TLC: one service and flipr's own namespace,  *)
(* one key, two values, a retire, and flipr's declaration of its key.       *)
(***************************************************************************)
EXTENDS FliprTopic, TLC

CONSTANTS app, own, k1, on, off, plain

MCKindOf == (on :> "bool") @@ (off :> "bool")

Flip(n, v) == [op |-> "SetFlag", ns |-> n, key |-> k1, value |-> v]

Declares ==
    [op |-> "PublishNamespace", ns |-> own,
     flags |-> [k \in Keys |-> [value |-> off, meta |-> plain]]]

Asked == {Flip(app, on), [op |-> "DeleteNamespace", ns |-> app]}
=============================================================================
