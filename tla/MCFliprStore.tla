---------------------------- MODULE MCFliprStore ----------------------------
(***************************************************************************)
(* Instances of FliprStore for TLC: two handlers, two keys, a budget of one *)
(* or two, and a few requests chosen to meet each other: flips of both      *)
(* kinds, publishes with and without values, and a retire.                  *)
(***************************************************************************)
EXTENDS FliprStore, TLC

CONSTANTS app, glob, k1, k2, on, off, text, cheap, dear

MCKindOf == (on :> "bool") @@ (off :> "bool") @@ (text :> "string")

Flip(n, k, v)  == [op |-> "SetFlag", ns |-> n, key |-> k, value |-> v]
Retire(n)      == [op |-> "DeleteNamespace", ns |-> n]
Declare(n, fs) == [op |-> "PublishNamespace", ns |-> n,
                   flags |-> [k \in Keys |-> IF k \in DOMAIN fs THEN fs[k]
                                                                ELSE NoFlag]]

Off(m) == [value |-> off, meta |-> m]
Bare(m) == [value |-> NoValue, meta |-> m]

\* Every way two writes of one namespace can meet, and a write of another.
Contended ==
    {Flip(app, k1, on), Flip(app, k1, text), Flip(app, k2, on),
     Declare(app, k1 :> Off(dear)), Declare(app, k2 :> Bare(cheap)),
     Retire(app), Flip(glob, k1, off)}
=============================================================================
