----------------------------- MODULE MCFliprGate -----------------------------
(***************************************************************************)
(* Instances of FliprGate for TLC: two handlers, flipr@clients, the tool    *)
(* that writes it and a client that it can add.                            *)
(***************************************************************************)
EXTENDS FliprGate, TLC

CONSTANTS clients, refuse, known, on, triple, tool, copy

MCKindOf == (on :> "bool") @@ (triple :> "string")

MCTripleOf == copy :> triple

Flip(n, k, v) == [op |-> "SetFlag", ns |-> n, key |-> k, value |-> v]

Refusing == Flip(clients, refuse, on)
Adding   == Flip(clients, known, triple)
Asking   == [op |-> "Ping"]

Writing == {Refusing, Adding}
Reading == {Asking}

MCKnocks == {[req |-> Refusing, client |-> tool],
             [req |-> Adding, client |-> tool],
             [req |-> Asking, client |-> copy]}

WritersAreAlike == Permutations(Writers)
=============================================================================
