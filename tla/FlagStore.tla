----------------------------- MODULE FlagStore -----------------------------
(***************************************************************************)
(* What the flag store promises: a write and its record are one atomic act, *)
(* and a write that is refused or fails never happened (store.go, the      *)
(* comments of Flip and transact).  flags is what the store holds, trail   *)
(* the operation record.                                                    *)
(*                                                                         *)
(* Lose and Ghost are the two ways the promise is broken when the process   *)
(* dies, the disk fails or an fsync fails: a write that left no trace, and  *)
(* a trace of a write that did not happen.  StrictNext allows neither.      *)
(***************************************************************************)
EXTENDS FlagRules

CONSTANT Requests   \* the writes that are asked for

VARIABLES flags, trail

vars == <<flags, trail>>

Init ==
    /\ flags = EmptyStore
    /\ trail = << >>

Allowed(r) == Admissible(r) /\ ~Refused(flags[r.ns], r)

\* The trail gains the write's record, numbered above every record there is.
Recorded(r) ==
    LET n == trail'[Len(trail) + 1].rev
    IN  /\ Len(trail') = Len(trail) + 1
        /\ \A i \in DOMAIN trail : trail[i].rev < n
        /\ trail' = Append(trail, RecordOf(r, n))

\* The write happens and is recorded.
Write(r) ==
    /\ Allowed(r)
    /\ flags' = After(flags, r)
    /\ Recorded(r)

\* The write happens and leaves no trace.
Lose(r) ==
    /\ Allowed(r)
    /\ flags' = After(flags, r)
    /\ UNCHANGED trail

\* The trace of a write that did not happen.
Ghost(r) ==
    /\ Allowed(r)
    /\ Recorded(r)
    /\ UNCHANGED flags

Next == \E r \in Requests : Write(r) \/ Lose(r) \/ Ghost(r)

StrictNext == \E r \in Requests : Write(r)

Spec == Init /\ [][Next]_vars
=============================================================================
