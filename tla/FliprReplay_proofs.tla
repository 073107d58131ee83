------------------------ MODULE FliprReplay_proofs ------------------------
(***************************************************************************)
(* What FliprRecord's replays come to, for any file, however many restores  *)
(* undid one another: the theorems on RecordReplays, WayBack and            *)
(* StoreHoldsTheRecord, for any services, keys, values, requests, faults    *)
(* and bounds.                                                              *)
(***************************************************************************)
EXTENDS FliprRecord_proofs

---------------------------------------------------------------------------
(***************************************************************************)
(* Which restores stand.                                                    *)
(***************************************************************************)

\* S is the set of restores that stand under the bound b.
StandsBy(b, S) ==
    /\ S \subseteq RestoresAt
    /\ \A i \in RestoresAt :
          i \in S <=> /\ b # 0 => lines[i].rev <= b
                      /\ \A j \in S : j > i => ~Undoes(j, lines[i].rev)

\* standing, computed from the last line to the first, finds such a set.
LEMMA StandingDef ==
    ASSUME lines \in Seq(Lines), NEW b \in Nat
    PROVE  StandsBy(b, Standing(b))
<1> DEFINE N == Len(lines)
           Within(i) == b # 0 => lines[i].rev <= b
           Cond(S, i) == /\ Within(i)
                         /\ \A j \in S : j > i => ~Undoes(j, lines[i].rev)
           Good(m, S) == /\ S \subseteq RestoresAt
                         /\ \A i \in S : i > m
                         /\ \A i \in RestoresAt :
                               i > m => (i \in S <=> Cond(S, i))
           Bad == {m \in 0..N : ~ \E S : Good(m, S)}
<1>n. N \in Nat /\ DOMAIN lines = 1..N
  OBVIOUS
<1>r. RestoresAt \subseteq 1..N
  BY <1>n DEF RestoresAt, Parsed
<1>1. Bad = {}
  <2> SUFFICES ASSUME Bad # {} PROVE FALSE
    OBVIOUS
  <2>1. PICK m \in Bad : \A k \in Bad : k <= m
    <3>1. Bad \in SUBSET Nat /\ \A y \in Bad : y <= N
      BY <1>n
    <3> HIDE DEF Bad, N
    <3> QED BY <1>n, <3>1, GreatestNatural
  <2>2. m \in 0..N /\ ~ \E S : Good(m, S)
    BY <2>1
  <2>3. m # N
    <3>1. Good(N, {})
      BY <1>n, <1>r
    <3> QED BY <2>2, <3>1
  <2>4. PICK S : Good(m + 1, S)
    <3>1. m + 1 \in 0..N
      BY <1>n, <2>2, <2>3
    <3>2. m + 1 \notin Bad
      <4> HIDE DEF Bad
      <4> QED BY <1>n, <2>1, <2>2
    <3> QED BY <3>1, <3>2
  <2> DEFINE T == S \cup {i \in RestoresAt : i = m + 1 /\ Cond(S, i)}
  <2>5. \A i, j : i \in RestoresAt /\ i > m /\ j > i => (j \in S <=> j \in T)
    BY <1>n, <1>r, <2>2
  <2>6. \A i \in RestoresAt : i > m => (Cond(S, i) <=> Cond(T, i))
    <3> SUFFICES ASSUME NEW i \in RestoresAt, i > m
                 PROVE  (\A j \in S : j > i => ~Undoes(j, lines[i].rev))
                        <=> (\A j \in T : j > i => ~Undoes(j, lines[i].rev))
      OBVIOUS
    <3> QED BY <2>5
  <2>7. \A i \in RestoresAt : i > m => (i \in T <=> Cond(S, i))
    <3> SUFFICES ASSUME NEW i \in RestoresAt, i > m
                 PROVE  i \in T <=> Cond(S, i)
      OBVIOUS
    <3> HIDE DEF Cond
    <3>1. CASE i = m + 1
      BY <1>n, <2>2, <2>4, <3>1
    <3>2. CASE i # m + 1
      <4>1. i > m + 1
        BY <1>n, <1>r, <2>2, <3>2
      <4> QED BY <2>4, <3>2, <4>1
    <3> QED BY <3>1, <3>2
  <2>8. T \subseteq RestoresAt /\ \A i \in T : i > m
    <3>1. S \subseteq RestoresAt /\ \A i \in S : i > m + 1
      BY <2>4
    <3>2. \A i \in S : i \in Nat /\ i > m
      BY <1>n, <1>r, <2>2, <3>1
    <3> HIDE DEF Cond
    <3> QED BY <2>2, <3>1, <3>2
  <2>9. Good(m, T)
    <3> HIDE DEF T, Cond
    <3> QED BY <2>6, <2>7, <2>8
  <2> QED BY <2>2, <2>9
<1>2. PICK S : Good(0, S)
  BY <1>1, <1>n
<1>s. S \subseteq RestoresAt
  BY <1>2
<1>3. \A i \in RestoresAt : i \in S <=> Cond(S, i)
  BY <1>2, <1>n, <1>r
<1> DEFINE Body(f, i) ==
               /\ i \in RestoresAt
               /\ b # 0 => lines[i].rev <= b
               /\ \A j \in (i+1)..Len(lines) : f[j] => ~Undoes(j, lines[i].rev)
           Rec(f) == f = [i \in DOMAIN lines |-> Body(f, i)]
           g == [i \in DOMAIN lines |-> i \in S]
<1>4. Rec(g)
  <2>1. ASSUME NEW i \in DOMAIN lines PROVE (i \in S) = Body(g, i)
    <3>1. \A j : j \in (i+1)..Len(lines) /\ g[j] <=> j \in S /\ j > i
      <4> SUFFICES ASSUME NEW j
                   PROVE  j \in (i+1)..Len(lines) /\ g[j] <=> j \in S /\ j > i
        OBVIOUS
      <4>1. j \in S => j \in 1..Len(lines)
        BY <1>s, <1>r
      <4>2. j \in 1..Len(lines) => (g[j] <=> j \in S)
        BY <1>n
      <4> HIDE DEF g
      <4> QED BY <1>n, <4>1, <4>2
    <3>2. Body(g, i) <=> i \in RestoresAt /\ Cond(S, i)
      <4> HIDE DEF g
      <4> QED BY <3>1
    <3>3. i \in S <=> Body(g, i)
      <4> HIDE DEF g, Body, Cond
      <4> QED BY <1>s, <1>3, <3>2
    <3>4. Body(g, i) \in BOOLEAN
      OBVIOUS
    <3>5. (i \in S) \in BOOLEAN
      OBVIOUS
    <3> HIDE DEF g, Body
    <3> QED BY <3>3, <3>4, <3>5, Zenon
  <2>2. g = [i \in DOMAIN lines |-> Body(g, i)]
    <3> HIDE DEF Body
    <3> QED BY <2>1
  <2> QED BY <2>2
<1> DEFINE f == CHOOSE h : Rec(h)
<1>5. Rec(f)
  <2> HIDE DEF Rec
  <2> QED BY <1>4
<1>6. Standing(b) = {i \in RestoresAt : f[i]}
  BY DEF Standing
<1> HIDE DEF f
<1>7. \A i \in DOMAIN lines : f[i] <=> Body(f, i)
  <2> HIDE DEF Body
  <2> QED BY <1>5
<1>8. \A j \in DOMAIN lines : f[j] <=> j \in Standing(b)
  BY <1>6, <1>7
<1>9. ASSUME NEW i \in RestoresAt
      PROVE  i \in Standing(b) <=> Cond(Standing(b), i)
  <2>1. i \in Standing(b) <=> Body(f, i)
    BY <1>6, <1>7, <1>r, <1>n
  <2>2. \A j : (j \in (i+1)..Len(lines) /\ f[j]) <=> (j \in Standing(b) /\ j > i)
    <3>1. Standing(b) \subseteq RestoresAt
      BY <1>6
    <3> SUFFICES ASSUME NEW j
                 PROVE  j \in (i+1)..Len(lines) /\ f[j] <=> j \in Standing(b) /\ j > i
      OBVIOUS
    <3>2. i \in 1..Len(lines)
      BY <1>r
    <3>3. CASE j \in 1..Len(lines)
      BY <1>8, <1>n, <3>2, <3>3
    <3>4. CASE j \notin 1..Len(lines)
      <4>1. j \notin Standing(b)
        BY <1>r, <3>1, <3>4
      <4> QED BY <1>n, <3>2, <3>4, <4>1
    <3> QED BY <3>3, <3>4
  <2> QED BY <2>1, <2>2
<1> QED BY <1>6, <1>9 DEF StandsBy

\* There is only one such set.
LEMMA StandingUnique ==
    ASSUME lines \in Seq(Lines), NEW b \in Nat, NEW S, StandsBy(b, S)
    PROVE  S = Standing(b)
<1> DEFINE T == Standing(b)
           D == {i \in RestoresAt : ~(i \in S <=> i \in T)}
<1>1. StandsBy(b, T)
  BY StandingDef
<1> HIDE DEF T
<1>2. RestoresAt \subseteq 1..Len(lines) /\ Len(lines) \in Nat
  BY DEF RestoresAt, Parsed
<1>3. D = {}
  <2> SUFFICES ASSUME D # {} PROVE FALSE
    OBVIOUS
  <2>1. PICK m \in D : \A k \in D : k <= m
    <3>1. \A y \in D : y \in 1..Len(lines)
      BY <1>2
    <3>2. D \in SUBSET Nat /\ \A y \in D : y <= Len(lines)
      <4> HIDE DEF D
      <4> QED BY <1>2, <3>1
    <3> HIDE DEF D
    <3> QED BY <1>2, <3>2, GreatestNatural
  <2>2. \A j : j > m /\ j \in RestoresAt => (j \in S <=> j \in T)
    BY <1>2, <2>1
  <2>3. m \in RestoresAt /\ ~(m \in S <=> m \in T)
    BY <2>1
  <2> HIDE DEF D
  <2>4. (\A j \in S : j > m => ~Undoes(j, lines[m].rev))
          <=> (\A j \in T : j > m => ~Undoes(j, lines[m].rev))
    BY <1>1, <2>2 DEF StandsBy
  <2> QED BY <1>1, <2>3, <2>4 DEF StandsBy
<1> QED BY <1>1, <1>3 DEF StandsBy, T

\* A restore's line carries three numbers.
LEMMA RestoreType ==
    ASSUME lines \in Seq(Lines), NEW i \in RestoresAt
    PROVE  /\ i \in Parsed /\ i \in 1..Len(lines)
           /\ lines[i] \in Restores
           /\ lines[i].rev \in Nat /\ lines[i].to \in Nat /\ lines[i].from \in Nat
<1>1. i \in Parsed /\ lines[i].op = "Restore"
  BY DEF RestoresAt
<1>2. i \in 1..Len(lines) /\ lines[i] \in Records \cup Restores
  BY <1>1, ParsedType
<1>3. lines[i] \in Restores
  BY <1>1, <1>2 DEF Records
<1> QED BY <1>1, <1>2, <1>3 DEF Restores

\* Bounds that no stamp tells apart find the same restores and the same lines.
LEMMA SameBound ==
    ASSUME lines \in Seq(Lines), NEW b \in Nat, NEW c \in Nat,
           \A i \in Parsed : (b # 0 => lines[i].rev <= b)
                             <=> (c # 0 => lines[i].rev <= c)
    PROVE  Standing(b) = Standing(c) /\ Applied(b) = Applied(c)
<1>1. RestoresAt \subseteq Parsed
  BY DEF RestoresAt
<1>2. StandsBy(b, Standing(b))
  BY StandingDef
<1>3. StandsBy(c, Standing(b))
  BY <1>1, <1>2 DEF StandsBy
<1>4. Standing(b) = Standing(c)
  <2> HIDE DEF Standing
  <2> QED BY <1>3, StandingUnique
<1>5. Applied(b) = Applied(c)
  BY <1>4 DEF Applied
<1> QED BY <1>4, <1>5

\* A replay is made of the lines it applies, whatever its bound.
LEMMA SameReplay ==
    ASSUME NEW b, NEW c, Applied(b) = Applied(c)
    PROVE  Replay(b) = Replay(c)
BY DEF Replay

---------------------------------------------------------------------------
(***************************************************************************)
(* The way back.                                                            *)
(***************************************************************************)

Ordered == \A i, j \in Parsed : i < j => lines[i].rev < lines[j].rev

\* A restore undid every number between the one it was asked for and its own.
Ranged ==
    /\ \A i \in RestoresAt :
          /\ lines[i].from = lines[i].rev - 1
          /\ 1 <= lines[i].to /\ lines[i].to < lines[i].from
    /\ mode = "append" => 1 <= bound /\ bound < rev - 1

\* As of a restore's own number, what is in force is what was in force at the
\* number it went back to: the restores standing are those that stood then,
\* and itself.
LEMMA Back ==
    ASSUME lines \in Seq(Lines), Ordered, Ranged, NEW j \in RestoresAt
    PROVE  /\ Standing(lines[j].rev) = Standing(lines[j].to) \cup {j}
           /\ Applied(lines[j].rev) = Applied(lines[j].to)
<1> DEFINE N == lines[j].rev
           t == lines[j].to
           T == Standing(t)
           S == T \cup {j}
<1>1. /\ j \in Parsed /\ j \in Nat /\ N \in Nat /\ t \in Nat
      /\ lines[j].from = N - 1 /\ 1 <= t /\ t < N - 1
  BY RestoreType DEF Ranged
<1>2. StandsBy(t, T)
  BY <1>1, StandingDef
<1> HIDE DEF T
<1>3. ASSUME NEW i \in Parsed
      PROVE  /\ i \in Nat /\ lines[i].rev \in Nat
             /\ lines[i].rev < N <=> i < j
             /\ lines[i].rev = N <=> i = j
  <2>1. i \in Nat /\ lines[i].rev \in Nat
    BY ParsedType
  <2>2. CASE i < j
    BY <1>1, <2>1, <2>2 DEF Ordered
  <2>3. CASE i = j
    BY <1>1, <2>1, <2>3
  <2>4. CASE j < i
    BY <1>1, <2>1, <2>4 DEF Ordered
  <2> QED BY <1>1, <2>1, <2>2, <2>3, <2>4
<1>4. RestoresAt \subseteq Parsed
  BY DEF RestoresAt
<1>5. \A i \in T : i \in Parsed /\ lines[i].rev <= t /\ i < j
  <2>1. \A i \in T : i \in RestoresAt /\ lines[i].rev <= t
    BY <1>1, <1>2 DEF StandsBy
  <2> SUFFICES ASSUME NEW i \in T
               PROVE  i \in Parsed /\ lines[i].rev <= t /\ i < j
    OBVIOUS
  <2>2. i \in Parsed /\ lines[i].rev <= t
    BY <1>4, <2>1
  <2>3. lines[i].rev \in Nat
    BY <1>3, <2>2
  <2>4. lines[i].rev < N
    BY <1>1, <2>2, <2>3
  <2> QED BY <1>3, <2>2, <2>4
<1>6. \A i \in Parsed : Undoes(j, lines[i].rev) <=> t < lines[i].rev /\ lines[i].rev < N
  BY <1>1, <1>3 DEF Undoes
<1>7. StandsBy(N, S)
  <2>1. S \subseteq RestoresAt
    BY <1>2 DEF StandsBy
  <2>2. ASSUME NEW i \in RestoresAt
        PROVE  i \in S <=> /\ N # 0 => lines[i].rev <= N
                           /\ \A k \in S : k > i => ~Undoes(k, lines[i].rev)
    <3>1. i \in Parsed
      BY <1>4
    <3>2. CASE lines[i].rev > N
      <4>1. lines[i].rev \in Nat /\ (lines[i].rev = N <=> i = j)
        BY <1>3, <3>1
      <4>2. i # j /\ ~(lines[i].rev <= N) /\ ~(lines[i].rev <= t) /\ N # 0
        BY <1>1, <3>2, <4>1
      <4> QED BY <1>5, <4>2
    <3>3. CASE i = j
      <4>1. \A k \in S : ~(k > j)
        <5>1. \A k \in T : k \in Nat /\ k < j
          BY <1>3, <1>5
        <5> QED BY <1>1, <5>1
      <4> QED BY <1>1, <3>3, <4>1
    <3>4. CASE t < lines[i].rev /\ lines[i].rev < N
      BY <1>1, <1>3, <1>5, <1>6, <3>1, <3>4
    <3>5. CASE lines[i].rev <= t
      <4>1. i \in T <=> \A k \in T : k > i => ~Undoes(k, lines[i].rev)
        BY <1>1, <1>2, <3>5 DEF StandsBy
      <4>2. ~Undoes(j, lines[i].rev) /\ i # j /\ lines[i].rev <= N
        BY <1>1, <1>3, <1>6, <3>1, <3>5
      <4> QED BY <4>1, <4>2
    <3> QED BY <1>1, <1>3, <3>1, <3>2, <3>3, <3>4, <3>5
  <2> HIDE DEF S
  <2> QED BY <2>1, <2>2 DEF StandsBy
<1>8. Standing(N) = S
  <2> HIDE DEF S
  <2> QED BY <1>1, <1>7, StandingUnique
<1>9. ASSUME NEW i PROVE i \in Applied(N) <=> i \in Applied(t)
  <2> SUFFICES ASSUME i \in Parsed,
                      lines[i].op \in {"SetFlag", "DeleteNamespace"}
               PROVE  (lines[i].rev <= N /\ \A k \in S : ~Undoes(k, lines[i].rev))
                      <=> (lines[i].rev <= t /\ \A k \in T : ~Undoes(k, lines[i].rev))
    BY <1>1, <1>8 DEF Applied, T
  <2>1. i # j
    BY DEF RestoresAt
  <2>2. CASE lines[i].rev > N
    BY <1>1, <1>3, <2>2
  <2>3. CASE t < lines[i].rev /\ lines[i].rev < N
    BY <1>1, <1>3, <1>6, <2>3
  <2>4. CASE lines[i].rev <= t
    <3>1. ~Undoes(j, lines[i].rev) /\ lines[i].rev <= N
      BY <1>1, <1>3, <1>6, <2>4
    <3> QED BY <2>4, <3>1
  <2> QED BY <1>1, <1>3, <2>1, <2>2, <2>3, <2>4
<1>10. Applied(N) = Applied(t)
  <2>1. \A c : Applied(c) \subseteq Parsed
    BY DEF Applied
  <2> QED BY <1>9, <2>1
<1> QED BY <1>8, <1>10 DEF T

LEMMA RangedNext == RecordInv /\ Ranged /\ [Next]_vars => Ranged'
<1> SUFFICES ASSUME RecordInv, Ranged, [Next]_vars PROVE Ranged'
  OBVIOUS
<1>t. /\ lines \in Seq(Lines) /\ rev \in Nat /\ bound \in Nat
  BY DEF RecordInv, RecordTypeOK, Lines
<1>l. lines' = lines => RestoresAt' = RestoresAt
  BY DEF RestoresAt, Parsed
<1>p. ASSUME NEW r \in Records \cup Restores, Puts(r)
      PROVE  \A i \in RestoresAt' :
                \/ i \in RestoresAt /\ lines'[i] = lines[i]
                \/ lines'[i] = r /\ r.op = "Restore"
  BY <1>t, <1>p, PutsDef DEF RestoresAt
<1>1. ASSUME NEW r \in Requests \cup Offline \cup {Declaration},
             Write(r) \/ WriteUnsynced(r)
      PROVE  Ranged'
  <2>1. /\ Attempt(r) /\ Puts(RecordOf(r, rev + 1))
        /\ mode' \in {"down", mode, IF mode = "declare" THEN "serving" ELSE mode}
    BY <1>1 DEF Write, WriteUnsynced, GivesUp
  <2>2. RecordOf(r, rev + 1) \in Records /\ mode # "append"
    BY <2>1, AttemptDef
  <2>3. RecordOf(r, rev + 1).op # "Restore"
    BY <2>2 DEF Records
  <2>4. \A i \in RestoresAt' : i \in RestoresAt /\ lines'[i] = lines[i]
    BY <1>p, <2>1, <2>2, <2>3
  <2> QED BY <2>1, <2>2, <2>4 DEF Ranged
<1>2. ASSUME NEW r \in Requests \cup Offline \cup {Declaration},
             WriteFails(r) \/ WriteDies(r)
      PROVE  Ranged'
  BY <1>l, <1>2 DEF WriteFails, WriteDies, Attempt, GivesUp, Ranged
<1>3. CASE World
  BY <1>l, <1>3
  DEF World, Stop, MediumFails, MediumRecovers, Wipe, Ranged, store, file,
      process, past, counts
<1>4. CASE Boot
  BY <1>l, <1>4
  DEF Boot, BootFound, BootHealed, BootRefused, BootKilled, Halfway, Ranged,
      file, process
<1>5. ASSUME NEW to \in 1..rev, Restore(to) PROVE Ranged'
  BY <1>t, <1>l, <1>5 DEF Restore, RestoreChecks, Ranged, file
<1>6. ASSUME NEW to \in 1..rev, RestoreKilled(to) PROVE Ranged'
  BY <1>l, <1>6 DEF RestoreKilled, RestoreChecks, Halfway, Ranged, file, process
<1>7. CASE RestoreRecorded
  <2> DEFINE r == [op |-> "Restore", rev |-> rev, to |-> bound, from |-> rev - 1]
  <2>1. mode = "append" /\ Puts(r) /\ mode' = "down"
    BY <1>7 DEF RestoreRecorded
  <2>2. 1 <= bound /\ bound < rev - 1
    BY <2>1 DEF Ranged
  <2>3. /\ r \in Restores
        /\ r.from = r.rev - 1 /\ 1 <= r.to /\ r.to < r.from
    BY <1>t, <2>2 DEF Restores
  <2> HIDE DEF r
  <2>4. \A i \in RestoresAt' : \/ i \in RestoresAt /\ lines'[i] = lines[i]
                               \/ lines'[i] = r
    BY <1>p, <2>1, <2>3
  <2> QED BY <2>1, <2>3, <2>4 DEF Ranged
<1>8. CASE RestoreUnrecorded
  BY <1>l, <1>8 DEF RestoreUnrecorded, Ranged
<1>9. CASE UNCHANGED vars
  BY <1>l, <1>9 DEF Ranged, vars, store, file, process
<1> QED
  BY <1>1, <1>2, <1>3, <1>4, <1>5, <1>6, <1>7, <1>8, <1>9
  DEF Next, Serve, RestoreStep

LEMMA RangedInvariant == Spec => [](RecordInv /\ Numbered /\ Ranged)
<1>1. Init => Ranged
  <2> SUFFICES ASSUME Init PROVE Ranged
    OBVIOUS
  <2>1. RestoresAt = {}
    BY DEF Init, RestoresAt, Parsed
  <2> QED BY <2>1 DEF Init, Ranged
<1> QED BY <1>1, RecordInvInit, RecordInvNext, NumberedInvariant, RangedNext,
           PTL DEF Spec

\* "The way back is another restore": whatever was restored in between, a
\* restore to the number an earlier one left replays to what stood before it,
\* for any file the server, the boots and the restores can have written.
THEOREM WayBackTheorem == Spec => []WayBack
<1>1. RecordInv /\ Numbered /\ Ranged => WayBack
  <2> SUFFICES ASSUME RecordInv, Numbered, Ranged, ~spoiled,
                      NEW i \in RestoresAt, NEW j \in RestoresAt,
                      lines[j].to = lines[i].from
               PROVE  Replay(lines[j].rev)[Len(lines)]
                          = Replay(lines[i].from)[Len(lines)]
    BY DEF WayBack
  <2>1. lines \in Seq(Lines)
    BY DEF RecordInv, RecordTypeOK, Lines
  <2>2. Ordered
    BY DEF Numbered, Ordered
  <2>3. Applied(lines[j].rev) = Applied(lines[i].from)
    BY <2>1, <2>2, Back
  <2> QED BY <2>3, SameReplay
<1> QED BY <1>1, RangedInvariant, PTL
---------------------------------------------------------------------------
(***************************************************************************)
(* What one more line makes of every replay.                                *)
(***************************************************************************)

\* The facts above hold of the file after a step as they do before it.
FileFacts ==
    lines \in Seq(Lines) =>
        /\ \A b \in Nat : StandsBy(b, Standing(b))
        /\ \A b \in Nat : \A S : StandsBy(b, S) => S = Standing(b)
        /\ \A b : Replays(b, Replay(b), Len(lines))
        /\ Ordered /\ Ranged =>
              \A j \in RestoresAt : Applied(lines[j].rev) = Applied(lines[j].to)
        /\ \A b, c \in Nat :
              (\A i \in Parsed : (b # 0 => lines[i].rev <= b)
                                 <=> (c # 0 => lines[i].rev <= c))
              => Applied(b) = Applied(c)

LEMMA FileFactsNow == FileFacts
<1> SUFFICES ASSUME lines \in Seq(Lines)
             PROVE  /\ \A b \in Nat : StandsBy(b, Standing(b))
                    /\ \A b \in Nat : \A S : StandsBy(b, S) => S = Standing(b)
                    /\ \A b : Replays(b, Replay(b), Len(lines))
                    /\ Ordered /\ Ranged =>
                          \A j \in RestoresAt :
                              Applied(lines[j].rev) = Applied(lines[j].to)
                    /\ \A b, c \in Nat :
                          (\A i \in Parsed : (b # 0 => lines[i].rev <= b)
                                             <=> (c # 0 => lines[i].rev <= c))
                          => Applied(b) = Applied(c)
  BY DEF FileFacts
<1>1. \A b \in Nat : StandsBy(b, Standing(b))
  BY StandingDef
<1>2. \A b \in Nat : \A S : StandsBy(b, S) => S = Standing(b)
  BY StandingUnique
<1>3. \A b : Replays(b, Replay(b), Len(lines))
  BY ReplayDef
<1>4. Ordered /\ Ranged =>
          \A j \in RestoresAt : Applied(lines[j].rev) = Applied(lines[j].to)
  BY Back
<1>5. ASSUME NEW b \in Nat, NEW c \in Nat,
             \A i \in Parsed : (b # 0 => lines[i].rev <= b)
                               <=> (c # 0 => lines[i].rev <= c)
      PROVE  Applied(b) = Applied(c)
  BY <1>5, SameBound
<1> QED BY <1>1, <1>2, <1>3, <1>4, <1>5

LEMMA FileFactsLater == FileFacts'
BY FileFactsNow, PTL

\* Two replays that apply the same of the same lines come to the same store.
LEMMA SameFold ==
    ASSUME lines \in Seq(Lines), lines' \in Seq(Lines), NEW b, NEW c,
           NEW n \in Nat, n <= Len(lines), n <= Len(lines'),
           \A i \in 1..n : lines'[i] = lines[i]
                           /\ (i \in Applied(c)' <=> i \in Applied(b))
    PROVE  Replay(c)'[n] = Replay(b)[n]
<1> DEFINE Bad == {i \in 0..n : Replay(c)'[i] # Replay(b)[i]}
<1>n. Len(lines) \in Nat /\ Len(lines') \in Nat
  OBVIOUS
<1>1. Replays(b, Replay(b), Len(lines))
  BY ReplayDef
<1>2. Replays(c, Replay(c), Len(lines))'
  BY FileFactsLater DEF FileFacts
<1>3. Replay(b)[0] = EmptyStore /\ Replay(c)'[0] = EmptyStore
  BY <1>1, <1>2 DEF Replays, EmptyStore
<1>4. ASSUME NEW i \in 1..n
      PROVE  /\ Replay(b)[i] = IF i \in Applied(b) THEN After(Replay(b)[i-1], lines[i])
                               ELSE Replay(b)[i-1]
             /\ Replay(c)'[i] = IF i \in Applied(c)'
                                THEN After(Replay(c)'[i-1], lines'[i])
                                ELSE Replay(c)'[i-1]
  <2>1. i \in 1..Len(lines) /\ i \in 1..Len(lines')
    BY <1>n
  <2>2. Replay(b)[i] = IF i \in Applied(b) THEN After(Replay(b)[i-1], lines[i])
                       ELSE Replay(b)[i-1]
    BY <1>1, <2>1 DEF Replays, Step
  <2>3. Replay(c)'[i] = IF i \in Applied(c)'
                        THEN After(Replay(c)'[i-1], lines'[i])
                        ELSE Replay(c)'[i-1]
    BY <1>2, <2>1 DEF Replays, Step, After
  <2> QED BY <2>2, <2>3
<1>5. Bad = {}
  <2> SUFFICES ASSUME Bad # {} PROVE FALSE
    OBVIOUS
  <2>1. PICK i \in Bad : \A k \in Bad : i <= k
    <3>1. Bad \in SUBSET Nat
      OBVIOUS
    <3> HIDE DEF Bad
    <3> QED BY <3>1, LeastNatural
  <2>2. i \in 0..n /\ Replay(c)'[i] # Replay(b)[i]
    BY <2>1
  <2>3. i \in 1..n
    BY <1>3, <2>2
  <2>4. i - 1 \in 0..n /\ i - 1 \notin Bad
    <3> HIDE DEF Bad
    <3> QED BY <2>1, <2>3
  <2>5. Replay(c)'[i-1] = Replay(b)[i-1]
    BY <2>4
  <2>6. lines'[i] = lines[i] /\ (i \in Applied(c)' <=> i \in Applied(b))
    BY <2>3
  <2> HIDE DEF Bad
  <2> QED BY <1>4, <2>2, <2>3, <2>5, <2>6
<1> QED BY <1>5

\* Where the file is left alone every replay comes to what it came to.
LEMMA Unmoved ==
    ASSUME lines \in Seq(Lines), lines' = lines, NEW b \in Nat
    PROVE  Replay(b)'[Len(lines')] = Replay(b)[Len(lines)]
<1>1. Parsed' = Parsed /\ RestoresAt' = RestoresAt
  BY DEF Parsed, RestoresAt
<1>2. PICK S : S = Standing(b)
  OBVIOUS
<1>3. StandsBy(b, S)
  BY <1>2, StandingDef
<1>4. StandsBy(b, S)'
  BY <1>1, <1>3 DEF StandsBy, Undoes
<1>5. Standing(b)' = S
  BY <1>4, FileFactsLater DEF FileFacts
<1>6. Applied(b)' = Applied(b)
  BY <1>1, <1>2, <1>5 DEF Applied, Undoes
<1>7. Len(lines) \in Nat /\ Len(lines') = Len(lines)
  OBVIOUS
<1> QED BY <1>6, <1>7, SameFold

\* The file after a line that parses.
LEMMA AppendDef ==
    ASSUME lines \in Seq(Lines), NEW r \in Records \cup Restores,
           lines' = Append(lines, r)
    PROVE  /\ lines' \in Seq(Lines) /\ Len(lines) \in Nat
           /\ Len(lines') = Len(lines) + 1
           /\ \A i \in 1..Len(lines) : lines'[i] = lines[i]
           /\ lines'[Len(lines) + 1] = r
           /\ Parsed' = Parsed \cup {Len(lines) + 1}
           /\ RestoresAt' = RestoresAt \cup
                  (IF r.op = "Restore" THEN {Len(lines) + 1} ELSE {})
<1>1. r \in Lines /\ r # Garbage
  BY RecordGarbage DEF Lines
<1>2. /\ lines' \in Seq(Lines) /\ Len(lines) \in Nat
      /\ Len(lines') = Len(lines) + 1
      /\ DOMAIN lines = 1..Len(lines)
      /\ DOMAIN lines' = 1..(Len(lines) + 1)
      /\ \A i \in 1..Len(lines) : lines'[i] = lines[i]
      /\ lines'[Len(lines) + 1] = r
  BY <1>1
<1>3. 1..(Len(lines) + 1) = 1..Len(lines) \cup {Len(lines) + 1}
  BY <1>2
<1>4. Parsed' = Parsed \cup {Len(lines) + 1}
  BY <1>1, <1>2, <1>3 DEF Parsed
<1>5. \A i \in Parsed : i \in 1..Len(lines) /\ lines'[i] = lines[i]
  BY <1>2 DEF Parsed
<1>6. RestoresAt' = RestoresAt \cup
          (IF r.op = "Restore" THEN {Len(lines) + 1} ELSE {})
  BY <1>2, <1>4, <1>5 DEF RestoresAt
<1> QED BY <1>2, <1>4, <1>6

\* A write's line stands wherever the bound lets it, and leaves the rest.
LEMMA AppendWrite ==
    ASSUME lines \in Seq(Lines), NEW r \in Records, lines' = Append(lines, r),
           Ranged, \A i \in Parsed : lines[i].rev < r.rev, r.rev \in Nat,
           NEW b \in Nat
    PROVE  Replay(b)'[Len(lines')] =
               IF /\ r.op \in {"SetFlag", "DeleteNamespace"}
                  /\ b # 0 => r.rev <= b
               THEN After(Replay(b)[Len(lines)], r)
               ELSE Replay(b)[Len(lines)]
<1> DEFINE N == Len(lines)
<1>1. /\ lines' \in Seq(Lines) /\ N \in Nat /\ Len(lines') = N + 1
      /\ \A i \in 1..N : lines'[i] = lines[i]
      /\ lines'[N + 1] = r
      /\ Parsed' = Parsed \cup {N + 1}
      /\ RestoresAt' = RestoresAt
  <2>1. r.op # "Restore"
    BY DEF Records
  <2> QED BY <2>1, AppendDef
<1>2. \A i \in Parsed : i \in 1..N /\ lines[i].rev \in Nat
  BY ParsedType
<1>3. \A i \in RestoresAt : i \in Parsed
  BY DEF RestoresAt
<1>4. PICK S : S = Standing(b)
  OBVIOUS
<1>5. StandsBy(b, S)
  BY <1>4, StandingDef
<1>6. \A i \in RestoresAt : lines'[i] = lines[i]
  BY <1>1, <1>2, <1>3
<1>7. StandsBy(b, S)'
  BY <1>1, <1>5, <1>6 DEF StandsBy, Undoes
<1>8. Standing(b)' = S
  BY <1>1, <1>7, FileFactsLater DEF FileFacts
<1>9. \A j \in S : j \in RestoresAt
  BY <1>5 DEF StandsBy
<1>10. ASSUME NEW i \in 1..N PROVE i \in Applied(b)' <=> i \in Applied(b)
  <2>1. i # N + 1 /\ lines'[i] = lines[i]
    BY <1>1
  <2>2. i \in Parsed' <=> i \in Parsed
    BY <1>1, <2>1
  <2>3. \A j \in S : lines'[j] = lines[j]
    BY <1>6, <1>9
  <2> QED BY <1>4, <1>8, <2>1, <2>2, <2>3 DEF Applied, Undoes
<1>11. N + 1 \in Applied(b)' <=> /\ r.op \in {"SetFlag", "DeleteNamespace"}
                                 /\ b # 0 => r.rev <= b
  <2>1. ASSUME NEW j \in S PROVE ~Undoes(j, r.rev)'
    <3>1. lines'[j] = lines[j] /\ lines[j].from = lines[j].rev - 1
      BY <1>6, <1>9 DEF Ranged
    <3>2. lines[j].rev \in Nat /\ lines[j].rev < r.rev
      BY <1>2, <1>3, <1>9
    <3> QED BY <3>1, <3>2 DEF Undoes
  <2> QED BY <1>1, <1>8, <2>1 DEF Applied, Undoes
<1>12. Replay(b)'[N] = Replay(b)[N]
  BY <1>1, <1>10, SameFold
<1>13. Replay(b)'[N + 1] = IF N + 1 \in Applied(b)'
                           THEN After(Replay(b)'[N], r) ELSE Replay(b)'[N]
  <2>1. Replays(b, Replay(b), Len(lines))'
    BY <1>1, FileFactsLater DEF FileFacts
  <2>2. N + 1 \in 1..Len(lines') /\ (N + 1) - 1 = N
    BY <1>1
  <2> HIDE DEF N
  <2> QED BY <1>1, <2>1, <2>2 DEF Replays, Step, After
<1> HIDE DEF N
<1> QED BY <1>1, <1>11, <1>12, <1>13
\* A restore's line leaves what was replayed below its number, and at or above
\* it everything comes to what it went back to.
LEMMA AppendRestore ==
    ASSUME lines \in Seq(Lines), NEW r \in Restores, lines' = Append(lines, r),
           Ordered', Ranged', \A i \in Parsed : lines[i].rev < r.rev,
           NEW b \in Nat
    PROVE  Replay(b)'[Len(lines')] =
               IF b # 0 /\ b < r.rev THEN Replay(b)[Len(lines)]
               ELSE Replay(r.to)[Len(lines)]
<1> DEFINE N == Len(lines)
<1>1. /\ lines' \in Seq(Lines) /\ N \in Nat /\ Len(lines') = N + 1
      /\ \A i \in 1..N : lines'[i] = lines[i]
      /\ lines'[N + 1] = r
      /\ Parsed' = Parsed \cup {N + 1}
      /\ RestoresAt' = RestoresAt \cup {N + 1}
  <2>1. r.op = "Restore"
    BY DEF Restores
  <2> QED BY <2>1, AppendDef
<1>2. /\ r.op = "Restore" /\ r.rev \in Nat /\ r.to \in Nat
      /\ 1 <= r.to /\ r.to < r.rev
  <2>1. r.op = "Restore" /\ r.rev \in Nat /\ r.to \in Nat /\ r.from \in Nat
    BY DEF Restores
  <2>2. r.from = r.rev - 1 /\ 1 <= r.to /\ r.to < r.from
    BY <1>1 DEF Ranged
  <2> QED BY <2>1, <2>2
<1>3. \A i \in Parsed : i \in 1..N /\ lines[i].rev \in Nat /\ lines'[i] = lines[i]
  BY <1>1, ParsedType
<1>4. \A i \in RestoresAt : i \in Parsed
  BY DEF RestoresAt
<1>5. ASSUME NEW c \in Nat, c # 0, c < r.rev
      PROVE  /\ \A i \in 1..N : i \in Applied(c)' <=> i \in Applied(c)
             /\ N + 1 \notin Applied(c)'
             /\ Replay(c)'[N + 1] = Replay(c)[N]
  <2>1. PICK S : S = Standing(c)
    OBVIOUS
  <2>2. StandsBy(c, S)
    BY <2>1, StandingDef
  <2>3. \A j \in S : j \in RestoresAt /\ lines'[j] = lines[j]
    BY <1>3, <1>4, <2>2 DEF StandsBy
  <2>4. StandsBy(c, S)'
    <3>1. S \subseteq RestoresAt'
      BY <1>1, <2>3
    <3>2. ASSUME NEW i \in RestoresAt'
          PROVE  i \in S <=> /\ c # 0 => lines'[i].rev <= c
                             /\ \A j \in S : j > i => ~Undoes(j, lines[i].rev)'
      <4>1. CASE i = N + 1
        <5>1. ~(lines'[i].rev <= c)
          BY <1>1, <1>2, <1>5, <4>1
        <5>2. N + 1 \notin S
          BY <1>1, <1>3, <1>4, <2>3
        <5> QED BY <1>5, <4>1, <5>1, <5>2
      <4>2. CASE i \in RestoresAt
        <5>1. lines'[i] = lines[i]
          BY <1>3, <1>4, <4>2
        <5>2. i \in S <=> /\ c # 0 => lines[i].rev <= c
                          /\ \A j \in S : j > i => ~Undoes(j, lines[i].rev)
          BY <2>2, <4>2 DEF StandsBy
        <5> QED BY <2>3, <5>1, <5>2 DEF Undoes
      <4> QED BY <1>1, <4>1, <4>2
    <3> QED BY <3>1, <3>2 DEF StandsBy
  <2>5. Standing(c)' = S
    BY <1>1, <2>4, FileFactsLater DEF FileFacts
  <2>6. ASSUME NEW i \in 1..N PROVE i \in Applied(c)' <=> i \in Applied(c)
    <3>1. lines'[i] = lines[i] /\ (i \in Parsed' <=> i \in Parsed)
      BY <1>1
    <3> QED BY <2>1, <2>3, <2>5, <3>1 DEF Applied, Undoes
  <2>7. N + 1 \notin Applied(c)'
    BY <1>1, <1>2 DEF Applied
  <2>8. Replay(c)'[N] = Replay(c)[N]
    <3>1. /\ N \in Nat /\ N <= Len(lines) /\ N <= Len(lines')
          /\ \A i \in 1..N : lines'[i] = lines[i]
                             /\ (i \in Applied(c)' <=> i \in Applied(c))
      BY <1>1, <2>6
    <3> HIDE DEF N
    <3> QED BY <1>1, <3>1, SameFold
  <2>9. Replay(c)'[N + 1] = Replay(c)'[N]
    <3>1. Replays(c, Replay(c), Len(lines))'
      BY <1>1, FileFactsLater DEF FileFacts
    <3>2. N + 1 \in 1..Len(lines') /\ (N + 1) - 1 = N
      BY <1>1
    <3> HIDE DEF N
    <3> QED BY <2>7, <3>1, <3>2 DEF Replays, Step
  <2> QED BY <2>6, <2>7, <2>8, <2>9
<1>6. CASE b # 0 /\ b < r.rev
  BY <1>1, <1>5, <1>6
<1>7. CASE b = 0 \/ r.rev <= b
  <2>1. Applied(r.rev)' = Applied(r.to)'
    <3>1. \A j \in RestoresAt' : Applied(lines[j].rev)' = Applied(lines[j].to)'
      BY <1>1, FileFactsLater DEF FileFacts
    <3>2. N + 1 \in RestoresAt' /\ lines'[N + 1] = r
      BY <1>1
    <3> QED BY <3>1, <3>2
  <2>2. \A i \in Parsed' : lines'[i].rev \in Nat /\ lines'[i].rev <= r.rev
    BY <1>1, <1>2, <1>3
  <2>3. \A i \in Parsed' : (b # 0 => lines'[i].rev <= b)
                           <=> (r.rev # 0 => lines'[i].rev <= r.rev)
    <3> SUFFICES ASSUME NEW i \in Parsed', b # 0
                 PROVE  lines'[i].rev <= b
      BY <2>2
    <3>1. lines'[i].rev \in Nat /\ lines'[i].rev <= r.rev
      BY <2>2
    <3>2. r.rev \in Nat /\ r.rev <= b
      BY <1>2, <1>7
    <3> DEFINE m == lines'[i].rev
               n == r.rev
    <3> HIDE DEF m, n
    <3>3. m \in Nat /\ m <= n /\ n \in Nat /\ n <= b
      BY <3>1, <3>2 DEF m, n
    <3>4. m <= b
      BY <3>3
    <3> QED BY <3>4 DEF m
  <2>4. Applied(b)' = Applied(r.rev)'
    <3> HIDE DEF N
    <3> QED BY <1>1, <1>2, <2>3, FileFactsLater DEF FileFacts
  <2>5. \A i \in 1..N : i \in Applied(b)' <=> i \in Applied(r.to)
    BY <1>2, <1>5, <2>1, <2>4
  <2>6. Replay(b)'[N] = Replay(r.to)[N]
    <3>1. /\ N \in Nat /\ N <= Len(lines) /\ N <= Len(lines')
          /\ \A i \in 1..N : lines'[i] = lines[i]
                             /\ (i \in Applied(b)' <=> i \in Applied(r.to))
      BY <1>1, <2>5
    <3> HIDE DEF N
    <3> QED BY <1>1, <3>1, SameFold
  <2>7. Replay(b)'[N + 1] = Replay(b)'[N]
    <3>1. Replays(b, Replay(b), Len(lines))'
      BY <1>1, FileFactsLater DEF FileFacts
    <3>2. N + 1 \in 1..Len(lines') /\ (N + 1) - 1 = N
      BY <1>1
    <3>3. N + 1 \notin Applied(b)'
      BY <1>1, <1>2 DEF Applied
    <3> HIDE DEF N
    <3> QED BY <3>1, <3>2, <3>3 DEF Replays, Step
  <2> QED BY <1>1, <1>2, <1>7, <2>6, <2>7
<1> QED BY <1>2, <1>6, <1>7

---------------------------------------------------------------------------
(***************************************************************************)
(* What a replay comes to, bounded or not.                                  *)
(***************************************************************************)

\* The file and the history of what was in force agree at every number that
\* was or can yet be given out.
Booked ==
    (Readable /\ ~spoiled) =>
        /\ Replay(0)[Len(lines)] = Told
        /\ \A b \in 1..MaxTries : Replay(b)[Len(lines)] = book[b]

\* The record of a flip or a retire does what the write did.
LEMMA TellsLine ==
    ASSUME NEW r \in Writes, NEW n, NEW s,
           r.op \in {"SetFlag", "DeleteNamespace"}
    PROVE  After(s, RecordOf(r, n)) = After(s, r)
BY DEF After, Outcome, RecordOf

\* A file numbered in order, all of whose lines parse, can be replayed.
LEMMA OrderedReads ==
    ASSUME Parsed = DOMAIN lines, Ordered
    PROVE  Readable
<1>1. RestoresAt \subseteq Parsed
  BY DEF RestoresAt
<1> QED BY <1>1 DEF Readable, InOrder, Ordered

LEMMA BookedNext ==
    RecordInv /\ Numbered /\ Ranged /\ Booked /\ [Next]_vars => Booked'
<1> SUFFICES ASSUME RecordInv, Numbered, Ranged, Booked, [Next]_vars,
                    Readable', ~spoiled'
             PROVE  /\ Replay(0)'[Len(lines')] = Told'
                    /\ \A b \in 1..MaxTries : Replay(b)'[Len(lines')] = book'[b]
  BY DEF Booked
<1>t. /\ lines \in Seq(Lines) /\ rev \in Nat /\ tries \in Nat /\ bound \in Nat
      /\ book \in [0..MaxTries -> Stores] /\ DOMAIN book = 0..MaxTries
      /\ MaxTries \in Nat
      /\ rev <= tries /\ tries <= MaxTries /\ bound <= tries
  BY RecordBounds DEF RecordInv, RecordTypeOK, Lines, Bounded
<1>p. \A i \in Parsed : lines[i].rev \in Nat
  BY <1>t, ParsedType
<1>n. Ordered' /\ Ranged' /\ RecordInv'
  BY RecordInvNext, NumberedNext, RangedNext DEF Numbered, Ordered
<1>1. ASSUME lines' = lines, book' = book, spoiled' = spoiled \/ ~spoiled
      PROVE  \/ spoiled
             \/ /\ Replay(0)'[Len(lines')] = Told'
                /\ \A b \in 1..MaxTries : Replay(b)'[Len(lines')] = book'[b]
  <2>1. Readable
    BY <1>1 DEF Readable, InOrder, Parsed, RestoresAt
  <2>2. Told' = Told
    BY <1>1 DEF Told
  <2>3. \A b \in Nat : Replay(b)'[Len(lines')] = Replay(b)[Len(lines)]
    BY <1>t, <1>1, Unmoved
  <2> QED BY <1>1, <2>1, <2>2, <2>3 DEF Booked
<1>2. ASSUME NEW r \in Records \cup Restores, Puts(r)
      PROVE  lines' = Append(lines, r) /\ Parsed = DOMAIN lines
  <2>1. ~torn
    <3>1. Parsed' = DOMAIN lines'
      BY DEF Readable
    <3> SUFFICES ASSUME torn PROVE FALSE
      OBVIOUS
    <3>2. lines' = Append(lines, Garbage) /\ Garbage \in Lines
      BY <1>2 DEF Puts, Lines
    <3>3. Len(lines) + 1 \in DOMAIN lines' /\ lines'[Len(lines) + 1] = Garbage
      BY <1>t, <3>2
    <3> QED BY <3>1, <3>3 DEF Parsed
  <2>2. lines' = Append(lines, r)
    BY <1>2, <2>1 DEF Puts
  <2>3. Parsed' = Parsed \cup {Len(lines) + 1} /\ Len(lines') = Len(lines) + 1
        /\ lines' \in Seq(Lines) /\ Len(lines) \in Nat
    BY <1>t, <2>2, AppendDef
  <2>4. 1..(Len(lines) + 1) = Parsed \cup {Len(lines) + 1}
    <3>1. Parsed' = DOMAIN lines'
      BY DEF Readable
    <3>2. DOMAIN lines' = 1..(Len(lines) + 1)
      BY <2>3
    <3> QED BY <2>3, <3>1, <3>2
  <2>5. \A i \in Parsed : i \in 1..Len(lines)
    BY <1>t, ParsedType
  <2>6. \A i \in 1..Len(lines) : i \in Parsed
    BY <2>3, <2>4
  <2> QED BY <1>t, <2>2, <2>5, <2>6
<1>3. ASSUME NEW r \in Requests \cup Offline \cup {Declaration},
             Write(r) \/ WriteUnsynced(r)
      PROVE  /\ Replay(0)'[Len(lines')] = Told'
             /\ \A b \in 1..MaxTries : Replay(b)'[Len(lines')] = book'[b]
  <2> DEFINE N == rev + 1
             l == RecordOf(r, N)
  <2>1. Attempt(r) /\ Puts(l) /\ Says(N, TellsOf(r))
    BY <1>3 DEF Write, WriteUnsynced
  <2>2. /\ r \in Writes /\ l \in Records /\ l.rev = N /\ l.op = r.op
        /\ tries < MaxTries /\ ~spoiled /\ ~halved /\ exists
    <3>1. r \in Writes /\ l \in Records /\ l.rev = N
      BY <2>1, AttemptDef
    <3>2. l.op = r.op
      BY DEF RecordOf
    <3>3. /\ spoiled' = (spoiled \/ halved) /\ tries < MaxTries
          /\ mode \in {"serving", "declare"} \/ exists
      BY <2>1 DEF Attempt
    <3> QED BY <3>1, <3>2, <3>3 DEF Numbered
  <2> HIDE DEF l
  <2>3. lines' = Append(lines, l) /\ Readable
    <3>1. lines' = Append(lines, l) /\ Parsed = DOMAIN lines
      BY <1>2, <2>1, <2>2
    <3>2. Ordered
      BY <2>2 DEF Numbered, Ordered
    <3> QED BY <3>1, <3>2, OrderedReads
  <2>4. N \in 1..MaxTries /\ \A i \in Parsed : lines[i].rev < N
    <3>1. \A i \in Parsed : lines[i].rev <= rev
      BY <2>2 DEF Numbered
    <3> QED BY <1>t, <1>p, <2>2, <3>1
  <2>5. Replay(0)[Len(lines)] = Told
        /\ \A b \in 1..MaxTries : Replay(b)[Len(lines)] = book[b]
    BY <2>2, <2>3 DEF Booked
  <2>6. ASSUME NEW b \in 0..MaxTries, b = 0 \/ N <= b
        PROVE  Replay(b)'[Len(lines')] = TellsOf(r)
    <3>1. Replay(b)[Len(lines)] = Told
      <4>1. \A i \in Parsed : (b # 0 => lines[i].rev <= b)
                              <=> (0 # 0 => lines[i].rev <= 0)
        <5>1. \A i \in Parsed : lines[i].rev \in Nat /\ lines[i].rev < N
          BY <1>t, <1>p, <2>4
        <5>2. \A i \in Parsed : b # 0 => lines[i].rev <= b
          BY <2>4, <2>6, <5>1
        <5> QED BY <5>2
      <4>2. b \in Nat /\ 0 \in Nat /\ lines \in Seq(Lines)
        BY <1>t, <2>6
      <4>3. Applied(b) = Applied(0)
        BY <4>1, <4>2, SameBound
      <4> QED BY <2>5, <4>3, SameReplay
    <3>2. Replay(b)'[Len(lines')] =
              IF r.op \in {"SetFlag", "DeleteNamespace"} THEN After(Told, l) ELSE Told
      <4>1. b # 0 => l.rev <= b
        BY <2>2, <2>6
      <4>2. Replay(b)'[Len(lines')] =
              IF /\ l.op \in {"SetFlag", "DeleteNamespace"}
                 /\ b # 0 => l.rev <= b
              THEN After(Replay(b)[Len(lines)], l)
              ELSE Replay(b)[Len(lines)]
        BY <1>t, <2>2, <2>3, <2>4, AppendWrite
      <4> QED BY <2>2, <3>1, <4>1, <4>2
    <3>3. CASE r.op = "PublishNamespace"
      BY <3>2, <3>3 DEF TellsOf
    <3>4. CASE r.op \in {"SetFlag", "DeleteNamespace"}
      <4>1. After(Told, l) = After(Told, r)
        BY <2>2, <3>4, TellsLine DEF l
      <4> QED BY <3>2, <3>4, <4>1 DEF TellsOf
    <3> QED BY <2>2, <3>3, <3>4 DEF Writes, Flips, Publishes, Retires
  <2>7. ASSUME NEW b \in 1..MaxTries, b < N
        PROVE  Replay(b)'[Len(lines')] = book[b]
    <3>1. ~(b # 0 => l.rev <= b)
      BY <1>t, <2>2, <2>7
    <3>2. Replay(b)'[Len(lines')] = Replay(b)[Len(lines)]
      <4>1. Replay(b)'[Len(lines')] =
              IF /\ l.op \in {"SetFlag", "DeleteNamespace"}
                 /\ b # 0 => l.rev <= b
              THEN After(Replay(b)[Len(lines)], l)
              ELSE Replay(b)[Len(lines)]
        BY <1>t, <2>2, <2>3, <2>4, AppendWrite
      <4> QED BY <3>1, <4>1
    <3> QED BY <2>5, <3>2
  <2>8. \A b \in 0..MaxTries : book'[b] = IF b >= N THEN TellsOf(r) ELSE book[b]
    BY <1>t, <2>1 DEF Says
  <2> HIDE DEF N
  <2>9. Told' = TellsOf(r)
    BY <1>t, <2>4, <2>8 DEF Told
  <2>10. Replay(0)'[Len(lines')] = Told'
    BY <1>t, <2>6, <2>9
  <2>11. ASSUME NEW b \in 1..MaxTries PROVE Replay(b)'[Len(lines')] = book'[b]
    BY <1>t, <2>4, <2>6, <2>7, <2>8
  <2> QED BY <2>10, <2>11
<1>4. CASE RestoreRecorded
  <2> DEFINE r == [op |-> "Restore", rev |-> rev, to |-> bound, from |-> rev - 1]
  <2>1. /\ mode = "append" /\ Puts(r) /\ Says(rev, book[bound])
        /\ spoiled' = spoiled
    BY <1>4 DEF RestoreRecorded
  <2>2. 1 <= bound /\ bound < rev - 1
    BY <2>1 DEF Ranged
  <2>3. r \in Restores /\ r.rev = rev /\ r.to = bound
    BY <1>t, <2>2 DEF Restores
  <2> HIDE DEF r
  <2>4. \A i \in Parsed : lines[i].rev < r.rev
    BY <2>1, <2>3 DEF Numbered
  <2>5. lines' = Append(lines, r) /\ Readable
    <3>1. lines' = Append(lines, r) /\ Parsed = DOMAIN lines
      BY <1>2, <2>1, <2>3
    <3>2. Ordered
      BY <2>1 DEF Numbered, Ordered
    <3> QED BY <3>1, <3>2, OrderedReads
  <2>6. \A b \in 1..MaxTries : Replay(b)[Len(lines)] = book[b]
    BY <2>1, <2>5 DEF Booked
  <2>7. bound \in 1..MaxTries /\ rev \in 1..MaxTries
    BY <1>t, <2>2
  <2>8. \A b \in Nat : Replay(b)'[Len(lines')] =
            IF b # 0 /\ b < rev THEN Replay(b)[Len(lines)] ELSE book[bound]
    BY <1>t, <1>n, <2>3, <2>4, <2>5, <2>6, <2>7, AppendRestore
  <2>9. \A b \in 0..MaxTries :
            book'[b] = IF b >= rev THEN book[bound] ELSE book[b]
    BY <1>t, <2>1 DEF Says
  <2>10. Replay(0)'[Len(lines')] = Told'
    <3>1. Told' = book[bound]
      BY <1>t, <2>7, <2>9 DEF Told
    <3> QED BY <2>8, <3>1
  <2>11. ASSUME NEW b \in 1..MaxTries PROVE Replay(b)'[Len(lines')] = book'[b]
    BY <1>t, <2>6, <2>7, <2>8, <2>9
  <2> QED BY <2>10, <2>11
<1>5. CASE /\ lines' = lines /\ book' = book
           /\ spoiled' \in {spoiled, spoiled \/ halved}
  BY <1>1, <1>5
<1>6. ASSUME NEW r \in Requests \cup Offline \cup {Declaration},
             WriteFails(r) \/ WriteDies(r)
      PROVE  /\ lines' = lines /\ book' = book
             /\ spoiled' \in {spoiled, spoiled \/ halved}
  BY <1>6 DEF WriteFails, WriteDies, Attempt
<1>7. World \/ Boot \/ UNCHANGED vars
      => /\ lines' = lines /\ book' = book
         /\ spoiled' \in {spoiled, spoiled \/ halved}
  BY DEF World, Stop, MediumFails, MediumRecovers, Wipe, Boot, BootFound,
         BootHealed, BootRefused, BootKilled, Halfway, vars, file, past
<1>8. ASSUME NEW to, Restore(to) \/ RestoreKilled(to)
      PROVE  lines' = lines /\ book' = book /\ spoiled' = spoiled
  BY <1>8 DEF Restore, RestoreKilled, Halfway, file
<1>9. RestoreUnrecorded => lines' = lines /\ book' = book /\ spoiled' = spoiled
  BY DEF RestoreUnrecorded
<1> QED
  BY <1>3, <1>4, <1>5, <1>6, <1>7, <1>8, <1>9 DEF Next, Serve, RestoreStep

LEMMA BookedInvariant == Spec => [](RecordInv /\ Numbered /\ Ranged /\ Booked)
<1>1. Init => Booked
  <2> SUFFICES ASSUME Init
               PROVE  /\ Replay(0)[Len(lines)] = Told
                      /\ \A b \in 1..MaxTries : Replay(b)[Len(lines)] = book[b]
    BY DEF Booked
  <2>1. lines \in Seq(Lines) /\ Len(lines) = 0
    BY DEF Init
  <2>2. \A b : Replay(b)[Len(lines)] = EmptyStore
    BY <2>1, ReplayDef DEF Replays
  <2>3. \A b \in 0..MaxTries : book[b] = EmptyStore
    BY DEF Init
  <2> QED BY <2>2, <2>3, RecordBounds DEF Told
<1> QED BY <1>1, RangedInvariant, BookedNext, RecordInvInit, PTL DEF Spec

\* "A store healed after a restore comes back as the restore left it, and a
\* replay bounded at a revision ... is the state as of that revision,
\* exactly": for any file the server, its boots, the tool and the restores can
\* have written, however the restores undid each other.
THEOREM ReplayTheorem == Spec => []RecordReplays
<1>1. RecordInv /\ Booked => RecordReplays
  <2> SUFFICES ASSUME RecordInv, Booked PROVE RecordReplays
    OBVIOUS
  <2>1. /\ lines \in Seq(Lines) /\ tries \in Nat /\ tries <= MaxTries
        /\ \A i \in Parsed : lines[i].rev <= tries
    BY DEF RecordInv, RecordTypeOK, Lines, Bounded
  <2>2. Highest \in Nat /\ Highest <= MaxTries
    BY <2>1, HighestDef, RecordBounds
  <2>3. \A b \in 1..Highest : b \in 1..MaxTries
    BY <2>2, RecordBounds
  <2> QED BY <2>3 DEF Booked, RecordReplays
<1> QED BY <1>1, BookedInvariant, PTL

---------------------------------------------------------------------------
(***************************************************************************)
(* The store and the record.                                                *)
(***************************************************************************)

\* Namespace n of store d is what the flips s come to, and what was declared.
Holds(s, d, n) ==
    \A k \in Keys :
        LET said == Bucket(s[n])[k]
            held == Bucket(d[n])[k]
        IN  /\ said # NoFlag => held # NoFlag /\ held.value = said.value
            /\ said = NoFlag /\ held # NoFlag => held.meta # NoMeta

\* The store holds what the record says: all of it, or while a restore has yet
\* to write its line, what the record said at the number asked for.
Kept ==
    (exists /\ ~halved /\ ~spoiled) =>
        \A n \in Namespaces \ parted :
            Holds(IF mode = "append" THEN book[bound] ELSE Told, disk, n)

\* A write does the same to the store and to what the record says of it.
LEMMA HoldsAfter ==
    ASSUME NEW s \in Stores, NEW d \in Stores, NEW r \in Writes,
           ~Refused(d[r.ns], r), NEW n \in Namespaces, Holds(s, d, n),
           NEW t \in Stores,
           t = IF r.op = "PublishNamespace" THEN s ELSE After(s, r)
    PROVE  Holds(t, After(d, r), n)
<1>1. /\ r.ns \in Namespaces
      /\ After(d, r)[r.ns] = Outcome(d[r.ns], r)
      /\ \A m \in Namespaces : m # r.ns => After(d, r)[m] = d[m]
  BY AfterType
<1>2. /\ s[n] \in Contents \cup {Absent} /\ d[n] \in Contents \cup {Absent}
      /\ Bucket(s[n]) \in Contents /\ Bucket(d[n]) \in Contents
  BY BucketType DEF Stores
<1>3. r.op # "PublishNamespace" =>
          /\ t[r.ns] = Outcome(s[r.ns], r)
          /\ \A m \in Namespaces : m # r.ns => t[m] = s[m]
  BY <1>1 DEF After, Stores
<1>4. CASE n # r.ns
  BY <1>1, <1>3, <1>4 DEF Holds
<1>5. CASE n = r.ns /\ r \in Flips
  <2>1. r.op = "SetFlag" /\ r.key \in Keys /\ r.value \in Values
    BY <1>5 DEF Flips, Refused
  <2>2. /\ t[n] = Flipped(s[n], r.key, r.value)
        /\ After(d, r)[n] = Flipped(d[n], r.key, r.value)
    BY <1>1, <1>3, <1>5, <2>1 DEF Outcome
  <2>3. ASSUME NEW c \in Contents \cup {Absent}, NEW k \in Keys
        PROVE  /\ Bucket(Flipped(c, r.key, r.value)) = Flipped(c, r.key, r.value)
               /\ k # r.key => Flipped(c, r.key, r.value)[k] = Bucket(c)[k]
               /\ k = r.key => /\ Flipped(c, r.key, r.value)[k] # NoFlag
                               /\ Flipped(c, r.key, r.value)[k].value = r.value
    <3> DEFINE f == [value |-> r.value,
                     meta  |-> IF Bucket(c)[r.key] = NoFlag THEN NoMeta
                               ELSE Bucket(c)[r.key].meta]
    <3>1. Bucket(c) \in Contents
      BY BucketType
    <3>2. f \in Flag
      BY <2>1, <3>1 DEF Contents, Flag
    <3>3. f.value = r.value /\ Flipped(c, r.key, r.value) = [Bucket(c) EXCEPT ![r.key] = f]
      BY DEF Flipped
    <3> HIDE DEF f
    <3>4. Flipped(c, r.key, r.value) \in Contents
      BY <2>1, <3>1, <3>2, <3>3 DEF Contents
    <3>5. Bucket(Flipped(c, r.key, r.value)) = Flipped(c, r.key, r.value)
      BY <3>4, NotAbsent
    <3>6. Flipped(c, r.key, r.value)[k] = IF k = r.key THEN f ELSE Bucket(c)[k]
      BY <3>1, <3>3 DEF Contents
    <3> QED BY <3>2, <3>3, <3>5, <3>6, NotAbsent
  <2> QED BY <1>2, <2>2, <2>3 DEF Holds
<1>6. CASE n = r.ns /\ r \in Publishes
  <2>1. /\ r.op = "PublishNamespace" /\ r.flags \in [Keys -> Declared \cup {NoFlag}]
        /\ t = s
    BY <1>6 DEF Publishes
  <2>2. After(d, r)[n] = Merged(d[n], r.flags)
    BY <1>1, <1>6, <2>1 DEF Outcome
  <2>3. Merged(d[n], r.flags) \in Contents
    <3>1. \A k \in Keys : Merged(d[n], r.flags)[k] \in Flag \cup {NoFlag}
      BY <1>2, <2>1 DEF Merged, Contents, Declared, Flag
    <3> QED BY <3>1 DEF Merged, Contents
  <2>4. Bucket(After(d, r)[n]) = Merged(d[n], r.flags)
    BY <2>2, <2>3, NotAbsent
  <2>5. ASSUME NEW k \in Keys
        PROVE  LET said == Bucket(s[n])[k]
                   held == Bucket(d[n])[k]
                   now  == Merged(d[n], r.flags)[k]
               IN  /\ said # NoFlag => now # NoFlag /\ now.value = said.value
                   /\ said = NoFlag /\ now # NoFlag => now.meta # NoMeta
    <3>1. /\ Bucket(s[n])[k] # NoFlag =>
                 Bucket(d[n])[k] # NoFlag
                 /\ Bucket(d[n])[k].value = Bucket(s[n])[k].value
          /\ Bucket(s[n])[k] = NoFlag /\ Bucket(d[n])[k] # NoFlag =>
                 Bucket(d[n])[k].meta # NoMeta
      BY DEF Holds
    <3>2. CASE r.flags[k] = NoFlag
      BY <3>1, <3>2 DEF Merged
    <3>3. CASE r.flags[k] # NoFlag
      <4>1. r.flags[k] \in Declared /\ r.flags[k].meta # NoMeta
        BY <2>1, <3>3, SentinelAssumption DEF Declared
      <4>2. CASE Bucket(d[n])[k] = NoFlag
        <5>1. Merged(d[n], r.flags)[k] = r.flags[k]
          BY <3>3, <4>2 DEF Merged
        <5> QED BY <3>1, <4>1, <4>2, <5>1
      <4>3. CASE Bucket(d[n])[k] # NoFlag
        <5> DEFINE f == [value |-> Bucket(d[n])[k].value, meta |-> r.flags[k].meta]
        <5>1. Merged(d[n], r.flags)[k] = f
          BY <3>3, <4>3 DEF Merged
        <5>2. f \in Flag
          BY <1>2, <4>1, <4>3 DEF Contents, Flag, Declared
        <5>3. f # NoFlag
          BY <5>2, NotAbsent
        <5> QED BY <3>1, <4>1, <4>3, <5>1, <5>3
      <4> QED BY <4>2, <4>3
    <3> QED BY <3>2, <3>3
  <2> QED BY <2>1, <2>4, <2>5 DEF Holds
<1>7. CASE n = r.ns /\ r \in Retires
  <2>1. t[n] = Absent /\ After(d, r)[n] = Absent
    BY <1>1, <1>3, <1>7 DEF Retires, Outcome
  <2> QED BY <2>1 DEF Holds
<1> QED BY <1>4, <1>5, <1>6, <1>7 DEF Writes

LEMMA KeptNext ==
    RecordInv /\ Numbered /\ Ranged /\ Booked /\ Kept /\ [Next]_vars => Kept'
<1> SUFFICES ASSUME RecordInv, Numbered, Ranged, Booked, Kept, [Next]_vars,
                    exists', ~halved', ~spoiled',
                    NEW n \in Namespaces, n \notin parted'
             PROVE  Holds(IF mode' = "append" THEN book'[bound'] ELSE Told',
                          disk', n)
  BY DEF Kept, Holds
<1>t. /\ disk \in Stores /\ rev \in Nat /\ tries \in Nat /\ bound \in Nat
      /\ book \in [0..MaxTries -> Stores] /\ DOMAIN book = 0..MaxTries
      /\ MaxTries \in Nat /\ Told \in Stores
      /\ rev <= tries /\ tries <= MaxTries /\ bound <= tries
  BY RecordBounds DEF RecordInv, RecordTypeOK, Bounded, Told
<1>s. \A s : Holds(s, s, n)
  BY DEF Holds
<1>k. /\ exists /\ ~halved /\ ~spoiled /\ n \notin parted /\ mode # "append"
      => Holds(Told, disk, n)
  BY DEF Kept
<1>b. book' = book => Told' = Told
  BY DEF Told
<1>1. ASSUME NEW r \in Requests \cup Offline \cup {Declaration}, Attempt(r)
      PROVE  /\ r \in Writes /\ r.ns \in Namespaces /\ ~Refused(disk[r.ns], r)
             /\ TellsOf(r) \in Stores
             /\ rev + 1 \in Nat /\ rev + 1 <= MaxTries
             /\ exists /\ ~spoiled /\ ~halved /\ mode # "append"
             /\ n # r.ns => TellsOf(r)[n] = Told[n]
  <2>1. /\ r \in Writes /\ r.ns \in Namespaces /\ TellsOf(r) \in Stores
        /\ mode # "append"
    BY <1>1, AttemptDef
  <2>2. /\ ~Refused(disk[r.ns], r) /\ tries < MaxTries
        /\ spoiled' = (spoiled \/ halved)
        /\ mode \in {"serving", "declare"} \/ exists
    BY <1>1 DEF Attempt
  <2>3. n # r.ns => TellsOf(r)[n] = Told[n]
    BY <1>t DEF TellsOf, After, Stores
  <2>4. rev + 1 \in Nat /\ rev + 1 <= MaxTries
    BY <1>t, <2>2
  <2> QED BY <2>1, <2>2, <2>3, <2>4 DEF Numbered
<1>2. ASSUME NEW m \in Nat, m <= MaxTries, NEW s, Says(m, s) PROVE Told' = s
  BY <1>t, <1>2 DEF Says, Told
<1>3. ASSUME NEW r \in Requests \cup Offline \cup {Declaration}, Write(r)
      PROVE  Holds(Told', disk', n) /\ mode' # "append"
  <2>1. /\ Attempt(r) /\ disk' = After(disk, r) /\ Says(rev + 1, TellsOf(r))
        /\ parted' = parted
        /\ mode' = IF mode = "declare" THEN "serving" ELSE mode
    BY <1>3 DEF Write
  <2>2. Told' = TellsOf(r)
    <3>1. rev + 1 \in Nat /\ rev + 1 <= MaxTries
      BY <1>1, <2>1
    <3> QED BY <1>2, <2>1, <3>1
  <2>3. Holds(Told, disk, n)
    BY <1>1, <1>k, <2>1
  <2>4. Holds(TellsOf(r), After(disk, r), n)
    BY <1>t, <1>1, <2>1, <2>3, HoldsAfter DEF TellsOf
  <2> QED BY <1>1, <2>1, <2>2, <2>4
<1>4. ASSUME NEW r \in Requests \cup Offline \cup {Declaration}, WriteFails(r)
      PROVE  Holds(Told', disk', n) /\ mode' # "append"
  <2>1. /\ Attempt(r) /\ disk' = disk /\ book' = book /\ parted' = parted
        /\ mode' = IF mode = "declare" THEN "down" ELSE mode
    BY <1>4 DEF WriteFails, GivesUp
  <2> QED BY <1>1, <1>b, <1>k, <2>1
<1>5. ASSUME NEW r \in Requests \cup Offline \cup {Declaration}, WriteUnsynced(r)
      PROVE  Holds(Told', disk', n) /\ mode' # "append"
  <2>1. /\ Attempt(r) /\ disk' = disk /\ Says(rev + 1, TellsOf(r))
        /\ parted' = parted \cup {r.ns}
        /\ mode' = IF mode = "declare" THEN "down" ELSE mode
    BY <1>5 DEF WriteUnsynced, GivesUp
  <2>2. Told' = TellsOf(r)
    <3>1. rev + 1 \in Nat /\ rev + 1 <= MaxTries
      BY <1>1, <2>1
    <3> QED BY <1>2, <2>1, <3>1
  <2>3. Holds(Told, disk, n) /\ TellsOf(r)[n] = Told[n]
    BY <1>1, <1>k, <2>1
  <2>4. Holds(TellsOf(r), disk, n)
    BY <2>3 DEF Holds
  <2> QED BY <1>1, <2>1, <2>2, <2>4
<1>6. ASSUME NEW r \in Requests \cup Offline \cup {Declaration}, WriteDies(r)
      PROVE  Holds(Told', disk', n) /\ mode' # "append"
  <2>1. /\ Attempt(r) /\ disk' = After(disk, r) /\ book' = book
        /\ parted' = parted \cup {r.ns} /\ mode' = "down"
    BY <1>6 DEF WriteDies
  <2>2. Holds(Told, disk, n) /\ After(disk, r)[n] = disk[n]
    <3>1. Holds(Told, disk, n)
      BY <1>1, <1>k, <2>1
    <3>2. After(disk, r)[n] = disk[n]
      BY <1>t, <1>1, <2>1, AfterType
    <3> QED BY <3>1, <3>2
  <2>3. Holds(Told, After(disk, r), n)
    BY <2>2 DEF Holds
  <2> QED BY <1>b, <2>1, <2>3
<1>7. CASE Stop \/ BootFound
  <2>1. /\ exists' = exists /\ halved' = halved /\ parted' = parted
        /\ disk' = disk /\ book' = book /\ spoiled' \in {spoiled, spoiled \/ halved}
        /\ mode # "append" /\ mode' # "append"
    BY <1>7 DEF Stop, BootFound, store, past
  <2> QED BY <1>b, <1>k, <2>1
<1>8. CASE MediumFails \/ MediumRecovers \/ UNCHANGED vars
  <2>1. /\ exists' = exists /\ halved' = halved /\ parted' = parted
        /\ disk' = disk /\ book' = book /\ spoiled' = spoiled
        /\ mode' = mode /\ bound' = bound
    BY <1>8 DEF MediumFails, MediumRecovers, vars, store, process, past
  <2> QED BY <1>b, <2>1 DEF Kept
<1>9. CASE Wipe \/ BootRefused \/ BootKilled
  BY <1>9 DEF Wipe, BootRefused, BootKilled, Halfway
<1>10. CASE BootHealed
  <2>1. /\ Readable /\ disk' = Replay(0)[Len(lines)] /\ book' = book
        /\ mode' = "declare" /\ spoiled' = spoiled
    BY <1>10 DEF BootHealed, past
  <2>2. disk' = Told
    BY <2>1 DEF Booked
  <2> QED BY <1>b, <1>s, <2>1, <2>2
<1>11. ASSUME NEW to \in 1..rev, Restore(to)
       PROVE  Holds(book'[bound'], disk', n)
  <2>1. /\ Readable /\ disk' = Replay(to)[Len(lines)] /\ book' = book
        /\ bound' = to /\ spoiled' = spoiled
    BY <1>11 DEF Restore, RestoreChecks
  <2>2. to \in 1..MaxTries
    BY <1>t
  <2>3. disk' = book[to]
    BY <2>1, <2>2 DEF Booked
  <2> QED BY <1>s, <2>1, <2>3
<1>12. ASSUME NEW to \in 1..rev, RestoreKilled(to) PROVE FALSE
  BY <1>12 DEF RestoreKilled, Halfway
<1>13. CASE RestoreRecorded
  <2>1. /\ mode = "append" /\ Says(rev, book[bound]) /\ mode' = "down"
        /\ exists' = exists /\ disk' = disk /\ halved' = halved
        /\ spoiled' = spoiled /\ parted' = parted
    BY <1>13 DEF RestoreRecorded, store
  <2>2. Told' = book[bound]
    BY <1>t, <1>2, <2>1
  <2> QED BY <2>1, <2>2 DEF Kept
<1>14. CASE RestoreUnrecorded
  BY <1>14 DEF RestoreUnrecorded
<1>15. ASSUME NEW to \in 1..rev, Restore(to) PROVE mode' = "append"
  BY <1>15 DEF Restore
<1> QED
  BY <1>3, <1>4, <1>5, <1>6, <1>7, <1>8, <1>9, <1>10, <1>11, <1>12, <1>13,
     <1>14, <1>15
  DEF Next, Serve, Boot, RestoreStep, World

\* The store and the record tell the same story: for any requests, any faults
\* and any number of heals, restores, rollbacks and restarts, where no fault
\* parted them every flag the record speaks of has the value it says, and a
\* flag it does not speak of was declared.
THEOREM HoldsTheorem == Spec => []StoreHoldsTheRecord
<1>1. Init => Kept
  BY DEF Init, Kept
<1>2. Spec => [](RecordInv /\ Numbered /\ Ranged /\ Booked /\ Kept)
  BY <1>1, RecordInvInit, BookedInvariant, KeptNext, PTL DEF Spec
<1>3. Kept => StoreHoldsTheRecord
  BY DEF Kept, Holds, StoreHoldsTheRecord
<1> QED BY <1>2, <1>3, PTL
=============================================================================
