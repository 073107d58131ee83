------------------------ MODULE FliprRecord_proofs ------------------------
(***************************************************************************)
(* Theorems about FliprRecord, for any services, keys, values, requests,    *)
(* faults and bounds.                                                       *)
(***************************************************************************)
EXTENDS FliprRecord, FlagRules_proofs, FiniteSetTheorems, SequenceTheorems,
        WellFoundedInduction, TLAPS

---------------------------------------------------------------------------
(***************************************************************************)
(* Induction on the lines of a file, as the least number principle on sets. *)
(***************************************************************************)

\* A set of naturals that is not empty has a least element.
LEMMA LeastNatural ==
    ASSUME NEW T \in SUBSET Nat, T # {}
    PROVE  \E x \in T : \A y \in T : x <= y
<1> DEFINE R == OpToRel(<, Nat)
<1>1. IsWellFoundedOn(R, Nat)
  BY NatLessThanWellFounded
<1>2. PICK x \in T : \A y \in T : <<y, x>> \notin R
  <2> HIDE DEF R
  <2> QED BY <1>1, WFMin
<1>3. \A y \in T : ~(y < x)
  BY <1>2 DEF OpToRel
<1> QED BY <1>3

\* A set of naturals with a bound has a greatest element.
LEMMA GreatestNatural ==
    ASSUME NEW T \in SUBSET Nat, T # {}, NEW m \in Nat, \A y \in T : y <= m
    PROVE  \E x \in T : \A y \in T : y <= x
<1> DEFINE Bounds == {n \in Nat : \A y \in T : y <= n}
<1>1. PICK b \in Bounds : \A n \in Bounds : b <= n
  <2>1. m \in Bounds
    OBVIOUS
  <2> HIDE DEF Bounds
  <2>2. Bounds \in SUBSET Nat
    BY DEF Bounds
  <2> QED BY <2>1, <2>2, LeastNatural
<1>2. CASE b \in T
  BY <1>1, <1>2
<1>3. CASE b \notin T
  <2>1. \A y \in T : y <= b - 1
    BY <1>1, <1>3
  <2>2. PICK y \in T : TRUE
    OBVIOUS
  <2>3. b - 1 \in Bounds
    BY <1>1, <2>1, <2>2
  <2> QED BY <1>1, <2>3
<1> QED BY <1>2, <1>3

\* Finitely many naturals have a bound.
LEMMA NumbersBounded ==
    ASSUME NEW N \in Nat, NEW D \in SUBSET (1..N), NEW f \in [D -> Nat]
    PROVE  \E m \in Nat : \A i \in D : f[i] <= m
<1> DEFINE Below(n, m) == \A i \in D : i <= n => f[i] <= m
           Bounded(n) == \E m \in Nat : Below(n, m)
           Bad == {n \in 0..N : ~Bounded(n)}
<1>1. Bounded(0)
  OBVIOUS
<1>2. ASSUME NEW n \in 1..N, Bounded(n - 1) PROVE Bounded(n)
  <2>1. PICK m \in Nat : Below(n - 1, m)
    BY <1>2
  <2>2. CASE n \in D
    <3>1. f[n] \in Nat /\ m + f[n] \in Nat
      BY <2>2
    <3>2. ASSUME NEW i \in D, i <= n PROVE f[i] <= m + f[n]
      <4>1. i = n \/ i <= n - 1
        BY <3>2
      <4>2. f[i] \in Nat
        OBVIOUS
      <4> QED BY <2>1, <3>1, <4>1, <4>2
    <3> QED BY <3>1, <3>2
  <2>3. CASE n \notin D
    <3>1. ASSUME NEW i \in D, i <= n PROVE f[i] <= m
      <4>1. i <= n - 1
        BY <2>3, <3>1
      <4> QED BY <2>1, <4>1
    <3> QED BY <3>1
  <2> QED BY <2>2, <2>3
<1> HIDE DEF Bounded
<1>3. Bad = {}
  <2> SUFFICES ASSUME Bad # {} PROVE FALSE
    OBVIOUS
  <2>1. PICK n \in Bad : \A k \in Bad : n <= k
    <3>1. Bad \in SUBSET Nat
      OBVIOUS
    <3> HIDE DEF Bad
    <3> QED BY <3>1, LeastNatural
  <2>2. n \in 1..N /\ ~Bounded(n)
    BY <1>1, <2>1
  <2>3. n - 1 \notin Bad
    <3> HIDE DEF Bad
    <3> QED BY <2>1, <2>2
  <2>4. Bounded(n - 1)
    BY <2>2, <2>3
  <2> QED BY <1>2, <2>2, <2>4
<1>4. Bounded(N)
  BY <1>3
<1> QED BY <1>4 DEF Bounded

---------------------------------------------------------------------------
(***************************************************************************)
(* Reading the file.                                                        *)
(***************************************************************************)

Lines == Records \cup Restores \cup {Garbage}

\* A line that parses carries a number.
LEMMA ParsedType ==
    ASSUME lines \in Seq(Lines), NEW i \in Parsed
    PROVE  /\ i \in 1..Len(lines)
           /\ lines[i] \in Records \cup Restores
           /\ lines[i].rev \in Nat
BY DEF Parsed, Lines, Records, Restores

\* One step of a replay keeps a store a store.
LEMMA AppliedType ==
    ASSUME lines \in Seq(Lines), NEW b, NEW i \in Applied(b), NEW s \in Stores
    PROVE  After(s, lines[i]) \in Stores
<1>1. i \in Parsed /\ lines[i].op \in {"SetFlag", "DeleteNamespace"}
  BY DEF Applied
<1>2. lines[i] \in Records
  BY <1>1, ParsedType DEF Restores
<1>3. lines[i].ns \in Namespaces
  BY <1>2 DEF Records
<1>4. lines[i].op = "SetFlag" =>
          lines[i].key \in Keys /\ lines[i].value \in Values \cup {NoValue}
  BY <1>2 DEF Records
<1> QED BY <1>1, <1>3, <1>4, LineType

\* The store one line further on.
Step(b, s, i) == IF i \in Applied(b) THEN After(s, lines[i]) ELSE s

\* g is a replay of the first n lines.
Replays(b, g, n) ==
    /\ g \in [0..n -> Stores]
    /\ g[0] = EmptyStore
    /\ \A i \in 1..n : g[i] = Step(b, g[i-1], i)

\* A replay is what its recursion says, and a store after every line.
LEMMA ReplayDef ==
    ASSUME lines \in Seq(Lines), NEW b
    PROVE  Replays(b, Replay(b), Len(lines))
<1> DEFINE N == Len(lines)
<1>n. N \in Nat
  OBVIOUS
<1>e. EmptyStore \in Stores
  BY DEF EmptyStore, Stores
<1>s. \A s \in Stores, i \in 1..N : Step(b, s, i) \in Stores
  BY AppliedType DEF Step
<1>1. \A n \in 0..N : \E g : Replays(b, g, n)
  <2> DEFINE Bad == {n \in 0..N : ~ \E g : Replays(b, g, n)}
  <2> SUFFICES ASSUME Bad # {} PROVE FALSE
    OBVIOUS
  <2>1. PICK n \in Bad : \A m \in Bad : n <= m
    <3>1. Bad \in SUBSET Nat
      OBVIOUS
    <3> HIDE DEF Bad
    <3> QED BY <3>1, LeastNatural
  <2>2. n # 0
    <3>1. Replays(b, [i \in 0..0 |-> EmptyStore], 0)
      BY <1>e DEF Replays
    <3> QED BY <2>1, <3>1
  <2>3. PICK g : Replays(b, g, n-1)
    <3>1. n - 1 \in 0..N /\ n - 1 \notin Bad
      BY <2>1, <2>2
    <3> QED BY <3>1
  <2>4. Replays(b, [i \in 0..n |-> IF i = n THEN Step(b, g[n-1], n) ELSE g[i]], n)
    <3> DEFINE h == [i \in 0..n |-> IF i = n THEN Step(b, g[n-1], n) ELSE g[i]]
    <3>1. n \in 1..N
      BY <2>1, <2>2
    <3>2. g \in [0..n-1 -> Stores] /\ Step(b, g[n-1], n) \in Stores
      BY <1>s, <2>3, <3>1 DEF Replays
    <3>3. h \in [0..n -> Stores]
      BY <3>1, <3>2
    <3>4. h[0] = EmptyStore
      BY <2>3, <3>1 DEF Replays
    <3>5. \A i \in 1..n : h[i] = Step(b, h[i-1], i)
      BY <2>3, <3>1 DEF Replays
    <3> QED BY <3>3, <3>4, <3>5 DEF Replays
  <2> QED BY <2>1, <2>4
<1>2. PICK g : Replays(b, g, N)
  BY <1>1
<1> DEFINE Rec(f) == f = [i \in 0..N |->
            IF i = 0 THEN EmptyStore
            ELSE IF i \in Applied(b) THEN After(f[i-1], lines[i])
            ELSE f[i-1]]
<1>3. Rec(g)
  <2>1. \A i \in 0..N : g[i] = IF i = 0 THEN EmptyStore
            ELSE IF i \in Applied(b) THEN After(g[i-1], lines[i])
            ELSE g[i-1]
    BY <1>2 DEF Replays, Step
  <2> QED BY <1>2, <2>1 DEF Replays
<1>4. Replay(b) = CHOOSE f : Rec(f)
  BY DEF Replay
<1>5. Rec(Replay(b))
  <2> HIDE DEF Rec
  <2> QED BY <1>3, <1>4
<1>6. \A i \in 1..N : Replay(b)[i] = Step(b, Replay(b)[i-1], i)
  BY <1>5 DEF Step
<1>7. \A i \in 0..N : Replay(b)[i] \in Stores
  <2> DEFINE Bad == {i \in 0..N : Replay(b)[i] \notin Stores}
  <2> SUFFICES ASSUME Bad # {} PROVE FALSE
    OBVIOUS
  <2>1. PICK i \in Bad : \A j \in Bad : i <= j
    <3>1. Bad \in SUBSET Nat
      OBVIOUS
    <3> HIDE DEF Bad
    <3> QED BY <3>1, LeastNatural
  <2>2. CASE i = 0
    BY <1>5, <1>e, <2>1, <2>2
  <2>3. CASE i # 0
    <3>1. i \in 1..N /\ Replay(b)[i-1] \in Stores
      BY <2>1, <2>3
    <3> QED BY <1>6, <1>s, <2>1, <3>1
  <2> QED BY <2>2, <2>3
<1>8. Replay(b)[0] = EmptyStore /\ Replay(b) \in [0..N -> Stores]
  BY <1>5, <1>7
<1> QED BY <1>6, <1>8 DEF Replays

\* The highest stamp is a number, and the least that none exceeds.
LEMMA HighestDef ==
    ASSUME lines \in Seq(Lines)
    PROVE  /\ Highest \in Nat
           /\ \A n \in Nat :
                 Highest <= n <=> \A i \in Parsed : lines[i].rev <= n
<1> DEFINE stamp == [i \in Parsed |-> lines[i].rev]
           S == {0} \cup {lines[i].rev : i \in Parsed}
<1>1. Parsed \subseteq 1..Len(lines) /\ stamp \in [Parsed -> Nat]
  BY ParsedType
<1>2. PICK m \in Nat : \A i \in Parsed : stamp[i] <= m
  <2>1. Len(lines) \in Nat
    OBVIOUS
  <2> HIDE DEF stamp
  <2> QED BY <1>1, <2>1, NumbersBounded
<1>3. S \in SUBSET Nat /\ S # {} /\ \A y \in S : y <= m
  BY <1>1, <1>2
<1>4. \E x \in S : \A y \in S : y <= x
  <2> HIDE DEF S
  <2> QED BY <1>3, GreatestNatural
<1>5. Highest \in S /\ \A y \in S : y <= Highest
  <2>1. \E x \in S : \A y \in S : x >= y
    BY <1>3, <1>4
  <2>2. Highest = CHOOSE x \in S : \A y \in S : x >= y
    BY DEF Highest, Max
  <2>3. Highest \in S /\ \A y \in S : Highest >= y
    <3> HIDE DEF S
    <3> QED BY <2>1, <2>2
  <2> QED BY <1>3, <2>3
<1>6. \A i \in Parsed : lines[i].rev \in Nat
  BY ParsedType
<1>7. ASSUME NEW n \in Nat, \A i \in Parsed : lines[i].rev <= n
      PROVE  Highest <= n
  <2>1. \A y \in S : y <= n
    BY <1>7
  <2> HIDE DEF S
  <2> QED BY <1>5, <2>1
<1>8. ASSUME NEW n \in Nat, Highest <= n, NEW i \in Parsed
      PROVE  lines[i].rev <= n
  <2>1. lines[i].rev \in S
    OBVIOUS
  <2>2. lines[i].rev <= Highest
    <3> HIDE DEF S
    <3> QED BY <1>5, <2>1
  <2>3. Highest \in Nat /\ lines[i].rev \in Nat
    <3> HIDE DEF S
    <3> QED BY <1>3, <1>5, <1>6
  <2> QED BY <1>8, <2>2, <2>3
<1>9. Highest \in Nat
  <2> HIDE DEF S
  <2> QED BY <1>3, <1>5
<1> QED BY <1>7, <1>8, <1>9

\* A replay counts no more writes than it has read lines.
LEMMA CountedType ==
    ASSUME lines \in Seq(Lines), NEW b, NEW i \in 0..Len(lines)
    PROVE  Counted(b, i) \in 0..i
<1>1. IsFiniteSet(1..i) /\ Cardinality(1..i) = i
  BY FS_Interval
<1>2. Applied(b) \cap 1..i \in SUBSET (1..i)
  OBVIOUS
<1>3. /\ IsFiniteSet(Applied(b) \cap 1..i)
      /\ Cardinality(Applied(b) \cap 1..i) <= Cardinality(1..i)
  BY <1>1, <1>2, FS_Subset
<1> QED BY <1>1, <1>3, FS_CardinalityType DEF Counted

\* A line written is the record, or the record joined onto a torn tail; the
\* lines before it stay.
LEMMA PutsDef ==
    ASSUME lines \in Seq(Lines), NEW r \in Records \cup Restores, Puts(r)
    PROVE  /\ lines' \in Seq(Lines) /\ torn' = FALSE
           /\ Len(lines') = Len(lines) + 1
           /\ \A i \in Parsed' : \/ i \in Parsed /\ lines'[i] = lines[i]
                                 \/ i = Len(lines) + 1 /\ lines'[i] = r
<1> DEFINE l == IF torn THEN Garbage ELSE r
<1>1. l \in Lines /\ lines' = Append(lines, l) /\ torn' = FALSE
  BY DEF Puts, Lines
<1>2. /\ lines' \in Seq(Lines)
      /\ Len(lines') = Len(lines) + 1
      /\ \A i \in 1..Len(lines) : lines'[i] = lines[i]
      /\ lines'[Len(lines) + 1] = l
      /\ DOMAIN lines' = 1..(Len(lines) + 1)
  BY <1>1
<1>3. ASSUME NEW i \in Parsed'
      PROVE  \/ i \in Parsed /\ lines'[i] = lines[i]
             \/ i = Len(lines) + 1 /\ lines'[i] = r
  BY <1>2, <1>3 DEF Parsed
<1> QED BY <1>1, <1>2, <1>3

---------------------------------------------------------------------------
(***************************************************************************)
(* Types.                                                                   *)
(***************************************************************************)

\* Every number is that of an attempt, and so is every line.
Bounded ==
    /\ tries <= MaxTries
    /\ rev <= tries /\ bound <= tries
    /\ \A i \in Parsed : lines[i].rev <= tries
    /\ Len(lines) <= tries
    /\ mode = "append" => Len(lines) < tries /\ bound < rev

RecordInv == RecordTypeOK /\ Bounded

LEMMA RecordInvInit == Init => RecordInv
<1> SUFFICES ASSUME Init PROVE RecordInv
  OBVIOUS
<1>1. EmptyStore \in Stores
  BY DEF EmptyStore, Stores
<1>2. lines \in Seq(Records \cup Restores \cup {Garbage}) /\ Len(lines) = 0
  BY DEF Init
<1>3. Parsed = {}
  BY <1>2 DEF Parsed
<1> QED BY <1>1, <1>2, <1>3, RecordBounds
        DEF Init, RecordInv, RecordTypeOK, Bounded, Modes

\* What an attempt is given, and what it leaves of the store and the book.
LEMMA AttemptType ==
    ASSUME RecordTypeOK, NEW r \in Requests \cup Offline \cup {Declaration}, Attempt(r)
    PROVE  /\ r \in Writes /\ r.ns \in Namespaces
           /\ After(disk, r) \in Stores
           /\ TellsOf(r) \in Stores
           /\ RecordOf(r, rev + 1) \in Records
           /\ RecordOf(r, rev + 1).rev = rev + 1
           /\ tries' \in Nat /\ tries' <= MaxTries /\ tries' = tries + 1
           /\ rev' = rev + 1 /\ rev' \in Nat
           /\ spoiled' \in BOOLEAN
           /\ mode # "append"
<1>1. r \in Writes
  BY RecordRequests, RecordDeclaration DEF Writes
<1>2. /\ ~Refused(disk[r.ns], r)
      /\ tries < MaxTries /\ tries' = tries + 1
      /\ rev' = rev + 1 /\ spoiled' = (spoiled \/ halved)
      /\ mode # "append"
  BY DEF Attempt
<1>3. /\ disk \in Stores /\ tries \in Nat /\ rev \in Nat
      /\ spoiled \in BOOLEAN /\ halved \in BOOLEAN
      /\ book \in [0..MaxTries -> Stores]
  BY DEF RecordTypeOK
<1>4. r.ns \in Namespaces /\ After(disk, r) \in Stores
  BY <1>1, <1>2, <1>3, AfterType
<1>5. RecordOf(r, rev + 1) \in Records /\ RecordOf(r, rev + 1).rev = rev + 1
  BY <1>1, <1>3, RecordOfType
<1>6. Told \in Stores
  BY <1>3, RecordBounds DEF Told
<1>7. TellsOf(r) \in Stores
  <2>1. CASE r.op = "PublishNamespace"
    BY <1>6, <2>1 DEF TellsOf
  <2>2. CASE r.op # "PublishNamespace"
    <3>1. /\ r.op \in {"SetFlag", "DeleteNamespace"}
          /\ r.op = "SetFlag" => r.key \in Keys /\ r.value \in Values \cup {NoValue}
      BY <1>1, <2>2 DEF Writes, Flips, Publishes, Retires
    <3> QED BY <1>4, <1>6, <2>2, <3>1, LineType DEF TellsOf
  <2> QED BY <2>1, <2>2
<1>8. tries' \in Nat /\ tries' <= MaxTries /\ rev' \in Nat
      /\ spoiled' \in BOOLEAN
  BY <1>2, <1>3, RecordBounds
<1> QED BY <1>1, <1>2, <1>4, <1>5, <1>7, <1>8

LEMMA AttemptDef ==
    ASSUME RecordInv, NEW r \in Requests \cup Offline \cup {Declaration}, Attempt(r)
    PROVE  /\ r \in Writes /\ r.ns \in Namespaces
           /\ After(disk, r) \in Stores
           /\ TellsOf(r) \in Stores
           /\ RecordOf(r, rev + 1) \in Records
           /\ RecordOf(r, rev + 1).rev = rev + 1
           /\ tries' \in Nat /\ tries' <= MaxTries /\ tries' = tries + 1
           /\ rev' = rev + 1 /\ rev' \in Nat
           /\ spoiled' \in BOOLEAN
           /\ mode # "append"
BY AttemptType DEF RecordInv

\* The book stays a function from numbers to stores.
LEMMA SaysType ==
    ASSUME book \in [0..MaxTries -> Stores], NEW n, NEW s \in Stores, Says(n, s)
    PROVE  book' \in [0..MaxTries -> Stores]
BY DEF Says

\* A line written keeps the file within its bounds.
LEMMA PutsBounded ==
    ASSUME RecordInv, NEW r \in Records \cup Restores, Puts(r),
           tries' \in Nat, tries <= tries', r.rev <= tries',
           Len(lines) < tries'
    PROVE  /\ lines' \in Seq(Records \cup Restores \cup {Garbage})
           /\ torn' \in BOOLEAN
           /\ \A i \in Parsed' : lines'[i].rev <= tries'
           /\ Len(lines') <= tries'
<1>1. lines \in Seq(Lines) /\ tries \in Nat
  BY DEF RecordInv, RecordTypeOK, Lines
<1>2. /\ lines' \in Seq(Lines) /\ torn' = FALSE
      /\ Len(lines') = Len(lines) + 1
      /\ \A i \in Parsed' : \/ i \in Parsed /\ lines'[i] = lines[i]
                            \/ i = Len(lines) + 1 /\ lines'[i] = r
  BY <1>1, PutsDef
<1>3. ASSUME NEW i \in Parsed' PROVE lines'[i].rev <= tries'
  <2>1. CASE i \in Parsed /\ lines'[i] = lines[i]
    <3>1. lines[i].rev \in Nat /\ lines[i].rev <= tries
      BY <1>1, <2>1, ParsedType DEF RecordInv, Bounded
    <3> QED BY <1>1, <2>1, <3>1
  <2>2. CASE lines'[i] = r
    BY <2>2
  <2> QED BY <1>2, <2>1, <2>2
<1>4. Len(lines') <= tries'
  BY <1>1, <1>2
<1> QED BY <1>2, <1>3, <1>4 DEF Lines

\* What a replay of the file, whole or to line i, leaves on a fresh store.
LEMMA ReplayType ==
    ASSUME RecordInv, NEW b, NEW i \in 0..Len(lines)
    PROVE  /\ Replay(b)[i] \in Stores
           /\ Counted(b, i) \in Nat /\ Counted(b, i) <= tries
           /\ Highest \in Nat /\ Highest <= tries
<1>1. lines \in Seq(Lines) /\ tries \in Nat /\ Len(lines) <= tries
      /\ Len(lines) \in Nat
  BY DEF RecordInv, RecordTypeOK, Lines, Bounded
<1>2. Replay(b)[i] \in Stores
  BY <1>1, ReplayDef DEF Replays
<1>3. Counted(b, i) \in 0..i
  BY <1>1, CountedType
<1>4. Highest \in Nat /\ Highest <= tries
  BY <1>1, HighestDef DEF RecordInv, Bounded
<1> QED BY <1>1, <1>2, <1>3, <1>4

\* A step that leaves the file and the attempts alone keeps the bounds.
LEMMA BoundedKept ==
    ASSUME RecordInv, lines' = lines, tries' = tries, bound' = bound,
           rev' <= tries, mode' # "append"
    PROVE  Bounded'
<1>1. Parsed' = Parsed
  BY DEF Parsed
<1> QED BY <1>1 DEF RecordInv, Bounded

\* A replay that is not finished keeps the types and the bounds.
LEMMA HalfwayType ==
    ASSUME RecordInv, NEW b, NEW i \in 0..Len(lines), Halfway(b, i),
           mode = "down", NEW kind, Strikes(kind)
    PROVE  RecordInv'
<1>1. /\ disk' \in Stores /\ rev' \in Nat /\ rev' <= tries
      /\ lines' = lines /\ tries' = tries /\ bound' = bound /\ mode' = "down"
  BY ReplayType DEF Halfway, file, process
<1>2. Bounded'
  BY <1>1, BoundedKept
<1>3. RecordTypeOK'
  BY <1>1 DEF Halfway, Strikes, RecordInv, RecordTypeOK, file, process
<1> QED BY <1>2, <1>3 DEF RecordInv

\* Every step keeps the types and the bounds.
LEMMA RecordInvNext == RecordInv /\ [Next]_vars => RecordInv'
<1> SUFFICES ASSUME RecordInv, [Next]_vars PROVE RecordInv'
  OBVIOUS
<1>t. RecordTypeOK /\ Bounded /\ lines \in Seq(Lines) /\ Len(lines) \in Nat
  BY DEF RecordInv, RecordTypeOK, Lines
<1>l. lines' = lines => Parsed' = Parsed
  BY DEF Parsed
<1>n. Len(lines) \in 0..Len(lines)
  BY <1>t
<1>1. ASSUME NEW r \in Requests \cup Offline \cup {Declaration},
             Write(r) \/ WriteUnsynced(r)
      PROVE  RecordInv'
  <2>1. Attempt(r) /\ Puts(RecordOf(r, rev + 1)) /\ Says(rev + 1, TellsOf(r))
    BY <1>1 DEF Write, WriteUnsynced
  <2>2. /\ r \in Writes /\ r.ns \in Namespaces
        /\ After(disk, r) \in Stores /\ TellsOf(r) \in Stores
        /\ RecordOf(r, rev + 1) \in Records
        /\ RecordOf(r, rev + 1).rev = rev + 1
        /\ tries' \in Nat /\ tries' <= MaxTries /\ tries' = tries + 1
        /\ rev' = rev + 1 /\ rev' \in Nat
        /\ spoiled' \in BOOLEAN /\ mode # "append"
    BY <2>1, AttemptDef
  <2>3. /\ tries \in Nat /\ rev \in Nat /\ rev <= tries /\ bound <= tries
        /\ bound \in Nat /\ Len(lines) <= tries
    BY <1>t DEF RecordTypeOK, Bounded
  <2>4. /\ lines' \in Seq(Records \cup Restores \cup {Garbage})
        /\ torn' \in BOOLEAN
        /\ \A i \in Parsed' : lines'[i].rev <= tries'
        /\ Len(lines') <= tries'
    BY <1>t, <2>1, <2>2, <2>3, PutsBounded
  <2>5. book' \in [0..MaxTries -> Stores]
    BY <1>t, <2>1, <2>2, SaysType DEF RecordTypeOK
  <2>6. bound' = bound /\ mode' # "append"
    BY <1>1, <2>2 DEF Write, WriteUnsynced, GivesUp
  <2>7. Bounded'
    BY <2>2, <2>3, <2>4, <2>6 DEF Bounded
  <2>8. RecordTypeOK'
    <3>1. CASE Write(r)
      BY <1>t, <2>2, <2>3, <2>4, <2>5, <3>1 DEF RecordTypeOK, Write, Modes
    <3>2. CASE WriteUnsynced(r)
      BY <1>t, <2>2, <2>4, <2>5, <3>2
      DEF RecordTypeOK, WriteUnsynced, GivesUp, Strikes, Modes
    <3> QED BY <1>1, <3>1, <3>2
  <2> QED BY <2>7, <2>8 DEF RecordInv
<1>2. ASSUME NEW r \in Requests \cup Offline \cup {Declaration},
             WriteFails(r) \/ WriteDies(r)
      PROVE  RecordInv'
  <2>1. Attempt(r) /\ lines' = lines
    BY <1>2 DEF WriteFails, WriteDies
  <2>2. /\ r.ns \in Namespaces /\ After(disk, r) \in Stores
        /\ tries' \in Nat /\ tries' <= MaxTries /\ tries' = tries + 1
        /\ rev' = rev + 1 /\ rev' \in Nat
        /\ spoiled' \in BOOLEAN /\ mode # "append"
    BY <2>1, AttemptDef
  <2>3. /\ tries \in Nat /\ rev \in Nat /\ rev <= tries /\ bound <= tries
        /\ bound \in Nat /\ Len(lines) <= tries
    BY <1>t DEF RecordTypeOK, Bounded
  <2>4. \A i \in Parsed' : lines'[i].rev <= tries'
    <3>1. ASSUME NEW i \in Parsed PROVE lines[i].rev <= tries + 1
      BY <1>t, <2>3, ParsedType DEF Bounded
    <3> QED BY <1>l, <2>1, <2>2, <3>1
  <2>5. bound' = bound /\ mode' # "append"
    BY <1>2, <2>2 DEF WriteFails, WriteDies, GivesUp
  <2>6. Bounded'
    BY <1>t, <2>1, <2>2, <2>3, <2>4, <2>5 DEF Bounded
  <2>7. RecordTypeOK'
    <3>1. CASE WriteFails(r)
      BY <1>t, <2>2, <3>1 DEF RecordTypeOK, WriteFails, Tears, GivesUp, Modes
    <3>2. CASE WriteDies(r)
      <4>1. faults' \in Nat /\ stops' \in Nat
        BY <1>t, <3>2 DEF WriteDies, Strikes, RecordTypeOK
      <4>2. torn' \in BOOLEAN /\ jam' \in BOOLEAN /\ mode' \in Modes
        BY <1>t, <3>2 DEF WriteDies, Tears, RecordTypeOK, Modes
      <4> QED BY <1>t, <2>2, <3>2, <4>1, <4>2 DEF RecordTypeOK, WriteDies
    <3> QED BY <1>2, <3>1, <3>2
  <2> QED BY <2>6, <2>7 DEF RecordInv
<1>3. CASE World
  <2>1. CASE Stop
    <3>1. Bounded'
      BY <1>t, <2>1, BoundedKept DEF Stop, Bounded, store, file
    <3>2. stops' \in Nat
      BY <1>t, <2>1 DEF Stop, RecordTypeOK
    <3>3. RecordTypeOK'
      BY <1>t, <2>1, <3>2 DEF Stop, RecordTypeOK, Modes, store, file, past
    <3> QED BY <3>1, <3>3 DEF RecordInv
  <2>2. CASE MediumFails
    BY <1>t, <1>l, <2>2
    DEF MediumFails, Strikes, RecordInv, RecordTypeOK, Bounded, store, file,
        process, past
  <2>3. CASE MediumRecovers
    BY <1>t, <1>l, <2>3
    DEF MediumRecovers, RecordInv, RecordTypeOK, Bounded, store, file,
        process, past, counts
  <2>4. CASE Wipe
    <3>1. EmptyStore \in Stores
      BY DEF EmptyStore, Stores
    <3>2. Bounded'
      <4>1. /\ lines' = lines /\ tries' = tries /\ bound' = bound /\ rev' = 0
            /\ mode' = "down" /\ tries \in Nat
        BY <1>t, <2>4 DEF Wipe, file, process, RecordTypeOK
      <4> QED BY <4>1, BoundedKept
    <3>3. stops' \in Nat /\ 0 \in Nat
      BY <1>t, <2>4 DEF Wipe, RecordTypeOK
    <3>4. RecordTypeOK'
      BY <1>t, <2>4, <3>1, <3>3 DEF Wipe, RecordTypeOK, file, process
    <3> QED BY <3>2, <3>4 DEF RecordInv
  <2> QED BY <1>3, <2>1, <2>2, <2>3, <2>4 DEF World
<1>4. CASE Boot
  <2>1. CASE BootFound
    BY <1>t, <1>l, <2>1
    DEF BootFound, RecordInv, RecordTypeOK, Bounded, Modes, store, file, counts
  <2>2. CASE BootHealed
    BY <1>t, <1>l, <1>n, <2>2, ReplayType
    DEF BootHealed, RecordInv, RecordTypeOK, Bounded, Modes, file, past, counts
  <2>3. CASE BootRefused
    BY <1>t, <1>l, <1>n, <2>3, ReplayType
    DEF BootRefused, RecordInv, RecordTypeOK, Bounded, Modes, file, process,
        counts
  <2>4. CASE BootKilled
    <3>1. /\ mode = "down" /\ Strikes("replay")
          /\ \E i \in 0..Len(lines) : Halfway(0, i)
      BY <2>4 DEF BootKilled
    <3> QED BY <3>1, HalfwayType
  <2> QED BY <1>4, <2>1, <2>2, <2>3, <2>4 DEF Boot
<1>5. ASSUME NEW to \in 1..rev, Restore(to) PROVE RecordInv'
  <2>1. /\ to < rev /\ rev <= tries /\ tries < MaxTries
        /\ to \in Nat /\ rev \in Nat /\ tries \in Nat
        /\ lines' = lines /\ rev' = rev + 1 /\ tries' = tries + 1
        /\ bound' = to /\ mode' = "append"
      BY <1>t, <1>5 DEF Restore, RestoreChecks, RecordTypeOK, Bounded, file
  <2>2. \A i \in Parsed' : lines'[i].rev <= tries'
    <3>1. ASSUME NEW i \in Parsed PROVE lines[i].rev <= tries + 1
      BY <1>t, <2>1, ParsedType DEF Bounded
    <3> QED BY <1>l, <2>1, <3>1
  <2>3. Bounded'
    BY <1>t, <2>1, <2>2, RecordBounds DEF Bounded
  <2>5. /\ disk' \in Stores /\ rev' \in Nat /\ mode' \in Modes /\ bound' \in Nat
        /\ tries' \in Nat
    BY <1>n, <1>5, <2>1, ReplayType DEF Restore, Modes
  <2>6. RecordTypeOK'
    BY <1>t, <1>5, <2>5 DEF Restore, RecordTypeOK, file
  <2> QED BY <2>3, <2>6 DEF RecordInv
<1>6. ASSUME NEW to \in 1..rev, RestoreKilled(to) PROVE RecordInv'
  <2>1. /\ mode = "down" /\ Strikes("replay")
        /\ \E i \in 0..Len(lines) : Halfway(to, i)
    BY <1>6 DEF RestoreKilled, RestoreChecks
  <2> QED BY <2>1, HalfwayType
<1>7. CASE RestoreRecorded
  <2> DEFINE r == [op |-> "Restore", rev |-> rev, to |-> bound, from |-> rev - 1]
  <2>1. /\ mode = "append" /\ Puts(r) /\ Says(rev, book[bound])
        /\ mode' = "down" /\ tries' = tries /\ bound' = bound /\ rev' = rev
    BY <1>7 DEF RestoreRecorded, store, counts
  <2>2. /\ rev \in Nat /\ bound \in Nat /\ bound < rev /\ rev <= tries
        /\ tries \in Nat /\ tries <= MaxTries /\ Len(lines) < tries
    BY <1>t, <2>1 DEF RecordTypeOK, Bounded
  <2>3. r \in Records \cup Restores /\ r.rev = rev
    BY <2>2 DEF Restores
  <2>4. /\ lines' \in Seq(Records \cup Restores \cup {Garbage})
        /\ torn' \in BOOLEAN
        /\ \A i \in Parsed' : lines'[i].rev <= tries'
        /\ Len(lines') <= tries'
    <3> HIDE DEF r
    <3> QED BY <2>1, <2>2, <2>3, PutsBounded
  <2>5. book' \in [0..MaxTries -> Stores]
    <3>1. book \in [0..MaxTries -> Stores] /\ book[bound] \in Stores
      BY <1>t, <2>2, RecordBounds DEF RecordTypeOK
    <3> QED BY <2>1, <3>1, SaysType
  <2>6. Bounded'
    BY <1>t, <2>1, <2>2, <2>4 DEF Bounded
  <2>7. RecordTypeOK'
    BY <1>t, <1>7, <2>4, <2>5
    DEF RestoreRecorded, RecordTypeOK, Modes, store, counts
  <2> QED BY <2>6, <2>7 DEF RecordInv
<1>8. CASE RestoreUnrecorded
  <2>1. faults' \in Nat
    BY <1>t, <1>8 DEF RestoreUnrecorded, Strikes, RecordTypeOK
  <2>2. RecordTypeOK'
    BY <1>t, <1>8, <2>1 DEF RestoreUnrecorded, RecordTypeOK, Modes, store
  <2>3. Bounded'
    BY <1>t, <1>l, <1>8 DEF RestoreUnrecorded, Bounded, store
  <2> QED BY <2>2, <2>3 DEF RecordInv
<1>9. CASE UNCHANGED vars
  BY <1>t, <1>l, <1>9
  DEF RecordInv, RecordTypeOK, Bounded, vars, store, file, process, past,
      counts
<1> QED
  BY <1>1, <1>2, <1>3, <1>4, <1>5, <1>6, <1>7, <1>8, <1>9
  DEF Next, Serve, RestoreStep

\* Every variable keeps to its values: a replay, whole or cut short, ends in a
\* store, and every line any of the three processes writes is one.
THEOREM RecordTypeCorrect == Spec => []RecordTypeOK
<1>1. Spec => []RecordInv
  BY RecordInvInit, RecordInvNext, PTL DEF Spec
<1>2. RecordInv => RecordTypeOK
  BY DEF RecordInv
<1> QED BY <1>1, <1>2, PTL

---------------------------------------------------------------------------
(***************************************************************************)
(* Numbers.                                                                 *)
(***************************************************************************)

\* Until a half-replayed store is served, the file is numbered in order, and
\* a store that was replayed to the end stands at or above its last number,
\* strictly above while a restore has yet to write its own line.  A running
\* server has a store.
Numbered ==
    /\ mode \in {"serving", "declare", "append"} => exists
    /\ mode = "append" => ~halved
    /\ ~spoiled =>
          /\ \A i, j \in Parsed : i < j => lines[i].rev < lines[j].rev
          /\ (exists /\ ~halved) => \A i \in Parsed : lines[i].rev <= rev
          /\ mode = "append" => \A i \in Parsed : lines[i].rev < rev

\* A line numbered above every other keeps the file in order.
LEMMA PutsInOrder ==
    ASSUME lines \in Seq(Lines), NEW r \in Records \cup Restores, Puts(r),
           r.rev \in Nat,
           \A i, j \in Parsed : i < j => lines[i].rev < lines[j].rev,
           \A i \in Parsed : lines[i].rev < r.rev
    PROVE  /\ \A i, j \in Parsed' : i < j => lines'[i].rev < lines'[j].rev
           /\ \A i \in Parsed' : lines'[i].rev <= r.rev
<1>1. \A i \in Parsed' : \/ i \in Parsed /\ lines'[i] = lines[i]
                         \/ i = Len(lines) + 1 /\ lines'[i] = r
  BY PutsDef
<1>2. \A i \in Parsed : i \in 1..Len(lines) /\ lines[i].rev \in Nat
  BY ParsedType
<1>3. Len(lines) \in Nat
  OBVIOUS
<1>4. ASSUME NEW i \in Parsed', NEW j \in Parsed', i < j
      PROVE  lines'[i].rev < lines'[j].rev
  <2>1. CASE j \in Parsed /\ lines'[j] = lines[j]
    <3>1. i \in Parsed /\ lines'[i] = lines[i]
      BY <1>1, <1>2, <1>3, <1>4, <2>1
    <3> QED BY <1>4, <2>1, <3>1
  <2>2. CASE j = Len(lines) + 1 /\ lines'[j] = r
    <3>1. i \in Parsed /\ lines'[i] = lines[i]
      BY <1>1, <1>2, <1>3, <1>4, <2>2
    <3> QED BY <2>2, <3>1
  <2> QED BY <1>1, <2>1, <2>2
<1>5. ASSUME NEW i \in Parsed' PROVE lines'[i].rev <= r.rev
  <2>1. CASE i \in Parsed /\ lines'[i] = lines[i]
    BY <1>2, <2>1
  <2>2. CASE lines'[i] = r
    BY <2>2
  <2> QED BY <1>1, <2>1, <2>2
<1> QED BY <1>4, <1>5

LEMMA NumberedNext == RecordInv /\ Numbered /\ [Next]_vars => Numbered'
<1> SUFFICES ASSUME RecordInv, Numbered, [Next]_vars PROVE Numbered'
  OBVIOUS
<1>t. /\ lines \in Seq(Lines) /\ rev \in Nat /\ bound \in Nat
      /\ spoiled \in BOOLEAN /\ halved \in BOOLEAN /\ exists \in BOOLEAN
      /\ mode \in Modes
      /\ mode = "append" => bound < rev
  BY DEF RecordInv, RecordTypeOK, Lines, Bounded
<1>l. lines' = lines => Parsed' = Parsed
  BY DEF Parsed
<1>p. \A i \in Parsed : lines[i].rev \in Nat
  BY <1>t, ParsedType
<1>1. ASSUME NEW r \in Requests \cup Offline \cup {Declaration},
             Write(r) \/ WriteUnsynced(r)
      PROVE  Numbered'
  <2>1. /\ Attempt(r) /\ Puts(RecordOf(r, rev + 1))
        /\ exists' = exists /\ halved' = halved
        /\ mode' \in {"down", mode, IF mode = "declare" THEN "serving" ELSE mode}
    BY <1>1 DEF Write, WriteUnsynced, GivesUp
  <2>2. /\ RecordOf(r, rev + 1) \in Records
        /\ RecordOf(r, rev + 1).rev = rev + 1
        /\ rev' = rev + 1 /\ mode # "append"
    BY <2>1, AttemptDef
  <2>3. exists /\ spoiled' = (spoiled \/ halved)
    BY <2>1 DEF Attempt, Numbered
  <2>4. CASE spoiled'
    BY <2>1, <2>2, <2>3, <2>4 DEF Numbered
  <2>5. CASE ~spoiled'
    <3>1. /\ \A i, j \in Parsed : i < j => lines[i].rev < lines[j].rev
          /\ \A i \in Parsed : lines[i].rev <= rev
      BY <2>3, <2>5 DEF Numbered
    <3>2. \A i \in Parsed : lines[i].rev < rev + 1
      BY <1>t, <1>p, <3>1
    <3>3. /\ \A i, j \in Parsed' : i < j => lines'[i].rev < lines'[j].rev
          /\ \A i \in Parsed' : lines'[i].rev <= rev'
      BY <1>t, <2>1, <2>2, <3>1, <3>2, PutsInOrder
    <3> QED BY <2>1, <2>2, <2>3, <3>3 DEF Numbered
  <2> QED BY <2>4, <2>5
<1>2. ASSUME NEW r \in Requests \cup Offline \cup {Declaration},
             WriteFails(r) \/ WriteDies(r)
      PROVE  Numbered'
  <2>1. /\ Attempt(r) /\ lines' = lines
        /\ exists' = exists /\ halved' = halved /\ mode' \in {"down", mode}
    BY <1>2 DEF WriteFails, WriteDies, GivesUp
  <2>2. /\ rev' = rev + 1 /\ mode # "append"
        /\ exists /\ spoiled' = (spoiled \/ halved)
    BY <2>1 DEF Attempt, Numbered
  <2>3. (\A i \in Parsed : lines[i].rev <= rev) =>
          (\A i \in Parsed : lines[i].rev <= rev + 1)
    BY <1>t, <1>p
  <2> QED BY <1>l, <2>1, <2>2, <2>3 DEF Numbered
<1>3. CASE World
  BY <1>l, <1>3
  DEF World, Stop, MediumFails, MediumRecovers, Wipe, Numbered, store, file,
      process, past, counts
<1>4. CASE Boot
  <2>1. CASE BootFound
    BY <1>l, <2>1 DEF BootFound, Numbered, store, file
  <2>2. CASE BootHealed
    <3>1. \A i \in Parsed : lines[i].rev <= Highest
      BY <1>t, HighestDef
    <3> QED BY <1>l, <2>2, <3>1 DEF BootHealed, Numbered, file, past
  <2>3. CASE BootRefused
    BY <1>l, <2>3 DEF BootRefused, Numbered, file, process
  <2>4. CASE BootKilled
    BY <1>l, <2>4 DEF BootKilled, Halfway, Numbered, file, process
  <2> QED BY <1>4, <2>1, <2>2, <2>3, <2>4 DEF Boot
<1>5. ASSUME NEW to \in 1..rev, Restore(to) PROVE Numbered'
  <2>1. \A i \in Parsed : lines[i].rev < rev + 1
    <3>1. Highest <= rev
      BY <1>5 DEF Restore, RestoreChecks
    <3>2. \A i \in Parsed : lines[i].rev <= rev
      BY <1>t, <3>1, HighestDef
    <3> QED BY <1>t, <1>p, <3>2
  <2>2. \A i \in Parsed : lines[i].rev <= rev + 1
    BY <1>t, <1>p, <2>1
  <2> QED BY <1>l, <1>5, <2>1, <2>2
      DEF Restore, RestoreChecks, Numbered, file
<1>6. ASSUME NEW to \in 1..rev, RestoreKilled(to) PROVE Numbered'
  BY <1>l, <1>6 DEF RestoreKilled, RestoreChecks, Halfway, Numbered, file, process
<1>7. CASE RestoreRecorded
  <2> DEFINE r == [op |-> "Restore", rev |-> rev, to |-> bound, from |-> rev - 1]
  <2>1. /\ mode = "append" /\ Puts(r) /\ mode' = "down" /\ rev' = rev
        /\ exists' = exists /\ halved' = halved /\ spoiled' = spoiled
    BY <1>7 DEF RestoreRecorded, store
  <2>2. r \in Records \cup Restores /\ r.rev = rev
    BY <1>t, <2>1 DEF Restores
  <2>3. CASE ~spoiled
    <3>1. /\ \A i, j \in Parsed' : i < j => lines'[i].rev < lines'[j].rev
          /\ \A i \in Parsed' : lines'[i].rev <= rev'
      <4> HIDE DEF r
      <4> QED BY <1>t, <2>1, <2>2, <2>3, PutsInOrder DEF Numbered
    <3> QED BY <2>1, <3>1 DEF Numbered
  <2>4. CASE spoiled
    BY <2>1, <2>4 DEF Numbered
  <2> QED BY <2>3, <2>4
<1>8. CASE RestoreUnrecorded
  BY <1>l, <1>8 DEF RestoreUnrecorded, Numbered, store
<1>9. CASE UNCHANGED vars
  BY <1>l, <1>9 DEF Numbered, vars, store, file, process, past
<1> QED
  BY <1>1, <1>2, <1>3, <1>4, <1>5, <1>6, <1>7, <1>8, <1>9
  DEF Next, Serve, RestoreStep

LEMMA NumberedInvariant == Spec => [](RecordInv /\ Numbered)
<1>1. Init => Numbered
  <2> SUFFICES ASSUME Init PROVE Numbered
    OBVIOUS
  <2>1. Parsed = {}
    BY DEF Init, Parsed
  <2> QED BY <2>1 DEF Init, Numbered
<1> QED BY <1>1, RecordInvInit, RecordInvNext, NumberedNext, PTL DEF Spec

\* "A number names one record forever": whatever was healed, restored, rolled
\* back, torn or killed, for any bounds, stamps increase along the file and the
\* store's number is never below one of them.
THEOREM NumbersTheorem == Spec => []NumbersNameOneRecord
<1>1. RecordInv /\ Numbered => NumbersNameOneRecord
  <2> SUFFICES ASSUME RecordInv, Numbered PROVE NumbersNameOneRecord
    OBVIOUS
  <2>1. lines \in Seq(Lines) /\ rev \in Nat
    BY DEF RecordInv, RecordTypeOK, Lines
  <2>2. (\A i \in Parsed : lines[i].rev <= rev) => Highest <= rev
    BY <2>1, HighestDef
  <2> QED BY <2>2 DEF Numbered, NumbersNameOneRecord
<1> QED BY <1>1, NumberedInvariant, PTL

---------------------------------------------------------------------------
(***************************************************************************)
(* Acknowledged writes.                                                     *)
(***************************************************************************)

\* What keeps a server's line from being joined to torn bytes: its boot wrote
\* a line behind any it found, and its sink lets none through after it left
\* some itself.
Readables ==
    /\ mode = "serving" /\ torn => jam
    /\ AcknowledgedIsReadable

\* The file is only appended to.
LEMMA PutsKeeps ==
    ASSUME lines \in Seq(Lines), NEW r \in Records \cup Restores, Puts(r)
    PROVE  /\ AcknowledgedIsReadable => \A n \in acked : \E i \in Parsed' : lines'[i].rev = n
           /\ ~torn => \E i \in Parsed' : lines'[i] = r
           /\ torn' = FALSE
<1> DEFINE l == IF torn THEN Garbage ELSE r
<1>1. /\ lines' = Append(lines, l) /\ torn' = FALSE
      /\ l \in Lines
  BY DEF Puts, Lines
<1> HIDE DEF l
<1>2. /\ DOMAIN lines = 1..Len(lines) /\ Len(lines) \in Nat
      /\ DOMAIN lines' = 1..(Len(lines) + 1)
      /\ \A i \in 1..Len(lines) : lines'[i] = lines[i]
      /\ lines'[Len(lines) + 1] = l
  BY <1>1
<1>3. \A i \in Parsed : i \in Parsed' /\ lines'[i] = lines[i]
  BY <1>2 DEF Parsed
<1>4. ~torn => Len(lines) + 1 \in Parsed' /\ lines'[Len(lines) + 1] = r
  BY <1>2, RecordGarbage DEF Parsed, l
<1> QED BY <1>1, <1>3, <1>4 DEF AcknowledgedIsReadable

LEMMA ReadablesNext == RecordInv /\ Readables /\ [Next]_vars => Readables'
<1> SUFFICES ASSUME RecordInv, Readables, [Next]_vars PROVE Readables'
  OBVIOUS
<1>t. /\ lines \in Seq(Lines) /\ torn \in BOOLEAN /\ jam \in BOOLEAN
      /\ mode \in Modes
  BY DEF RecordInv, RecordTypeOK, Lines
<1>k. lines' = lines /\ acked' = acked => AcknowledgedIsReadable'
  BY DEF Parsed, Readables, AcknowledgedIsReadable
<1>1. ASSUME NEW r \in Requests \cup Offline \cup {Declaration}, Write(r)
      PROVE  Readables'
  <2>1. /\ Attempt(r) /\ Puts(RecordOf(r, rev + 1)) /\ ~jam
        /\ acked' = IF mode = "serving" THEN acked \cup {rev + 1} ELSE acked
    BY <1>1 DEF Write
  <2>2. /\ RecordOf(r, rev + 1) \in Records
        /\ RecordOf(r, rev + 1).rev = rev + 1
    BY <2>1, AttemptDef
  <2>3. /\ \A n \in acked : \E i \in Parsed' : lines'[i].rev = n
        /\ ~torn => \E i \in Parsed' : lines'[i] = RecordOf(r, rev + 1)
        /\ torn' = FALSE
    BY <1>t, <2>1, <2>2, PutsKeeps DEF Readables
  <2>4. mode = "serving" => ~torn
    BY <1>t, <2>1 DEF Readables
  <2>5. AcknowledgedIsReadable'
    BY <2>1, <2>2, <2>3, <2>4 DEF AcknowledgedIsReadable
  <2> QED BY <2>3, <2>5 DEF Readables
<1>2. ASSUME NEW r \in Requests \cup Offline \cup {Declaration},
             WriteFails(r) \/ WriteDies(r)
      PROVE  Readables'
  <2>1. /\ lines' = lines /\ acked' = acked
        /\ mode' = "serving" => jam'
    BY <1>2 DEF WriteFails, WriteDies, GivesUp
  <2> QED BY <1>k, <2>1 DEF Readables
<1>3. ASSUME NEW r \in Requests \cup Offline \cup {Declaration},
             WriteUnsynced(r)
      PROVE  Readables'
  <2>1. /\ Attempt(r) /\ Puts(RecordOf(r, rev + 1)) /\ acked' = acked
    BY <1>3 DEF WriteUnsynced
  <2>2. RecordOf(r, rev + 1) \in Records
    BY <2>1, AttemptDef
  <2>3. /\ \A n \in acked : \E i \in Parsed' : lines'[i].rev = n
        /\ torn' = FALSE
    BY <1>t, <2>1, <2>2, PutsKeeps DEF Readables
  <2> QED BY <2>1, <2>3 DEF Readables, AcknowledgedIsReadable
<1>4. CASE World
  BY <1>k, <1>4
  DEF World, Stop, MediumFails, MediumRecovers, Wipe, Readables, store, file,
      process, past, counts
<1>5. CASE Boot
  BY <1>k, <1>5
  DEF Boot, BootFound, BootHealed, BootRefused, BootKilled, Halfway, Readables,
      store, file, process, past
<1>6. ASSUME NEW to \in 1..rev, Restore(to) \/ RestoreKilled(to)
      PROVE  Readables'
  BY <1>k, <1>6
  DEF Restore, RestoreKilled, RestoreChecks, Halfway, Readables, file, process
<1>7. CASE RestoreRecorded
  <2> DEFINE r == [op |-> "Restore", rev |-> rev, to |-> bound, from |-> rev - 1]
  <2>1. mode = "append" /\ Puts(r) /\ mode' = "down" /\ acked' = acked
    BY <1>7 DEF RestoreRecorded
  <2>2. r \in Restores
    BY <2>1 DEF Restores, RecordInv, RecordTypeOK, Bounded
  <2> HIDE DEF r
  <2>3. \A n \in acked : \E i \in Parsed' : lines'[i].rev = n
    BY <1>t, <2>1, <2>2, PutsKeeps DEF Readables
  <2> QED BY <2>1, <2>3 DEF Readables, AcknowledgedIsReadable
<1>8. CASE RestoreUnrecorded
  BY <1>k, <1>8 DEF RestoreUnrecorded, Readables
<1>9. CASE UNCHANGED vars
  BY <1>k, <1>9 DEF Readables, vars, file, process, past
<1> QED
  BY <1>1, <1>2, <1>3, <1>4, <1>5, <1>6, <1>7, <1>8, <1>9
  DEF Next, Serve, RestoreStep

\* Whatever a kill or a full disk left in the file, and whatever was wiped,
\* healed or restored since, the line of a write the server answered parses.
THEOREM AcknowledgedLineTheorem == Spec => []AcknowledgedIsReadable
<1>1. Init => Readables
  BY DEF Init, Readables, AcknowledgedIsReadable
<1>2. Readables => AcknowledgedIsReadable
  BY DEF Readables
<1> QED BY <1>1, <1>2, RecordInvInit, RecordInvNext, ReadablesNext, PTL DEF Spec
=============================================================================
