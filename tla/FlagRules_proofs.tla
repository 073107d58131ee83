------------------------- MODULE FlagRules_proofs -------------------------
(***************************************************************************)
(* What every write does to a namespace and to its record, for any flags:   *)
(* the lemmas the theorems about the store and about the record rest on.    *)
(***************************************************************************)
EXTENDS FlagRules, TLAPS

\* What a mutation finds in its bucket is a function from keys to flags.
LEMMA BucketType ==
    ASSUME NEW c \in Contents \cup {Absent}
    PROVE  Bucket(c) \in Contents
<1>1. CASE c = Absent
  BY <1>1 DEF Bucket, NoContents, Contents
<1>2. CASE c # Absent
  BY <1>2 DEF Bucket
<1> QED BY <1>1, <1>2

\* Every write leaves its namespace a well-formed namespace, or absent.
LEMMA OutcomeType ==
    ASSUME NEW c \in Contents \cup {Absent}, NEW r \in Writes,
           ~Refused(c, r)
    PROVE  Outcome(c, r) \in Contents \cup {Absent}
<1>0. Bucket(c) \in Contents
  BY BucketType
<1>1. CASE r \in Flips
  <2>1. /\ r.op = "SetFlag" /\ r.key \in Keys /\ r.value \in Values
    BY <1>1 DEF Flips, Refused
  <2>2. Outcome(c, r) = Flipped(c, r.key, r.value)
    BY <2>1 DEF Outcome
  <2>3. [value |-> r.value,
         meta  |-> IF Bucket(c)[r.key] = NoFlag THEN NoMeta
                   ELSE Bucket(c)[r.key].meta] \in Flag
    BY <1>0, <2>1 DEF Contents, Flag
  <2> QED BY <1>0, <2>1, <2>2, <2>3 DEF Flipped, Contents
<1>2. CASE r \in Publishes
  <2>1. /\ r.op = "PublishNamespace"
        /\ r.flags \in [Keys -> Declared \cup {NoFlag}]
    BY <1>2 DEF Publishes
  <2>2. Outcome(c, r) = Merged(c, r.flags)
    BY <2>1 DEF Outcome
  <2>3. ASSUME NEW k \in Keys
        PROVE  Merged(c, r.flags)[k] \in Flag \cup {NoFlag}
    <3>1. Bucket(c)[k] \in Flag \cup {NoFlag}
      BY <1>0 DEF Contents
    <3>2. r.flags[k] \in Declared \cup {NoFlag}
      BY <2>1
    <3> QED BY <3>1, <3>2 DEF Merged, Declared, Flag
  <2> QED BY <2>2, <2>3 DEF Merged, Contents
<1>3. CASE r \in Retires
  BY <1>3 DEF Retires, Outcome
<1> QED BY <1>1, <1>2, <1>3 DEF Writes

\* A write touches its own namespace and no other.
LEMMA AfterType ==
    ASSUME NEW s \in Stores, NEW r \in Writes, ~Refused(s[r.ns], r)
    PROVE  /\ r.ns \in Namespaces
           /\ After(s, r) \in Stores
           /\ After(s, r)[r.ns] = Outcome(s[r.ns], r)
           /\ \A n \in Namespaces : n # r.ns => After(s, r)[n] = s[n]
<1>1. r.ns \in Namespaces
  BY DEF Writes, Flips, Publishes, Retires
<1>2. s[r.ns] \in Contents \cup {Absent}
  BY <1>1 DEF Stores
<1>3. Outcome(s[r.ns], r) \in Contents \cup {Absent}
  BY <1>2, OutcomeType
<1> QED BY <1>1, <1>3 DEF After, Stores

\* The record of a write is a record.
LEMMA RecordOfType ==
    ASSUME NEW r \in Writes, NEW n \in Nat
    PROVE  /\ RecordOf(r, n) \in Records
           /\ RecordOf(r, n).rev = n
           /\ RecordOf(r, n).ns = r.ns
           /\ RecordOf(r, n).op = r.op
<1>1. CASE r \in Flips
  BY <1>1 DEF Flips, RecordOf, Records
<1>2. CASE r \in Publishes
  BY <1>2 DEF Publishes, RecordOf, Records
<1>3. CASE r \in Retires
  BY <1>3 DEF Retires, RecordOf, Records
<1> QED BY <1>1, <1>2, <1>3 DEF Writes

\* A flip or a retire, asked for or read from a line, keeps a store a store,
\* whatever it finds there.
LEMMA LineType ==
    ASSUME NEW s \in Stores, NEW l, l.ns \in Namespaces,
           l.op \in {"SetFlag", "DeleteNamespace"},
           l.op = "SetFlag" => l.key \in Keys /\ l.value \in Values \cup {NoValue}
    PROVE  After(s, l) \in Stores
<1>1. s[l.ns] \in Contents \cup {Absent}
  BY DEF Stores
<1>2. CASE l.op = "SetFlag"
  <2>1. l.key \in Keys /\ l.value \in Values \cup {NoValue}
    BY <1>2
  <2>2. Bucket(s[l.ns]) \in Contents
    BY <1>1, BucketType
  <2>3. [value |-> l.value,
         meta  |-> IF Bucket(s[l.ns])[l.key] = NoFlag THEN NoMeta
                   ELSE Bucket(s[l.ns])[l.key].meta] \in Flag
    BY <2>1, <2>2 DEF Contents, Flag
  <2>4. Outcome(s[l.ns], l) \in Contents
    BY <1>2, <2>1, <2>2, <2>3 DEF Outcome, Flipped, Contents
  <2> QED BY <1>1, <2>4 DEF After, Stores
<1>3. CASE l.op = "DeleteNamespace"
  BY <1>1, <1>3 DEF After, Outcome, Stores
<1> QED BY <1>2, <1>3
\* A namespace is never the sentinel, nor is a flag.
LEMMA NotAbsent ==
    /\ \A c \in Contents : c # Absent /\ Bucket(c) = c
    /\ \A f \in Flag : f # NoFlag
BY SentinelAssumption DEF Contents, Flag, Bucket

\* What a write makes of one flag of its namespace: it keeps its value unless
\* it was flipped, to a value of its kind, and a flip keeps its declaration.
LEMMA FlagOutcome ==
    ASSUME NEW c \in Contents \cup {Absent}, NEW r \in Writes,
           ~Refused(c, r), NEW k \in Keys,
           Bucket(c)[k] # NoFlag, Bucket(Outcome(c, r))[k] # NoFlag
    PROVE  /\ r.op \in {"SetFlag", "PublishNamespace"}
           /\ \/ Bucket(Outcome(c, r))[k].value = Bucket(c)[k].value
              \/ /\ r.op = "SetFlag" /\ r.key = k
                 /\ Bucket(Outcome(c, r))[k].value = r.value
                 /\ Bucket(c)[k].value # NoValue =>
                        Kind(r.value) = Kind(Bucket(c)[k].value)
           /\ r.op = "SetFlag" =>
                  Bucket(Outcome(c, r))[k].meta = Bucket(c)[k].meta
<1>0. Bucket(c) \in Contents /\ Bucket(c)[k] \in Flag
  BY BucketType DEF Contents
<1>1. CASE r \in Flips
  <2>1. r.op = "SetFlag" /\ r.key \in Keys /\ ~Retypes(c, r.key, r.value)
    BY <1>1 DEF Flips, Refused
  <2> DEFINE f == [value |-> r.value,
                   meta  |-> IF Bucket(c)[r.key] = NoFlag THEN NoMeta
                             ELSE Bucket(c)[r.key].meta]
  <2>2. Outcome(c, r) = [Bucket(c) EXCEPT ![r.key] = f]
    BY <2>1 DEF Outcome, Flipped
  <2>3. f \in Flag
    BY <1>0, <1>1, <2>1 DEF Contents, Flag, Flips
  <2>4. Outcome(c, r) \in Contents
    <3> HIDE DEF f
    <3> QED BY <1>0, <2>1, <2>2, <2>3 DEF Contents
  <2>5. Bucket(Outcome(c, r)) = Outcome(c, r)
    BY <2>4, NotAbsent
  <2>6. CASE r.key = k
    <3>1. Outcome(c, r)[k] = f /\ f.meta = Bucket(c)[k].meta
      BY <1>0, <2>2, <2>6 DEF Contents
    <3> QED BY <2>1, <2>5, <2>6, <3>1 DEF Retypes
  <2>7. CASE r.key # k
    <3>1. Outcome(c, r)[k] = Bucket(c)[k]
      <4> HIDE DEF f
      <4> QED BY <1>0, <2>2, <2>7 DEF Contents
    <3> QED BY <2>1, <2>5, <3>1
  <2> QED BY <2>6, <2>7
<1>2. CASE r \in Publishes
  <2>1. /\ r.op = "PublishNamespace"
        /\ r.flags \in [Keys -> Declared \cup {NoFlag}]
    BY <1>2 DEF Publishes
  <2>2. Outcome(c, r) = Merged(c, r.flags)
    BY <2>1 DEF Outcome
  <2>3. Outcome(c, r)[k].value = Bucket(c)[k].value
    BY <2>2 DEF Merged
  <2>4. Outcome(c, r) \in Contents
    <3>1. r \in Writes /\ Outcome(c, r) \in Contents \cup {Absent}
      BY OutcomeType
    <3>2. Outcome(c, r) = Absent => Bucket(Outcome(c, r))[k] = NoFlag
      BY DEF Bucket, NoContents
    <3> QED BY <3>1, <3>2
  <2> QED BY <2>1, <2>3, <2>4, NotAbsent
<1>3. CASE r \in Retires
  BY <1>3 DEF Retires, Outcome, Bucket, NoContents
<1> QED BY <1>1, <1>2, <1>3 DEF Writes

\* The same of a whole store, where a write leaves the other namespaces alone.
LEMMA FlagAfter ==
    ASSUME NEW s \in Stores, NEW r \in Writes, ~Refused(s[r.ns], r),
           NEW n \in Namespaces, NEW k \in Keys,
           Bucket(s[n])[k] # NoFlag, Bucket(After(s, r)[n])[k] # NoFlag
    PROVE  \/ After(s, r)[n] = s[n]
           \/ /\ r.ns = n /\ r.op \in {"SetFlag", "PublishNamespace"}
              /\ \/ Bucket(After(s, r)[n])[k].value = Bucket(s[n])[k].value
                 \/ /\ r.op = "SetFlag" /\ r.key = k
                    /\ Bucket(After(s, r)[n])[k].value = r.value
                    /\ Bucket(s[n])[k].value # NoValue =>
                           Kind(r.value) = Kind(Bucket(s[n])[k].value)
              /\ r.op = "SetFlag" =>
                     Bucket(After(s, r)[n])[k].meta = Bucket(s[n])[k].meta
<1>1. /\ After(s, r)[r.ns] = Outcome(s[r.ns], r)
      /\ n # r.ns => After(s, r)[n] = s[n]
  BY AfterType
<1>2. s[n] \in Contents \cup {Absent}
  BY DEF Stores
<1>3. CASE n # r.ns
  BY <1>1, <1>3
<1>4. CASE n = r.ns
  BY <1>1, <1>2, <1>4, FlagOutcome
<1> QED BY <1>3, <1>4
=============================================================================
