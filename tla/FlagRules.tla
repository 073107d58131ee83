----------------------------- MODULE FlagRules -----------------------------
(***************************************************************************)
(* What a flag, a namespace and a write are, and what each write does to    *)
(* one namespace: the mutations run inside Store.transact (store.go), the   *)
(* rules of validate.go and the publish checks of server.go.  Pure          *)
(* operators, shared by the abstract store, the detailed one and the       *)
(* replay of the record.                                                    *)
(*                                                                         *)
(* A namespace's contents are a function from Keys to flags, NoFlag where   *)
(* the bucket has no such key, or Absent when there is no bucket.          *)
(* A flag is its value and what its service declared about it: the         *)
(* description and the expensive mark are one member of Metas, told apart   *)
(* only by what lintExpensive asks of them.  UpdatedAt is left out.         *)
(***************************************************************************)
EXTENDS Integers, FiniteSets, Sequences

CONSTANTS
    Namespaces,   \* service@version pairs the rules accept
    Keys,         \* flag keys the rules accept
    Values,       \* typed flag values
    KindOf,       \* the kind of each value: bool, string or int
    Metas,        \* what a deploy declares of a flag
    Expensive,    \* the declarations that mark the flag expensive
    Polar,        \* the declarations that state "on:" and "off:"
    Negated,      \* the keys whose name reads as a negation
    FlagBudget,   \* 24 in the code
    NoValue,      \* a nil Value
    NoMeta,       \* what a flag created by a flip was declared with
    NoFlag,       \* the bucket has no such key
    NoKey,        \* the empty key field of a record
    Absent        \* there is no bucket of that name

ASSUME KindsAssumption  == KindOf \in [Values -> {"bool", "string", "int"}]
ASSUME MetasAssumption  == Expensive \subseteq Metas /\ Polar \subseteq Metas
ASSUME KeysAssumption   == Negated \subseteq Keys /\ IsFiniteSet(Keys)
ASSUME BudgetAssumption == FlagBudget \in Nat \ {0}
ASSUME SentinelAssumption ==
    /\ NoValue \notin Values
    /\ NoMeta  \notin Metas
    /\ NoKey   \notin Keys
    /\ NoFlag  \notin [value : Values \cup {NoValue}, meta : Metas \cup {NoMeta}]
    /\ Absent  \notin [Keys -> [value : Values \cup {NoValue},
                                meta  : Metas \cup {NoMeta}] \cup {NoFlag}]

Flag == [value : Values \cup {NoValue}, meta : Metas \cup {NoMeta}]

Contents == [Keys -> Flag \cup {NoFlag}]

Stores == [Namespaces -> Contents \cup {Absent}]

NoContents == [k \in Keys |-> NoFlag]

EmptyStore == [n \in Namespaces |-> Absent]

\* CreateBucketIfNotExists: what the mutation finds in its bucket.
Bucket(c) == IF c = Absent THEN NoContents ELSE c

Held(c) == {k \in Keys : Bucket(c)[k] # NoFlag}

Kind(v) == IF v = NoValue THEN "none" ELSE KindOf[v]

---------------------------------------------------------------------------
\* The writes a handler asks of the store.

Flips    == [op : {"SetFlag"}, ns : Namespaces, key : Keys,
             value : Values \cup {NoValue}]
Declared == [value : Values \cup {NoValue}, meta : Metas]
Publishes == [op : {"PublishNamespace"}, ns : Namespaces,
              flags : [Keys -> Declared \cup {NoFlag}]]
Retires  == [op : {"DeleteNamespace"}, ns : Namespaces]

Writes == Flips \cup Publishes \cup Retires

\* lintExpensive: an expensive flag is a boolean, positively named, and its
\* description states both polarities.
LintExpensive(k, f) ==
    f.meta \in Expensive =>
        /\ Kind(f.value) = "bool"
        /\ k \notin Negated
        /\ f.meta \in Polar

\* What handlePublishNamespace refuses before it asks the store.  The other
\* handlers' checks are on names and reasons, which are valid by type here.
Admissible(r) ==
    r.op = "PublishNamespace" =>
        /\ Cardinality({k \in Keys : r.flags[k] # NoFlag}) <= FlagBudget
        /\ \A k \in Keys : r.flags[k] # NoFlag => LintExpensive(k, r.flags[k])

\* Mutant: the kind is not compared.
RetypesNever(c, k, v) == FALSE

\* Mutant: off by one at the limit.
OverBudgetByOne(c, k) ==
    Bucket(c)[k] = NoFlag /\ Cardinality(Held(c)) > FlagBudget

\* checkValue: a flip carries a value, of the kind the flag already has.
Retypes(c, k, v) ==
    /\ Bucket(c)[k] # NoFlag
    /\ Bucket(c)[k].value # NoValue
    /\ Kind(Bucket(c)[k].value) # Kind(v)

OverBudget(c, k) ==
    Bucket(c)[k] = NoFlag /\ Cardinality(Held(c)) >= FlagBudget

\* What the mutation refuses inside the transaction, against the namespace as
\* it is on disk.  Only a flip is refused there.
Refused(c, r) ==
    /\ r.op = "SetFlag"
    /\ \/ r.value = NoValue
       \/ Retypes(c, r.key, r.value)
       \/ OverBudget(c, r.key)

\* Mutant: a flip clears what the deploy declared.
FlippedBare(c, k, v) ==
    [Bucket(c) EXCEPT ![k] = [value |-> v, meta |-> NoMeta]]

\* setFlag: the flip changes the value and keeps what the deploy declared.
Flipped(c, k, v) ==
    [Bucket(c) EXCEPT
        ![k] = [value |-> v,
                meta  |-> IF Bucket(c)[k] = NoFlag THEN NoMeta
                                                   ELSE Bucket(c)[k].meta]]

\* Mutant: a publish takes the deploy's value.
MergedClobbers(c, flags) ==
    [k \in Keys |-> IF flags[k] = NoFlag THEN Bucket(c)[k] ELSE flags[k]]

\* Publish: declared flags take the deploy's metadata and keep the value they
\* have; the flags it does not name stay.
Merged(c, flags) ==
    [k \in Keys |->
        IF flags[k] = NoFlag THEN Bucket(c)[k]
        ELSE IF Bucket(c)[k] = NoFlag THEN flags[k]
        ELSE [value |-> Bucket(c)[k].value, meta |-> flags[k].meta]]

\* The namespace after the write.
Outcome(c, r) ==
    CASE r.op = "SetFlag"          -> Flipped(c, r.key, r.value)
      [] r.op = "PublishNamespace" -> Merged(c, r.flags)
      [] r.op = "DeleteNamespace"  -> Absent

After(s, r) == [s EXCEPT ![r.ns] = Outcome(s[r.ns], r)]

---------------------------------------------------------------------------
\* The record of a write.  A publish is recorded without its flags and a
\* retire without a key: only a flip's value is in the record.
Records == [op : {"SetFlag"}, ns : Namespaces, key : Keys,
            value : Values \cup {NoValue}, rev : Nat]
           \cup
           [op : {"PublishNamespace", "DeleteNamespace"}, ns : Namespaces,
            key : {NoKey}, value : {NoValue}, rev : Nat]

RecordOf(r, n) ==
    [op    |-> r.op,
     ns    |-> r.ns,
     key   |-> IF r.op = "SetFlag" THEN r.key ELSE NoKey,
     value |-> IF r.op = "SetFlag" THEN r.value ELSE NoValue,
     rev   |-> n]

\* Record i is the last word on its flag: nothing after it retires the
\* namespace or flips the same key.
LastWord(log, i) ==
    \A j \in DOMAIN log :
        (j > i /\ log[j].ns = log[i].ns) =>
            /\ log[j].op # "DeleteNamespace"
            /\ log[j].op = "SetFlag" => log[j].key # log[i].key

\* Record i retired its namespace and nothing since wrote to it.
LastRetire(log, i) ==
    \A j \in DOMAIN log : j > i => log[j].ns # log[i].ns

\* The store agrees with the record on namespace n: every flip that is the
\* last word on its flag is the value held, and a namespace whose last record
\* is a retire is absent.
Agrees(s, log, n) ==
    \A i \in DOMAIN log :
        log[i].ns = n =>
            /\ (log[i].op = "SetFlag" /\ LastWord(log, i)) =>
                  /\ s[n] # Absent
                  /\ s[n][log[i].key] # NoFlag
                  /\ s[n][log[i].key].value = log[i].value
            /\ (log[i].op = "DeleteNamespace" /\ LastRetire(log, i)) =>
                  s[n] = Absent
=============================================================================
