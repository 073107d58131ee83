----------------------------- MODULE FliprClient -----------------------------
(***************************************************************************)
(* The Go client (clients/go/flipr.go): one Client shared by the goroutines *)
(* of a service, the remembered lock, the retries, the cached namespace and *)
(* the republish after a wipe, over a network that loses attempts and a     *)
(* store that is flipped, wiped, locked and stopped meanwhile.              *)
(*                                                                         *)
(* Every critical section of c.mu is one step.  The client's own code takes *)
(* no time; an attempt takes up to Timeout, after which it has landed or    *)
(* failed.  The store answers each request in one step.                     *)
(***************************************************************************)
EXTENDS Naturals

CONSTANTS
    Threads,     \* goroutines that share the client
    Keys,        \* flag keys of the namespace
    DeclaredOn,  \* the keys declared on; the others are declared off
    Undeclared,  \* the flag is not in the store
    NoNamespace, \* the client holds no namespace
    NoReply,     \* no answer has come yet
    Silent,      \* no answer was given yet
    Policy,      \* Config.OnUnknown: "refuse" or "hold"
    Verbs,       \* the calls the service makes
    Starts,      \* how the store may stand when the service starts
    TTL,         \* Config.CacheTTL; 0 is NoCache
    Timeout,     \* the http client's timeout
    LockFor,     \* the lock's deadline: Retry-After, capped at LockCeiling
    Attempts,    \* Retry.Attempts
    MaxTime,     \* bound: the clock
    MaxCalls,    \* bound: calls made
    MaxEvents    \* bound: flips, wipes, locks and stops, and attempts lost while
                 \* the store is reachable

ASSUME KeysAssumption   == Keys # {} /\ DeclaredOn \subseteq Keys
ASSUME NoFlagAssumption == Undeclared \notin BOOLEAN
ASSUME NoNamespaceAssumption == NoNamespace \notin [Keys -> BOOLEAN \cup {Undeclared}]
ASSUME PolicyAssumption == Policy \in {"refuse", "hold"}
ASSUME VerbsAssumption  == Verbs \subseteq {"Check", "Refresh", "Set", "List"}
ASSUME StartsAssumption == Starts \subseteq {"open", "locked", "halted", "down"}
ASSUME TimesAssumption  == /\ TTL \in Nat /\ Timeout \in Nat /\ LockFor \in Nat
                           /\ Attempts \in Nat \ {0}
ASSUME BoundsAssumption == /\ MaxTime \in Nat /\ MaxCalls \in Nat
                           /\ MaxEvents \in Nat

VARIABLES
    gen,        \* the store's generation
    flags,      \* the flags of this service's namespace, as stored
    world,      \* how the store stands to this client
    booted,     \* New returned
    storeGen,   \* Client.gen; 0 is ""
    published,  \* Client.published
    isUp,       \* Client.up
    last,       \* Client.last
    ns,         \* Client.ns
    refreshed,  \* Client.refreshed
    lockUntil,  \* Client.lockUntil; 0 is the zero time
    pc,         \* where each goroutine is
    call,       \* the call it makes, and the rpc it is in
    wire,       \* the answer under way to it
    said,       \* history: the answer this step gave
    now,        \* the clock
    held,       \* history: when the store last held a value it then lost
    lockedAt,   \* history: when a lock was last in place
    declared,   \* history: the store took this client's declarations
    spent       \* history: calls and events so far

store   == <<gen, flags, world>>
memory  == <<booted, storeGen, published, isUp, last, ns, refreshed, lockUntil>>
threads == <<pc, call, wire>>
history == <<held, lockedAt, declared, spent>>
vars    == <<store, memory, threads, said, now, history>>

Worlds  == {"open", "locked", "halted", "down"}
Phases  == {"idle", "standing", "flight", "done", "failed",
            "fresh", "read", "unknown"}
Methods == {"Ping", "PublishNamespace", "GetNamespace", "SetFlag",
            "ListNamespaces"}

Stored  == [Keys -> BOOLEAN \cup {Undeclared}]
Held    == [Keys -> BOOLEAN \cup {Undeclared}] \cup {NoNamespace}
Answers == [by : Threads, key : Keys, on : BOOLEAN, known : BOOLEAN]
Replies == [status : {"ok", "locked", "missing"}, gen : Nat, ns : Held]
Calls   == [verb : Verbs \cup {"none", "New"}, key : Keys, value : BOOLEAN,
            method : Methods, attempt : Nat, sent : Nat,
            stopped : BOOLEAN]

\* A goroutine that is in no call of the client.
NoCall == [verb |-> "none", key |-> CHOOSE k \in Keys : TRUE, value |-> FALSE,
           method |-> "Ping", attempt |-> 0, sent |-> 0,
           stopped |-> FALSE]

\* ClientTypeOK: every variable keeps to the values its declaration describes.
ClientTypeOK ==
    /\ gen \in Nat /\ flags \in Stored /\ world \in Worlds
    /\ booted \in BOOLEAN /\ storeGen \in Nat
    /\ published \in BOOLEAN /\ isUp \in BOOLEAN
    /\ last \in Stored
    /\ ns \in Held
    /\ refreshed \in Nat /\ lockUntil \in Nat
    /\ pc \in [Threads -> Phases]
    /\ call \in [Threads -> Calls]
    /\ wire \in [Threads -> Replies \cup {NoReply}]
    /\ said \in Answers \cup {Silent}
    /\ now \in Nat
    /\ held \in [Keys -> [BOOLEAN -> Nat]]
    /\ lockedAt \in Nat /\ declared \in BOOLEAN
    /\ spent \in [calls : Nat, events : Nat]

---------------------------------------------------------------------------
\* declaredDefault: one source for the publish and for the hold policy.
Default(k) == k \in DeclaredOn

\* A service starts against a store some earlier deploy may have declared to,
\* which may be locked or away at the time.
Init ==
    /\ gen = 1
    /\ flags \in [Keys -> BOOLEAN] \cup {[k \in Keys |-> Undeclared]}
    /\ world \in Starts
    /\ booted = FALSE /\ storeGen = 0 /\ published = FALSE /\ isUp = FALSE
    /\ last = [k \in Keys |-> Undeclared]
    /\ ns = NoNamespace /\ refreshed = 0 /\ lockUntil = 0
    /\ pc = [t \in Threads |-> "idle"]
    /\ call = [t \in Threads |-> NoCall]
    /\ wire = [t \in Threads |-> NoReply]
    /\ said = Silent
    /\ now = 1
    /\ held = [k \in Keys |-> [b \in BOOLEAN |-> 0]]
    /\ lockedAt = 0 /\ declared = FALSE
    /\ spent = [calls |-> 0, events |-> 0]

Goto(t, from, to) == pc[t] = from /\ pc' = [pc EXCEPT ![t] = to]

\* The call returns to the service.
Return(t) ==
    /\ pc' = [pc EXCEPT ![t] = "idle"]
    /\ call' = [call EXCEPT ![t] = NoCall]
    /\ wire' = [wire EXCEPT ![t] = NoReply]

\* The call makes its next rpc, which first looks at the remembered lock.
Invoke(t, m) ==
    /\ pc' = [pc EXCEPT ![t] = "standing"]
    /\ call' = [call EXCEPT ![t].method = m, ![t].attempt = 1]
    /\ wire' = [wire EXCEPT ![t] = NoReply]

\* The step gives the service no answer.
Mute == said' = Silent

Quiet == Mute /\ UNCHANGED <<store, now, history>>

---------------------------------------------------------------------------
\* New makes first contact, before the service shares the client.
New(t) ==
    /\ ~booted
    /\ \A u \in Threads : pc[u] = "idle"
    /\ pc' = [pc EXCEPT ![t] = "standing"]
    /\ call' = [call EXCEPT ![t] =
                  [NoCall EXCEPT !.verb = "New", !.attempt = 1]]
    /\ Mute /\ UNCHANGED <<store, memory, wire, now, history>>

\* Check, Refresh, Set or List begins with its first rpc.  stopped is history:
\* a check that has met nothing but a stopped store.
Begin(t, verb, k, v) ==
    /\ booted
    /\ pc[t] = "idle"
    /\ verb = "Set" \/ v = FALSE
    /\ spent.calls < MaxCalls
    /\ spent' = [spent EXCEPT !.calls = @ + 1]
    /\ pc' = [pc EXCEPT ![t] = "standing"]
    /\ call' = [call EXCEPT ![t] =
                  [NoCall EXCEPT
                     !.verb = verb, !.key = k, !.value = v, !.attempt = 1,
                     !.method = CASE verb = "Set"  -> "SetFlag"
                                  [] verb = "List" -> "ListNamespaces"
                                  [] OTHER         -> "Ping",
                     !.stopped = verb = "Check" /\ world \in {"halted", "down"}]]
    /\ Mute /\ UNCHANGED <<store, memory, wire, now, held, lockedAt, declared>>

LockStands == lockUntil # 0 /\ now <= lockUntil

\* Mutant: a lock answered from memory is noted again as if flipr had said it.
AnswerRenewsLock(t) ==
    /\ LockStands
    /\ Goto(t, "standing", "failed")
    /\ lockUntil' = now + LockFor
    /\ call' = [call EXCEPT ![t].attempt = 0]
    /\ Quiet
    /\ UNCHANGED <<booted, storeGen, published, isUp, last, ns, refreshed,
                   wire>>

\* lockStanding: the remembered lock answers, and no request is made.
AnswerFromLock(t) ==
    /\ LockStands
    /\ Goto(t, "standing", "failed")
    /\ call' = [call EXCEPT ![t].attempt = 0]
    /\ Quiet /\ UNCHANGED <<memory, wire>>

\* once: the attempt goes out.
Send(t) ==
    /\ ~LockStands
    /\ Goto(t, "standing", "flight")
    /\ call' = [call EXCEPT ![t].sent = now]
    /\ Quiet /\ UNCHANGED <<memory, wire>>

\* The store's flags become f, and the values it lost are dated.
Become(f) ==
    /\ flags' = f
    /\ held' = [k \in Keys |-> [b \in BOOLEAN |->
                  IF flags[k] = b /\ f[k] # b THEN now ELSE held[k][b]]]

Reply(t, status, g, n) ==
    wire' = [wire EXCEPT ![t] = [status |-> status, gen |-> g, ns |-> n]]

\* What a publish of the declarations makes of the stored flags.
Merged == [k \in Keys |-> IF flags[k] = Undeclared THEN Default(k) ELSE flags[k]]

Waiting(t) == pc[t] = "flight" /\ wire[t] = NoReply

\* A lock on the store stops every method that is decoded; one on the
\* namespace, those that name it.  ListNamespaces is never decoded.
Stopped(m) ==
    /\ m # "ListNamespaces"
    /\ \/ world = "halted"
       \/ world = "locked" /\ m # "Ping"

ServeLocked(t) ==
    /\ Waiting(t)
    /\ Stopped(call[t].method)
    /\ Reply(t, "locked", 0, NoNamespace)
    /\ Mute /\ UNCHANGED <<store, memory, pc, call, now, history>>

\* Ping carries the generation.
ServePing(t) ==
    /\ Waiting(t)
    /\ call[t].method = "Ping"
    /\ world \in {"open", "locked"}
    /\ Reply(t, "ok", gen, NoNamespace)
    /\ Mute /\ UNCHANGED <<store, memory, pc, call, now, history>>

\* handleListNamespaces looks at no lock: a store that is up answers.
ServeList(t) ==
    /\ Waiting(t)
    /\ call[t].method = "ListNamespaces"
    /\ world # "down"
    /\ Reply(t, "ok", 0, NoNamespace)
    /\ Mute /\ UNCHANGED <<store, memory, pc, call, now, history>>

ServePublish(t) ==
    /\ Waiting(t)
    /\ call[t].method = "PublishNamespace"
    /\ world = "open"
    /\ Become(Merged)
    /\ declared' = TRUE
    /\ Reply(t, "ok", 0, NoNamespace)
    /\ Mute /\ UNCHANGED <<gen, world, memory, pc, call, now, lockedAt, spent>>

\* A namespace nobody declared is flipr's own 404.
ServeGetNamespace(t) ==
    /\ Waiting(t)
    /\ call[t].method = "GetNamespace"
    /\ world = "open"
    /\ IF \A k \in Keys : flags[k] = Undeclared
       THEN Reply(t, "missing", 0, NoNamespace)
       ELSE Reply(t, "ok", 0, flags)
    /\ Mute /\ UNCHANGED <<store, memory, pc, call, now, history>>

ServeSetFlag(t) ==
    /\ Waiting(t)
    /\ call[t].method = "SetFlag"
    /\ world = "open"
    /\ IF flags[call[t].key] = Undeclared
       THEN /\ Reply(t, "missing", 0, NoNamespace)
            /\ UNCHANGED <<flags, held>>
       ELSE /\ Become([flags EXCEPT ![call[t].key] = call[t].value])
            /\ Reply(t, "ok", 0, NoNamespace)
    /\ Mute /\ UNCHANGED <<gen, world, memory, pc, call, now,
                   lockedAt, declared, spent>>

\* An answer arrives: a 200 clears the lock (noteUnlocked), a 423 remembers it
\* with its deadline (noteLocked), flipr's own 404 does neither; neither of
\* the last two is tried again.
Land(t) ==
    /\ pc[t] = "flight" /\ wire[t] # NoReply
    /\ \/ /\ wire[t].status = "ok"
          /\ lockUntil' = 0
          /\ pc' = [pc EXCEPT ![t] = "done"]
       \/ /\ wire[t].status = "locked"
          /\ lockUntil' = now + LockFor
          /\ pc' = [pc EXCEPT ![t] = "failed"]
       \/ /\ wire[t].status = "missing"
          /\ pc' = [pc EXCEPT ![t] = "failed"]
          /\ UNCHANGED lockUntil
    /\ call' = [call EXCEPT ![t].attempt = 0, ![t].sent = 0]
    /\ Quiet
    /\ UNCHANGED <<booted, storeGen, published, isUp, last, ns, refreshed,
                   wire>>

\* The request or its answer is lost: always when the store is down, else
\* against the bound.
Lost(t) ==
    /\ pc[t] = "flight"
    /\ \/ world = "down" /\ wire[t] = NoReply /\ UNCHANGED spent
       \/ spent.events < MaxEvents
          /\ spent' = [spent EXCEPT !.events = @ + 1]
    /\ wire' = [wire EXCEPT ![t] = NoReply]

\* Mutant: the attempts made are not counted.
TryAgainForever(t) ==
    /\ Lost(t)
    /\ call[t].attempt < Attempts
    /\ call' = [call EXCEPT ![t].sent = now]
    /\ Mute /\ UNCHANGED <<store, memory, pc, now, held, lockedAt, declared>>

\* Whatever the method, the next attempt follows.
TryAgain(t) ==
    /\ Lost(t)
    /\ call[t].attempt < Attempts
    /\ call' = [call EXCEPT ![t].attempt = @ + 1, ![t].sent = now]
    /\ Mute /\ UNCHANGED <<store, memory, pc, now, held, lockedAt, declared>>

GiveUp(t) ==
    /\ Lost(t)
    /\ call[t].attempt = Attempts
    /\ pc' = [pc EXCEPT ![t] = "failed"]
    /\ call' = [call EXCEPT ![t].attempt = 0, ![t].sent = 0]
    /\ Mute /\ UNCHANGED <<store, memory, now, held, lockedAt, declared>>

---------------------------------------------------------------------------
At(t, phase, m) == pc[t] = phase /\ call[t].method = m

\* A failed rpc ends New and Refresh; a check goes on to its policy.
Fail(t) ==
    IF call[t].verb = "Check"
    THEN /\ pc' = [pc EXCEPT ![t] = "unknown"]
         /\ wire' = [wire EXCEPT ![t] = NoReply]
         /\ UNCHANGED call
    ELSE Return(t)

\* verify is through: a check looks at its cache, a refresh fetches.
Verified(t) ==
    IF call[t].verb = "Check"
    THEN /\ pc' = [pc EXCEPT ![t] = "fresh"]
         /\ wire' = [wire EXCEPT ![t] = NoReply]
         /\ UNCHANGED call
    ELSE Invoke(t, "GetNamespace")

\* Mutant: an unanswered ping falls back on the cache.
PingFailsSoft(t) ==
    /\ At(t, "failed", "Ping")
    /\ IF call[t].verb = "New"
       THEN booted' = TRUE /\ Return(t) /\ UNCHANGED isUp
       ELSE isUp' = FALSE /\ Verified(t) /\ UNCHANGED booted
    /\ Quiet
    /\ UNCHANGED <<storeGen, published, last, ns, refreshed, lockUntil>>

\* New stays in flipr mode; verify marks flipr down.
PingFails(t) ==
    /\ At(t, "failed", "Ping")
    /\ IF call[t].verb = "New"
       THEN booted' = TRUE /\ UNCHANGED isUp
       ELSE isUp' = FALSE /\ UNCHANGED booted
    /\ Fail(t)
    /\ Quiet
    /\ UNCHANGED <<storeGen, published, last, ns, refreshed, lockUntil>>

\* New's first contact always publishes.
FirstContact(t) ==
    /\ At(t, "done", "Ping") /\ call[t].verb = "New"
    /\ storeGen' = wire[t].gen
    /\ isUp' = TRUE
    /\ Invoke(t, "PublishNamespace")
    /\ Quiet
    /\ UNCHANGED <<booted, published, last, ns, refreshed, lockUntil>>

\* Mutant: only a changed generation publishes, never the first answer.
VerifyWithoutPromotion(t) ==
    /\ At(t, "done", "Ping") /\ call[t].verb # "New"
    /\ LET changed == storeGen # 0 /\ wire[t].gen # storeGen
       IN  /\ ns' = IF changed THEN NoNamespace ELSE ns
           /\ IF changed
              THEN Invoke(t, "PublishNamespace")
              ELSE Verified(t)
    /\ isUp' = TRUE
    /\ storeGen' = wire[t].gen
    /\ Quiet
    /\ UNCHANGED <<booted, published, last, refreshed, lockUntil>>

\* verify: a changed generation drops the cache; it, or an answer before the
\* declarations ever arrived, republishes them.
Verify(t) ==
    /\ At(t, "done", "Ping") /\ call[t].verb # "New"
    /\ LET changed == storeGen # 0 /\ wire[t].gen # storeGen
       IN  /\ ns' = IF changed THEN NoNamespace ELSE ns
           /\ IF changed \/ ~published
              THEN Invoke(t, "PublishNamespace")
              ELSE Verified(t)
    /\ isUp' = TRUE
    /\ storeGen' = wire[t].gen
    /\ Quiet
    /\ UNCHANGED <<booted, published, last, refreshed, lockUntil>>

PublishFails(t) ==
    /\ At(t, "failed", "PublishNamespace")
    /\ booted' = TRUE
    /\ Fail(t)
    /\ Quiet
    /\ UNCHANGED <<storeGen, published, isUp, last, ns, refreshed,
                   lockUntil>>

Published(t) ==
    /\ At(t, "done", "PublishNamespace")
    /\ published' = TRUE
    /\ booted' = TRUE
    /\ IF call[t].verb = "New" THEN Return(t) ELSE Verified(t)
    /\ Quiet
    /\ UNCHANGED <<storeGen, isUp, last, ns, refreshed, lockUntil>>

\* Mutant: a cached namespace is fresh for good.
FreshForGood(t) ==
    /\ pc[t] = "fresh"
    /\ IF ns # NoNamespace
       THEN Goto(t, "fresh", "read") /\ UNCHANGED <<call, wire>>
       ELSE Invoke(t, "GetNamespace")
    /\ Quiet /\ UNCHANGED memory

\* Check: the cache answers within its ttl, else the namespace is fetched.
Fresh(t) ==
    /\ pc[t] = "fresh"
    /\ IF ns # NoNamespace /\ TTL > 0 /\ now - refreshed < TTL
       THEN Goto(t, "fresh", "read") /\ UNCHANGED <<call, wire>>
       ELSE Invoke(t, "GetNamespace")
    /\ Quiet /\ UNCHANGED memory

FetchFails(t) ==
    /\ At(t, "failed", "GetNamespace")
    /\ Fail(t)
    /\ Quiet /\ UNCHANGED memory

\* fetch: the whole namespace lands in the cache.
Fetched(t) ==
    /\ At(t, "done", "GetNamespace")
    /\ ns' = wire[t].ns
    /\ refreshed' = now
    /\ IF call[t].verb = "Check"
       THEN /\ Goto(t, "done", "read")
            /\ wire' = [wire EXCEPT ![t] = NoReply]
            /\ UNCHANGED call
       ELSE Return(t)
    /\ Quiet
    /\ UNCHANGED <<booted, storeGen, published, isUp, last, lockUntil>>

Say(t, on, known) ==
    said' = [by |-> t, key |-> call[t].key, on |-> on, known |-> known]

\* Mutant: hold does not look whether the key was ever read.
OnUnknownUnseen(k) == IF Policy = "hold" THEN last[k] ELSE FALSE

\* unknownLocked: hold keeps the last answer or the default, refuse stops.
OnUnknown(k) ==
    /\ Policy = "hold"
    /\ IF last[k] = Undeclared THEN Default(k) ELSE last[k]

\* Check's last critical section: what the cache holds now.
Read(t) ==
    LET k == call[t].key
        found == ns # NoNamespace /\ ns[k] # Undeclared
    IN  /\ pc[t] = "read"
        /\ IF found
           THEN last' = [last EXCEPT ![k] = ns[k]] /\ Say(t, ns[k], TRUE)
           ELSE Say(t, OnUnknown(k), FALSE) /\ UNCHANGED last
        /\ Return(t)
        /\ UNCHANGED <<store, now, history, booted, storeGen, published, isUp, ns,
                       refreshed, lockUntil>>

\* unknown: nothing authoritative answered.
Unknown(t) ==
    /\ pc[t] = "unknown"
    /\ Say(t, OnUnknown(call[t].key), FALSE)
    /\ Return(t)
    /\ UNCHANGED <<store, memory, now, history>>

\* Set: a flip that landed drops the cache, whichever namespace it was.
SetReturns(t) ==
    /\ pc[t] \in {"done", "failed"} /\ call[t].method = "SetFlag"
    /\ IF pc[t] = "done"
       THEN ns' = NoNamespace /\ refreshed' = 0
       ELSE UNCHANGED <<ns, refreshed>>
    /\ Return(t)
    /\ Quiet
    /\ UNCHANGED <<booted, storeGen, published, isUp, last, lockUntil>>

ListReturns(t) ==
    /\ pc[t] \in {"done", "failed"} /\ call[t].method = "ListNamespaces"
    /\ Return(t)
    /\ Quiet /\ UNCHANGED memory

---------------------------------------------------------------------------
Happens ==
    /\ spent.events < MaxEvents
    /\ spent' = [spent EXCEPT !.events = @ + 1]

\* An operator flips a flag.
Flip(k, b) ==
    /\ Happens
    /\ world = "open"
    /\ flags[k] = ~b
    /\ Become([flags EXCEPT ![k] = b])
    /\ Mute /\ UNCHANGED <<gen, world, memory, threads, now, lockedAt, declared>>

\* The store is lost and a fresh one takes its place.
Wipe ==
    /\ Happens
    /\ gen' = gen + 1
    /\ Become([k \in Keys |-> Undeclared])
    /\ Mute /\ UNCHANGED <<world, memory, threads, now, lockedAt, declared>>

\* flipr is locked, in part or whole, stopped, or let go.
Turn(w) ==
    /\ Happens
    /\ world # w
    /\ world' = w
    /\ lockedAt' = IF world \in {"locked", "halted"} THEN now ELSE lockedAt
    /\ call' = [t \in Threads |->
                  [call[t] EXCEPT !.stopped = @ /\ w \in {"halted", "down"}]]
    /\ Mute /\ UNCHANGED <<gen, flags, memory, pc, wire, now, held, declared>>

\* Time passes while every goroutine is idle or waits for an answer.
Tick ==
    /\ now < MaxTime
    /\ \A t \in Threads :
          \/ pc[t] = "idle"
          \/ pc[t] = "flight" /\ now - call[t].sent < Timeout
    /\ now' = now + 1
    /\ Mute /\ UNCHANGED <<store, memory, threads, history>>

\* The client's own code.
Run(t) ==
    \/ AnswerFromLock(t) \/ Send(t) \/ PingFails(t) \/ FirstContact(t)
    \/ Verify(t) \/ PublishFails(t) \/ Published(t) \/ Fresh(t)
    \/ FetchFails(t) \/ Fetched(t) \/ Read(t) \/ Unknown(t)
    \/ SetReturns(t) \/ ListReturns(t)

Serve(t) ==
    \/ ServeLocked(t) \/ ServePing(t) \/ ServeList(t) \/ ServePublish(t)
    \/ ServeGetNamespace(t) \/ ServeSetFlag(t)

\* The fate of an attempt: answered, or lost in time.
Settle(t) == Serve(t) \/ Land(t) \/ TryAgain(t) \/ GiveUp(t)

Outside ==
    \/ \E k \in Keys, b \in BOOLEAN : Flip(k, b)
    \/ Wipe
    \/ \E w \in Worlds : Turn(w)

Next ==
    \/ \E t \in Threads :
          \/ New(t)
          \/ \E verb \in Verbs, k \in Keys, v \in BOOLEAN : Begin(t, verb, k, v)
          \/ Run(t)
          \/ Settle(t)
    \/ Outside
    \/ Tick

Spec == Init /\ [][Next]_vars

\* Goroutines are scheduled, and http.Client's timeout ends every attempt.
\* Calls, time and what happens to the store are nobody's duty.
Fairness == \A t \in Threads : WF_vars(Run(t)) /\ WF_vars(Settle(t))

FairSpec == Spec /\ Fairness

---------------------------------------------------------------------------
(***************************************************************************)
(* Properties.                                                              *)
(***************************************************************************)

\* When the store last held b under k: now, if it still does.
LastHeld(k, b) == IF flags[k] = b THEN now ELSE held[k][b]

\* When a lock was last in place.
LastLocked == IF world \in {"locked", "halted"} THEN now ELSE lockedAt

\* How old a known answer may be: the cache's ttl and the answer's way.
StaleFor == Timeout + (IF TTL = 0 THEN 0 ELSE TTL - 1)

\* A check answers as known in this step.
Knows == said' # said /\ said' # Silent /\ said'.known

\* "A flip lands within it" (Config.CacheTTL): a value answered as known was
\* the store's no longer ago than the ttl and one answer's way, across wipes,
\* locks, and two goroutines filling one cache out of order.
FlipLandsInTime ==
    [][Knows => now <= LastHeld(said'.key, said'.on) + StaleFor]_vars

\* "The cache is a performance optimisation and never a fallback": a check
\* made while flipr was stopped, or wholly locked, from its first to its last
\* step is never known, whatever another goroutine put in the cache.
UnansweredIsUnknown ==
    [][Knows => ~call[said'.by].stopped]_vars

\* "The next answer is the promotion and the declarations land with it": a
\* client that found flipr down answers nothing as known before its own
\* declarations reached the store.
PromotionDeclares ==
    [][Knows => declared]_vars

\* The lock is remembered "with a deadline": what a client holds for a lock
\* was one no longer ago than the deadline and one answer's way, so a lock
\* let go is noticed.
StandingLockIsRecent ==
    LockStands => now <= LastLocked + Timeout + LockFor

\* "The total is bounded, so a dead flipr is reported promptly": every call
\* returns to the service, whatever is lost.
EveryCallReturns ==
    \A t \in Threads : (pc[t] # "idle") ~> (pc[t] = "idle")

---------------------------------------------------------------------------
\* What the text says and the code does not do; a run refutes each.

\* verify's comment, and CONTRACT.md section 5, "drops its cache, republishes
\* once, and continues": a client at rest that knows the store's generation
\* and counts itself published has its declarations there.
GenerationIsDeclared ==
    (/\ \A t \in Threads : pc[t] = "idle"
     /\ published /\ storeGen = gen)
    => \A k \in Keys : flags[k] # Undeclared
=============================================================================
