------------------------- MODULE FliprClient_proofs -------------------------
(***************************************************************************)
(* Theorems about FliprClient, for any goroutines, flags, policy, timeouts, *)
(* deadlines and bounds.                                                    *)
(***************************************************************************)
EXTENDS FliprClient, TLAPS

---------------------------------------------------------------------------
(***************************************************************************)
(* Types.                                                                   *)
(***************************************************************************)

\* An answer is held only by a goroutine in an rpc, and one that is done has
\* the store's.
Wired ==
    \A t \in Threads :
        /\ pc[t] \notin {"flight", "done", "failed"} => wire[t] = NoReply
        /\ pc[t] = "done" => wire[t] # NoReply /\ wire[t].status = "ok"

TypeInv == ClientTypeOK /\ Wired

\* The part of it the goroutines' own state makes up.
ThreadsOK ==
    /\ pc \in [Threads -> Phases]
    /\ call \in [Threads -> Calls]
    /\ wire \in [Threads -> Replies \cup {NoReply}]
    /\ Wired

LEMMA NoCallType == NoCall \in Calls
<1>1. (CHOOSE k \in Keys : TRUE) \in Keys
  BY KeysAssumption
<1> QED BY <1>1 DEF NoCall, Calls, Methods

\* What an edit of a call leaves of its type.
LEMMA AttemptEdit ==
    ASSUME NEW c \in Calls, NEW n \in Nat
    PROVE  /\ [c EXCEPT !.attempt = n] \in Calls
           /\ [c EXCEPT !.sent = n] \in Calls
BY DEF Calls

LEMMA BothEdits ==
    ASSUME NEW c \in Calls, NEW n \in Nat, NEW m \in Nat
    PROVE  [c EXCEPT !.attempt = n, !.sent = m] \in Calls
BY DEF Calls

LEMMA MethodEdit ==
    ASSUME NEW c \in Calls, NEW w \in Methods
    PROVE  [c EXCEPT !.method = w, !.attempt = 1] \in Calls
BY DEF Calls

\* The ways on from an rpc keep the goroutines' state well formed.
LEMMA ReturnType ==
    ASSUME ThreadsOK, NEW t \in Threads, Return(t) PROVE ThreadsOK'
BY NoCallType DEF ThreadsOK, Return, Wired, Phases

LEMMA InvokeType ==
    ASSUME ThreadsOK, NEW t \in Threads, NEW m \in Methods, Invoke(t, m)
    PROVE  ThreadsOK'
<1>1. [call[t] EXCEPT !.method = m, !.attempt = 1] \in Calls
  BY MethodEdit DEF ThreadsOK
<1>2. call' \in [Threads -> Calls]
  BY <1>1 DEF ThreadsOK, Invoke
<1> QED BY <1>2 DEF ThreadsOK, Invoke, Wired, Phases

LEMMA FailType ==
    ASSUME ThreadsOK, NEW t \in Threads, Fail(t) PROVE ThreadsOK'
<1>1. CASE call[t].verb = "Check"
  BY <1>1 DEF Fail, ThreadsOK, Wired, Phases
<1>2. CASE call[t].verb # "Check"
  BY <1>2, ReturnType DEF Fail
<1> QED BY <1>1, <1>2

LEMMA VerifiedType ==
    ASSUME ThreadsOK, NEW t \in Threads, Verified(t) PROVE ThreadsOK'
<1>1. CASE call[t].verb = "Check"
  BY <1>1 DEF Verified, ThreadsOK, Wired, Phases
<1>2. CASE call[t].verb # "Check"
  BY <1>2, InvokeType, "GetNamespace" \in Methods DEF Verified, Methods
<1> QED BY <1>1, <1>2

\* A goroutine that is done has an answer of the store.
LEMMA DoneReply ==
    ASSUME TypeInv, NEW t \in Threads, pc[t] = "done"
    PROVE  wire[t] \in Replies /\ wire[t].gen \in Nat /\ wire[t].ns \in Held
BY DEF TypeInv, ClientTypeOK, Wired, Replies

LEMMA BecomeType ==
    ASSUME TypeInv, NEW f \in Stored, Become(f)
    PROVE  flags' \in Stored /\ held' \in [Keys -> [BOOLEAN -> Nat]]
BY DEF TypeInv, ClientTypeOK, Become

\* An answer put on the wire of a goroutine that waits for one.
LEMMA ReplyType ==
    ASSUME ThreadsOK, NEW t \in Threads, Waiting(t),
           NEW s \in {"ok", "locked", "missing"}, NEW g \in Nat, NEW n \in Held,
           Reply(t, s, g, n), UNCHANGED <<pc, call>>
    PROVE  ThreadsOK'
<1>1. [status |-> s, gen |-> g, ns |-> n] \in Replies
  BY DEF Replies
<1> QED BY <1>1 DEF ThreadsOK, Waiting, Reply, Wired

LEMMA TypeInvInit == Init => TypeInv
<1> SUFFICES ASSUME Init PROVE TypeInv
  OBVIOUS
<1> QED BY NoCallType, StartsAssumption DEF Init, TypeInv, ClientTypeOK, Wired, Worlds, Phases, Stored, Held

\* The client's memory and the goroutines, with nothing else moved.
ClientOnly == /\ ThreadsOK'
              /\ said' \in Answers \cup {Silent}
              /\ UNCHANGED <<store, now, history>>
              /\ booted' \in BOOLEAN /\ storeGen' \in Nat
              /\ published' \in BOOLEAN /\ isUp' \in BOOLEAN
              /\ last' \in Stored /\ ns' \in Held
              /\ refreshed' \in Nat /\ lockUntil' \in Nat

LEMMA ClientOnlyType == TypeInv /\ ClientOnly => TypeInv'
BY DEF TypeInv, ClientOnly, ClientTypeOK, ThreadsOK, store, history

LEMMA SaidType ==
    ASSUME NEW t \in Threads, call[t].key \in Keys,
           NEW on \in BOOLEAN, NEW known \in BOOLEAN, Say(t, on, known)
    PROVE  said' \in Answers
BY DEF Say, Answers

LEMMA RunType ==
    ASSUME TypeInv, NEW t \in Threads, Run(t) PROVE ClientOnly
<1> USE DEF ClientOnly, Quiet, Mute
<1>0. ThreadsOK /\ call[t] \in Calls /\ now \in Nat /\ 0 \in Nat
      /\ "PublishNamespace" \in Methods /\ "GetNamespace" \in Methods
      /\ LockFor \in Nat
  BY TimesAssumption DEF TypeInv, ClientTypeOK, ThreadsOK, Methods
<1>m. /\ booted \in BOOLEAN /\ storeGen \in Nat
      /\ published \in BOOLEAN /\ isUp \in BOOLEAN
      /\ last \in Stored /\ ns \in Held
      /\ refreshed \in Nat /\ lockUntil \in Nat
      /\ NoNamespace \in Held
  BY DEF TypeInv, ClientTypeOK, Held
<1>1. CASE AnswerFromLock(t)
  <2>1. [call[t] EXCEPT !.attempt = 0] \in Calls
    BY <1>0, AttemptEdit
  <2>2. ThreadsOK'
    BY <1>0, <1>1, <2>1 DEF AnswerFromLock, Goto, ThreadsOK, Wired, Phases
  <2> QED BY <1>1, <2>2, <1>m DEF AnswerFromLock, memory
<1>2. CASE Send(t)
  <2>1. [call[t] EXCEPT !.sent = now] \in Calls
    BY <1>0, AttemptEdit
  <2>2. ThreadsOK'
    BY <1>0, <1>2, <2>1 DEF Send, Goto, ThreadsOK, Wired, Phases
  <2> QED BY <1>2, <2>2, <1>m DEF Send, memory
<1>3. CASE PingFails(t)
  BY <1>0, <1>3, <1>m, FailType DEF PingFails
<1>4. CASE FirstContact(t)
  BY <1>0, <1>4, <1>m, InvokeType, DoneReply DEF FirstContact, At
<1>5. CASE Verify(t)
  <2>1. ThreadsOK'
    BY <1>0, <1>5, InvokeType, VerifiedType DEF Verify
  <2>2. ns' \in Held /\ storeGen' \in Nat
    BY <1>5, <1>m, DoneReply DEF Verify, At
  <2> QED BY <1>5, <2>1, <2>2, <1>m DEF Verify
<1>6. CASE PublishFails(t)
  BY <1>0, <1>6, <1>m, FailType DEF PublishFails
<1>7. CASE Published(t)
  BY <1>0, <1>7, <1>m, ReturnType, VerifiedType DEF Published
<1>8. CASE Fresh(t)
  <2>1. ThreadsOK'
    <3>1. CASE Goto(t, "fresh", "read") /\ UNCHANGED <<call, wire>>
      BY <1>0, <3>1 DEF Goto, ThreadsOK, Wired, Phases
    <3>2. CASE Invoke(t, "GetNamespace")
      BY <1>0, <3>2, InvokeType
    <3> QED BY <1>8, <3>1, <3>2 DEF Fresh
  <2> QED BY <1>8, <2>1, <1>m DEF Fresh, memory
<1>9. CASE FetchFails(t)
  BY <1>0, <1>9, <1>m, FailType DEF FetchFails, memory
<1>10. CASE Fetched(t)
  <2>1. ThreadsOK'
    <3>1. CASE call[t].verb = "Check"
      BY <1>0, <1>10, <3>1 DEF Fetched, Goto, ThreadsOK, Wired, Phases
    <3>2. CASE call[t].verb # "Check"
      BY <1>0, <1>10, <3>2, ReturnType DEF Fetched
    <3> QED BY <3>1, <3>2
  <2> QED BY <1>0, <1>10, <2>1, <1>m, DoneReply DEF Fetched, At
<1>11. CASE Read(t)
  <2>1. ThreadsOK'
    BY <1>0, <1>11, ReturnType DEF Read
  <2>2. call[t].key \in Keys
    BY <1>0 DEF Calls
  <2>3. CASE ns # NoNamespace /\ ns[call[t].key] # Undeclared
    <3>1. ns[call[t].key] \in BOOLEAN
      BY <2>2, <2>3, <1>m DEF Held
    <3>2. said' \in Answers
      <4>1. Say(t, ns[call[t].key], TRUE)
        BY <1>11, <2>3 DEF Read
      <4> QED BY <4>1, <2>2, <3>1, SaidType
    <3>3. last' \in Stored
      BY <1>11, <2>2, <2>3, <3>1, <1>m DEF Read, Stored
    <3> QED BY <1>11, <2>1, <3>2, <3>3, <1>m DEF Read
  <2>4. CASE ~(ns # NoNamespace /\ ns[call[t].key] # Undeclared)
    <3>1. OnUnknown(call[t].key) \in BOOLEAN
      BY <2>2, <1>m DEF OnUnknown, Default, Stored
    <3>2. said' \in Answers
      <4>1. Say(t, OnUnknown(call[t].key), FALSE)
        BY <1>11, <2>4 DEF Read
      <4> QED BY <4>1, <2>2, <3>1, SaidType
    <3>3. last' \in Stored
      BY <1>11, <2>4, <1>m DEF Read
    <3> QED BY <1>11, <2>1, <3>2, <3>3, <1>m DEF Read
  <2> QED BY <2>3, <2>4
<1>12. CASE Unknown(t)
  <2>1. ThreadsOK'
    BY <1>0, <1>12, ReturnType DEF Unknown
  <2>2. call[t].key \in Keys
    BY <1>0 DEF Calls
  <2>3. OnUnknown(call[t].key) \in BOOLEAN
    BY <2>2, <1>m DEF OnUnknown, Default, Stored
  <2> QED BY <1>12, <2>1, <2>2, <2>3, <1>m DEF Unknown, Say, Answers, memory
<1>13. CASE SetReturns(t)
  BY <1>0, <1>13, <1>m, ReturnType DEF SetReturns
<1>14. CASE ListReturns(t)
  BY <1>0, <1>14, <1>m, ReturnType DEF ListReturns, memory
<1> QED BY <1>1, <1>2, <1>3, <1>4, <1>5, <1>6, <1>7, <1>8, <1>9, <1>10, <1>11,
           <1>12, <1>13, <1>14 DEF Run

LEMMA SettleType ==
    ASSUME TypeInv, NEW t \in Threads, Settle(t) PROVE TypeInv'
<1> USE DEF TypeInv, Mute
<1>0. /\ ThreadsOK /\ call[t] \in Calls /\ now \in Nat /\ 0 \in Nat
      /\ gen \in Nat /\ NoNamespace \in Held /\ flags \in Held
      /\ call[t].attempt \in Nat /\ call[t].attempt + 1 \in Nat
      /\ LockFor \in Nat
  BY TimesAssumption DEF ClientTypeOK, ThreadsOK, Calls, Held, Stored
<1>1. CASE ServeLocked(t)
  <2>1. ThreadsOK'
    BY <1>0, <1>1, ReplyType DEF ServeLocked
  <2> QED BY <1>1, <2>1 DEF ServeLocked, ThreadsOK, ClientTypeOK, store, memory, history
<1>2. CASE ServePing(t)
  <2>1. ThreadsOK'
    BY <1>0, <1>2, ReplyType DEF ServePing
  <2> QED BY <1>2, <2>1 DEF ServePing, ThreadsOK, ClientTypeOK, store, memory, history
<1>10. CASE ServeList(t)
  <2>1. ThreadsOK'
    BY <1>0, <1>10, ReplyType DEF ServeList
  <2> QED BY <1>10, <2>1 DEF ServeList, ThreadsOK, ClientTypeOK, store, memory, history
<1>3. CASE ServePublish(t)
  <2>1. ThreadsOK'
    BY <1>0, <1>3, ReplyType DEF ServePublish
  <2>2. Merged \in Stored
    BY DEF Merged, Default, Stored, ClientTypeOK
  <2>3. flags' \in Stored /\ held' \in [Keys -> [BOOLEAN -> Nat]]
    BY <1>3, <2>2, BecomeType DEF ServePublish
  <2> QED BY <1>3, <2>1, <2>3 DEF ServePublish, ThreadsOK, ClientTypeOK, memory
<1>4. CASE ServeGetNamespace(t)
  <2>1. ThreadsOK'
    BY <1>0, <1>4, ReplyType DEF ServeGetNamespace
  <2> QED BY <1>4, <2>1
          DEF ServeGetNamespace, ThreadsOK, ClientTypeOK, store, memory, history
<1>5. CASE ServeSetFlag(t)
  <2>1. ThreadsOK'
    BY <1>0, <1>5, ReplyType DEF ServeSetFlag
  <2>2. [flags EXCEPT ![call[t].key] = call[t].value] \in Stored
    BY <1>0 DEF Stored, ClientTypeOK, Calls
  <2>3. flags' \in Stored /\ held' \in [Keys -> [BOOLEAN -> Nat]]
    BY <1>5, <2>2, BecomeType DEF ServeSetFlag, ClientTypeOK
  <2> QED BY <1>5, <2>1, <2>3 DEF ServeSetFlag, ThreadsOK, ClientTypeOK, memory
<1>6. CASE Land(t)
  <2>1. [call[t] EXCEPT !.attempt = 0, !.sent = 0] \in Calls
    BY <1>0, BothEdits
  <2>2. ThreadsOK'
    BY <1>0, <1>6, <2>1 DEF Land, Quiet, ThreadsOK, Wired, Phases
  <2>3. lockUntil' \in Nat
    BY <1>0, <1>6 DEF Land, ClientTypeOK
  <2> QED BY <1>6, <2>2, <2>3
          DEF Land, Quiet, ThreadsOK, ClientTypeOK, store, history
<1>7. ASSUME Lost(t) PROVE /\ wire' = [wire EXCEPT ![t] = NoReply]
                           /\ spent' \in [calls : Nat, events : Nat]
                           /\ pc[t] = "flight"
  BY <1>7 DEF Lost, ClientTypeOK
<1>8. CASE TryAgain(t)
  <2>1. [call[t] EXCEPT !.attempt = @ + 1, !.sent = now] \in Calls
    BY <1>0, BothEdits
  <2>2. ThreadsOK'
    BY <1>0, <1>7, <1>8, <2>1 DEF TryAgain, ThreadsOK, Wired
  <2> QED BY <1>7, <1>8, <2>2 DEF TryAgain, ThreadsOK, ClientTypeOK, store, memory
<1>9. CASE GiveUp(t)
  <2>1. [call[t] EXCEPT !.attempt = 0, !.sent = 0] \in Calls
    BY <1>0, BothEdits
  <2>2. ThreadsOK'
    BY <1>0, <1>7, <1>9, <2>1 DEF GiveUp, ThreadsOK, Wired, Phases
  <2> QED BY <1>7, <1>9, <2>2 DEF GiveUp, ThreadsOK, ClientTypeOK, store, memory
<1> QED BY <1>1, <1>2, <1>3, <1>4, <1>5, <1>6, <1>8, <1>9, <1>10 DEF Settle, Serve

LEMMA OutsideType == TypeInv /\ (Outside \/ Tick) => TypeInv'
<1> SUFFICES ASSUME TypeInv, Outside \/ Tick PROVE TypeInv'
  OBVIOUS
<1> USE DEF TypeInv, Mute
<1>1. ASSUME NEW k \in Keys, NEW b \in BOOLEAN, Flip(k, b) PROVE TypeInv'
  <2>1. [flags EXCEPT ![k] = b] \in Stored
    BY DEF Stored, ClientTypeOK
  <2>2. flags' \in Stored /\ held' \in [Keys -> [BOOLEAN -> Nat]]
    BY <1>1, <2>1, BecomeType DEF Flip
  <2> QED BY <1>1, <2>2 DEF Flip, Happens, ClientTypeOK, Wired, memory, threads
<1>2. CASE Wipe
  <2>1. [k \in Keys |-> Undeclared] \in Stored
    BY DEF Stored
  <2>2. flags' \in Stored /\ held' \in [Keys -> [BOOLEAN -> Nat]]
    BY <1>2, <2>1, BecomeType DEF Wipe
  <2> QED BY <1>2, <2>2 DEF Wipe, Happens, ClientTypeOK, Wired, memory, threads
<1>3. ASSUME NEW w \in Worlds, Turn(w) PROVE TypeInv'
  <2>1. ASSUME NEW c \in Calls
        PROVE  [c EXCEPT !.stopped = @ /\ w \in {"halted", "down"}] \in Calls
    BY DEF Calls
  <2>2. call' \in [Threads -> Calls]
    BY <1>3, <2>1 DEF Turn, ClientTypeOK
  <2> QED BY <1>3, <2>2 DEF Turn, Happens, ClientTypeOK, Wired, memory
<1>4. CASE Tick
  BY <1>4 DEF Tick, ClientTypeOK, Wired, store, memory, threads, history
<1> QED BY <1>1, <1>2, <1>3, <1>4 DEF Outside

LEMMA TypeInvNext == TypeInv /\ [Next]_vars => TypeInv'
<1> SUFFICES ASSUME TypeInv, [Next]_vars PROVE TypeInv'
  OBVIOUS
<1>1. ASSUME NEW t \in Threads, New(t) PROVE TypeInv'
  <2>1. [NoCall EXCEPT !.verb = "New", !.attempt = 1] \in Calls
    BY NoCallType DEF Calls
  <2> QED BY <1>1, <2>1
      DEF New, TypeInv, ClientTypeOK, Wired, Mute, store, memory, history, Phases
<1>2. ASSUME NEW t \in Threads, NEW verb \in Verbs, NEW k \in Keys,
             NEW v \in BOOLEAN, Begin(t, verb, k, v)
      PROVE TypeInv'
  <2> DEFINE m == CASE verb = "Set"  -> "SetFlag"
                    [] verb = "List" -> "ListNamespaces"
                    [] OTHER         -> "Ping"
             s == verb = "Check" /\ world \in {"halted", "down"}
  <2>1. m \in Methods
    BY DEF Methods
  <2>2. s \in BOOLEAN
    OBVIOUS
  <2>3. call' = [call EXCEPT ![t] =
                   [NoCall EXCEPT !.verb = verb, !.key = k, !.value = v,
                                  !.attempt = 1, !.method = m, !.stopped = s]]
    BY <1>2 DEF Begin
  <2> HIDE DEF m, s
  <2>4. [NoCall EXCEPT !.verb = verb, !.key = k, !.value = v,
                       !.attempt = 1, !.method = m, !.stopped = s] \in Calls
    BY NoCallType, <2>1, <2>2 DEF Calls
  <2>5. call' \in [Threads -> Calls]
    BY <2>3, <2>4 DEF TypeInv, ClientTypeOK
  <2>6. spent' \in [calls : Nat, events : Nat]
    BY <1>2 DEF Begin, TypeInv, ClientTypeOK
  <2> QED BY <1>2, <2>5, <2>6
          DEF Begin, TypeInv, ClientTypeOK, Wired, Mute, store, memory, Phases
<1>3. ASSUME NEW t \in Threads, Run(t) PROVE TypeInv'
  BY <1>3, RunType, ClientOnlyType
<1>4. CASE UNCHANGED vars
  BY <1>4 DEF vars, store, memory, threads, history, TypeInv, ClientTypeOK, Wired
<1> QED BY <1>1, <1>2, <1>3, <1>4, SettleType, OutsideType DEF Next

\* Every variable of the client and of the store keeps to its type.
THEOREM ClientTypeCorrect == Spec => []ClientTypeOK
<1>1. Spec => []TypeInv
  BY TypeInvInit, TypeInvNext, PTL DEF Spec
<1>2. TypeInv => ClientTypeOK
  BY DEF TypeInv
<1> QED BY <1>1, <1>2, PTL

---------------------------------------------------------------------------
(***************************************************************************)
(* What a step of the client's own code may do, whichever it is.            *)
(***************************************************************************)

\* Only goroutine t moves, out of its rpc or into the next one.
Moved(t) ==
    /\ \A u \in Threads : u # t => /\ pc'[u] = pc[u]
                                   /\ call'[u] = call[u]
                                   /\ wire'[u] = wire[u]
    /\ wire'[t] = NoReply
    /\ pc'[t] # "done"
    /\ pc'[t] = "flight" => call'[t].sent = now
    /\ call'[t].stopped => call[t].stopped
    /\ call'[t].method \in {call[t].method, "Ping", "PublishNamespace", "GetNamespace"}

\* A check looks at the cache only after an answer, and fetches only from a
\* store that has the declarations.
Answered(t) ==
    /\ pc'[t] \in {"fresh", "read"} => pc[t] \in {"done", "fresh"}
    /\ pc'[t] \in {"fresh", "read"} \/ call'[t].method = "GetNamespace"
       => \/ call[t].method = "GetNamespace" \/ pc[t] = "fresh" \/ published
          \/ pc[t] = "done" /\ call[t].method = "PublishNamespace"
    /\ published' => \/ published
                     \/ pc[t] = "done" /\ call[t].method = "PublishNamespace"

\* The cache is kept, dropped or filled with the answer, and read in time.
Cached(t) ==
    /\ \/ UNCHANGED <<ns, refreshed>>
       \/ ns' = NoNamespace /\ refreshed' \in {refreshed, 0}
       \/ pc[t] = "done" /\ ns' = wire[t].ns /\ refreshed' = now
    /\ pc'[t] = "read" => \/ UNCHANGED <<ns, refreshed>> /\ TTL > 0 /\ now - refreshed < TTL
                          \/ refreshed' = now

RunStep(t) ==
    /\ UNCHANGED <<store, now, history, lockUntil>>
    /\ Moved(t) /\ Answered(t) /\ Cached(t)

LEMMA ReturnMoves ==
    ASSUME TypeInv, NEW t \in Threads, Return(t)
    PROVE  Moved(t) /\ pc'[t] = "idle" /\ call'[t].method = "Ping"
BY DEF TypeInv, ClientTypeOK, Return, Moved, NoCall

LEMMA InvokeMoves ==
    ASSUME TypeInv, NEW t \in Threads,
           NEW m \in {"PublishNamespace", "GetNamespace"}, Invoke(t, m)
    PROVE  Moved(t) /\ pc'[t] = "standing" /\ call'[t].method = m
<1>1. call'[t] = [call[t] EXCEPT !.method = m, !.attempt = 1]
  BY DEF TypeInv, ClientTypeOK, Invoke
<1>2. call'[t].stopped = call[t].stopped /\ call'[t].method = m
  BY <1>1 DEF TypeInv, ClientTypeOK, Calls
<1> QED BY <1>2 DEF TypeInv, ClientTypeOK, Invoke, Moved

LEMMA FailMoves ==
    ASSUME TypeInv, NEW t \in Threads, Fail(t)
    PROVE  /\ Moved(t) /\ pc'[t] \in {"idle", "unknown"}
           /\ call'[t].method \in {"Ping", call[t].method}
<1>1. CASE call[t].verb = "Check"
  BY <1>1 DEF Fail, TypeInv, ClientTypeOK, Moved
<1>2. CASE call[t].verb # "Check"
  BY <1>2, ReturnMoves DEF Fail
<1> QED BY <1>1, <1>2

LEMMA VerifiedMoves ==
    ASSUME TypeInv, NEW t \in Threads, Verified(t)
    PROVE  Moved(t) /\ pc'[t] \in {"fresh", "standing"}
<1>1. CASE call[t].verb = "Check"
  BY <1>1 DEF Verified, TypeInv, ClientTypeOK, Moved
<1>2. CASE call[t].verb # "Check"
  BY <1>2, InvokeMoves, "GetNamespace" \in Methods DEF Verified, Methods
<1> QED BY <1>1, <1>2

LEMMA RunSteps ==
    ASSUME TypeInv, NEW t \in Threads, Run(t) PROVE RunStep(t)
<1> USE DEF RunStep, Answered, Cached, Quiet, Mute, At
<1>0. /\ "PublishNamespace" \in Methods /\ "GetNamespace" \in Methods
      /\ call \in [Threads -> Calls] /\ pc \in [Threads -> Phases]
      /\ wire \in [Threads -> Replies \cup {NoReply}]
      /\ now \in Nat /\ refreshed \in Nat
      /\ pc[t] \notin {"flight", "done", "failed"} => wire[t] = NoReply
  BY DEF Methods, TypeInv, ClientTypeOK, Wired
<1>1. CASE AnswerFromLock(t)
  <2>1. call'[t] = [call[t] EXCEPT !.attempt = 0]
    BY <1>0, <1>1 DEF AnswerFromLock
  <2>2. call'[t].stopped = call[t].stopped /\ call'[t].method = call[t].method
    BY <1>0, <2>1 DEF Calls
  <2>3. Moved(t) /\ pc'[t] = "failed"
    BY <1>0, <1>1, <2>2 DEF AnswerFromLock, Goto, Moved
  <2> QED BY <1>1, <2>2, <2>3 DEF AnswerFromLock, memory
<1>2. CASE Send(t)
  <2>1. call'[t] = [call[t] EXCEPT !.sent = now]
    BY <1>0, <1>2 DEF Send
  <2>2. /\ call'[t].stopped = call[t].stopped /\ call'[t].method = call[t].method
        /\ call'[t].sent = now
    BY <1>0, <2>1 DEF Calls
  <2>3. Moved(t) /\ pc'[t] = "flight"
    BY <1>0, <1>2, <2>2 DEF Send, Goto, Moved
  <2> QED BY <1>2, <2>2, <2>3 DEF Send, memory
<1>3. CASE PingFails(t)
  BY <1>3, FailMoves DEF PingFails
<1>4. CASE FirstContact(t)
  BY <1>0, <1>4, InvokeMoves DEF FirstContact
<1>5. CASE Verify(t)
  BY <1>0, <1>5, InvokeMoves, VerifiedMoves DEF Verify
<1>6. CASE PublishFails(t)
  BY <1>6, FailMoves DEF PublishFails
<1>7. CASE Published(t)
  BY <1>7, ReturnMoves, VerifiedMoves DEF Published
<1>8. CASE Fresh(t)
  <2>1. CASE Goto(t, "fresh", "read") /\ UNCHANGED <<call, wire>>
             /\ TTL > 0 /\ now - refreshed < TTL
    <3>1. Moved(t) /\ pc'[t] = "read" /\ pc[t] = "fresh"
      BY <1>0, <2>1 DEF Goto, Moved
    <3> QED BY <1>8, <2>1, <3>1 DEF Fresh, memory
  <2>2. CASE Invoke(t, "GetNamespace")
    BY <1>0, <1>8, <2>2, InvokeMoves DEF Fresh, memory
  <2> QED BY <1>8, <2>1, <2>2 DEF Fresh
<1>9. CASE FetchFails(t)
  BY <1>9, FailMoves DEF FetchFails, memory
<1>10. CASE Fetched(t)
  <2>1. CASE call[t].verb = "Check"
    <3>1. Moved(t) /\ pc'[t] = "read"
      BY <1>0, <1>10, <2>1 DEF Fetched, Goto, Moved
    <3> QED BY <1>10, <3>1 DEF Fetched
  <2>2. CASE call[t].verb # "Check"
    BY <1>10, <2>2, ReturnMoves DEF Fetched
  <2> QED BY <2>1, <2>2
<1>11. CASE Read(t)
  BY <1>11, ReturnMoves DEF Read
<1>12. CASE Unknown(t)
  BY <1>12, ReturnMoves DEF Unknown, memory
<1>13. CASE SetReturns(t)
  BY <1>13, ReturnMoves DEF SetReturns
<1>14. CASE ListReturns(t)
  BY <1>14, ReturnMoves DEF ListReturns, memory
<1> QED BY <1>1, <1>2, <1>3, <1>4, <1>5, <1>6, <1>7, <1>8, <1>9, <1>10, <1>11,
           <1>12, <1>13, <1>14 DEF Run

---------------------------------------------------------------------------
(***************************************************************************)
(* And what every other step may do.                                        *)
(***************************************************************************)

Others(t) == \A u \in Threads : u # t => /\ pc'[u] = pc[u]
                                         /\ call'[u] = call[u]
                                         /\ wire'[u] = wire[u]

SameCall(t) == call'[t].method = call[t].method /\ call'[t].stopped = call[t].stopped

\* The stored flags stay, or change and are dated.
Aged == UNCHANGED <<flags, held>> \/ \E f \in Stored : Become(f)

EnterStep(t) ==
    /\ UNCHANGED <<store, memory, now, held, lockedAt, declared, wire>>
    /\ Others(t)
    /\ pc[t] = "idle" /\ pc'[t] = "standing"
    /\ call'[t].method \notin {"GetNamespace", "PublishNamespace"}
    /\ call'[t].stopped => world \in {"halted", "down"} /\ call'[t].method = "Ping"

ServeStep(t) ==
    /\ Waiting(t)
    /\ UNCHANGED <<world, memory, pc, call, now, lockedAt>>
    /\ Others(t)
    /\ wire'[t].status = "locked" => world \in {"locked", "halted"}
    /\ world \in {"halted", "down"} /\ call[t].method # "ListNamespaces"
       => wire'[t].status = "locked"
    /\ wire'[t].ns # NoNamespace => wire'[t].ns = flags /\ flags' = flags
    /\ wire'[t].status = "ok" /\ call[t].method = "PublishNamespace" => declared'
    /\ declared => declared'
    /\ Aged

LandStep(t) ==
    /\ pc[t] = "flight" /\ wire[t] # NoReply
    /\ UNCHANGED <<store, published, ns, refreshed, wire, now, history>>
    /\ Others(t) /\ SameCall(t)
    /\ pc'[t] \in {"done", "failed"}
    /\ pc'[t] = "done" => wire[t].status = "ok"
    /\ \/ lockUntil' \in {0, lockUntil}
       \/ wire[t].status = "locked" /\ lockUntil' = now + LockFor

LoseStep(t) ==
    /\ pc[t] = "flight"
    /\ UNCHANGED <<store, memory, now, held, lockedAt, declared>>
    /\ Others(t) /\ SameCall(t)
    /\ wire'[t] = NoReply
    /\ pc'[t] \in {"flight", "failed"}
    /\ pc'[t] = "flight" => call'[t].sent = now

OutsideStep ==
    /\ UNCHANGED <<memory, pc, wire, now, declared>>
    /\ \A t \in Threads :
          /\ call'[t].sent = call[t].sent /\ call'[t].method = call[t].method
          /\ call'[t].stopped => /\ call[t].stopped
                                 /\ world' = world \/ world' \in {"halted", "down"}
    /\ Aged
    /\ \/ UNCHANGED <<world, lockedAt>>
       \/ lockedAt' = LastLocked

ThreadStep(t) ==
    EnterStep(t) \/ RunStep(t) \/ ServeStep(t) \/ LandStep(t) \/ LoseStep(t)

Step == (\E t \in Threads : ThreadStep(t)) \/ OutsideStep \/ Tick \/ UNCHANGED vars

LEMMA BeginSteps ==
    ASSUME TypeInv, NEW t \in Threads, NEW verb \in Verbs, NEW k \in Keys,
           NEW v \in BOOLEAN, Begin(t, verb, k, v)
    PROVE  EnterStep(t)
<1>1. /\ call'[t].method = CASE verb = "Set"  -> "SetFlag"
                             [] verb = "List" -> "ListNamespaces"
                             [] OTHER         -> "Ping"
      /\ call'[t].stopped = (verb = "Check" /\ world \in {"halted", "down"})
  BY DEF Begin, NoCall, TypeInv, ClientTypeOK
<1>2. Others(t) /\ pc'[t] = "standing"
  BY DEF Begin, Others, TypeInv, ClientTypeOK
<1>3. call'[t].method \notin {"GetNamespace", "PublishNamespace"}
  BY <1>1
<1>4. UNCHANGED <<store, memory, now, held, lockedAt, declared, wire>> /\ pc[t] = "idle"
  BY DEF Begin
<1>5. call'[t].stopped => world \in {"halted", "down"} /\ call'[t].method = "Ping"
  BY <1>1
<1> QED BY <1>2, <1>3, <1>4, <1>5 DEF EnterStep

LEMMA NewSteps ==
    ASSUME TypeInv, NEW t \in Threads, New(t) PROVE EnterStep(t)
BY DEF New, EnterStep, Others, NoCall, TypeInv, ClientTypeOK, history

\* An answer of the store reaches the wire of the one that waits.
LEMMA ReplyMoves ==
    ASSUME TypeInv, NEW t \in Threads, NEW s, NEW g, NEW n,
           Reply(t, s, g, n), UNCHANGED <<pc, call>>
    PROVE  /\ Others(t)
           /\ wire'[t].status = s /\ wire'[t].ns = n
BY DEF Reply, Others, TypeInv, ClientTypeOK

LEMMA ServeSteps ==
    ASSUME TypeInv, NEW t \in Threads, Serve(t) PROVE ServeStep(t)
<1> USE DEF ServeStep, Aged
<1>1. CASE ServeLocked(t)
  BY <1>1, ReplyMoves DEF ServeLocked, Stopped, store, history
<1>2. CASE ServePing(t)
  BY <1>2, ReplyMoves DEF ServePing, store, history
<1>6. CASE ServeList(t)
  BY <1>6, ReplyMoves DEF ServeList, store, history
<1>3. CASE ServePublish(t)
  <2>1. Merged \in Stored
    BY DEF Merged, Default, Stored, TypeInv, ClientTypeOK
  <2> QED BY <1>3, <2>1, ReplyMoves DEF ServePublish
<1>4. CASE ServeGetNamespace(t)
  BY <1>4, ReplyMoves DEF ServeGetNamespace, store, history
<1>5. CASE ServeSetFlag(t)
  <2>1. [flags EXCEPT ![call[t].key] = call[t].value] \in Stored
    BY DEF Stored, TypeInv, ClientTypeOK, Calls
  <2>2. Aged
    BY <1>5, <2>1 DEF ServeSetFlag
  <2>3. Others(t) /\ wire'[t].status \in {"ok", "missing"} /\ wire'[t].ns = NoNamespace
    BY <1>5, ReplyMoves DEF ServeSetFlag
  <2> QED BY <1>5, <2>2, <2>3 DEF ServeSetFlag
<1> QED BY <1>1, <1>2, <1>3, <1>4, <1>5, <1>6 DEF Serve

LEMMA LandSteps ==
    ASSUME TypeInv, NEW t \in Threads, Land(t) PROVE LandStep(t)
<1>1. call'[t] = [call[t] EXCEPT !.attempt = 0, !.sent = 0]
  BY DEF Land, TypeInv, ClientTypeOK
<1>2. SameCall(t)
  BY <1>1 DEF SameCall, TypeInv, ClientTypeOK, Calls
<1>3. Others(t)
  BY DEF Land, Others, TypeInv, ClientTypeOK
<1> QED BY <1>2, <1>3 DEF Land, LandStep, Quiet, TypeInv, ClientTypeOK

LEMMA LoseSteps ==
    ASSUME TypeInv, NEW t \in Threads, TryAgain(t) \/ GiveUp(t) PROVE LoseStep(t)
<1>0. pc[t] = "flight" /\ wire' = [wire EXCEPT ![t] = NoReply]
  BY DEF TryAgain, GiveUp, Lost
<1>1. CASE TryAgain(t)
  <2>1. call'[t] = [call[t] EXCEPT !.attempt = @ + 1, !.sent = now]
    BY <1>1 DEF TryAgain, TypeInv, ClientTypeOK
  <2>2. SameCall(t) /\ call'[t].sent = now
    BY <2>1 DEF SameCall, TypeInv, ClientTypeOK, Calls
  <2>3. Others(t) /\ pc'[t] = "flight" /\ wire'[t] = NoReply
    BY <1>0, <1>1 DEF TryAgain, Others, TypeInv, ClientTypeOK
  <2> QED BY <1>0, <1>1, <2>2, <2>3 DEF TryAgain, LoseStep
<1>2. CASE GiveUp(t)
  <2>1. call'[t] = [call[t] EXCEPT !.attempt = 0, !.sent = 0]
    BY <1>2 DEF GiveUp, TypeInv, ClientTypeOK
  <2>2. SameCall(t)
    BY <2>1 DEF SameCall, TypeInv, ClientTypeOK, Calls
  <2>3. Others(t) /\ pc'[t] = "failed" /\ wire'[t] = NoReply
    BY <1>0, <1>2 DEF GiveUp, Others, TypeInv, ClientTypeOK
  <2> QED BY <1>0, <1>2, <2>2, <2>3 DEF GiveUp, LoseStep
<1> QED BY <1>1, <1>2

LEMMA OutsideSteps == TypeInv /\ Outside => OutsideStep
<1> SUFFICES ASSUME TypeInv, Outside PROVE OutsideStep
  OBVIOUS
<1> USE DEF OutsideStep, Aged
<1>1. ASSUME NEW k \in Keys, NEW b \in BOOLEAN, Flip(k, b) PROVE OutsideStep
  <2>1. [flags EXCEPT ![k] = b] \in Stored
    BY DEF Stored, TypeInv, ClientTypeOK
  <2> QED BY <1>1, <2>1 DEF Flip, threads
<1>2. CASE Wipe
  <2>1. [k \in Keys |-> Undeclared] \in Stored
    BY DEF Stored
  <2> QED BY <1>2, <2>1 DEF Wipe, threads
<1>3. ASSUME NEW w \in Worlds, Turn(w) PROVE OutsideStep
  <2>1. ASSUME NEW t \in Threads
        PROVE  /\ call'[t].sent = call[t].sent /\ call'[t].method = call[t].method
               /\ call'[t].stopped => call[t].stopped /\ w \in {"halted", "down"}
    <3>1. call'[t] = [call[t] EXCEPT !.stopped = @ /\ w \in {"halted", "down"}]
      BY <1>3 DEF Turn
    <3>2. call'[t].sent = call[t].sent /\ call'[t].method = call[t].method
      BY <3>1 DEF TypeInv, ClientTypeOK, Calls
    <3>3. call'[t].stopped = (call[t].stopped /\ w \in {"halted", "down"})
      BY <3>1 DEF TypeInv, ClientTypeOK, Calls
    <3> QED BY <3>2, <3>3
  <2> QED BY <1>3, <2>1 DEF Turn, LastLocked
<1> QED BY <1>1, <1>2, <1>3 DEF Outside

LEMMA StepsOf == TypeInv /\ [Next]_vars => Step
<1> SUFFICES ASSUME TypeInv, [Next]_vars PROVE Step
  OBVIOUS
<1>1. ASSUME NEW t \in Threads, Settle(t) PROVE ThreadStep(t)
  BY <1>1, ServeSteps, LandSteps, LoseSteps DEF Settle, ThreadStep
<1> QED BY <1>1, NewSteps, BeginSteps, RunSteps, OutsideSteps
        DEF Next, Step, ThreadStep

---------------------------------------------------------------------------
(***************************************************************************)
(* Dates: nothing is dated in the future, an attempt ends in time, and the  *)
(* dates the properties read never go back.                                 *)
(***************************************************************************)

Dated ==
    /\ lockedAt <= now /\ refreshed <= now
    /\ \A k \in Keys, b \in BOOLEAN : held[k][b] <= now
    /\ \A t \in Threads :
          pc[t] = "flight" => call[t].sent <= now /\ now <= call[t].sent + Timeout

Later ==
    /\ now <= now'
    /\ LastLocked <= LastLocked'
    /\ \A k \in Keys, b \in BOOLEAN : LastHeld(k, b) <= LastHeld(k, b)'
    /\ declared => declared'

\* The numbers among the variables.
LEMMA Numbers ==
    ASSUME TypeInv
    PROVE  /\ now \in Nat /\ lockedAt \in Nat /\ refreshed \in Nat /\ lockUntil \in Nat
           /\ Timeout \in Nat /\ LockFor \in Nat /\ TTL \in Nat
           /\ LastLocked \in Nat
           /\ \A k \in Keys, b \in BOOLEAN : held[k][b] \in Nat /\ LastHeld(k, b) \in Nat
           /\ \A t \in Threads : call[t].sent \in Nat
BY TimesAssumption DEF TypeInv, ClientTypeOK, LastLocked, LastHeld, Calls

LEMMA AgedLater ==
    ASSUME TypeInv, Dated, Aged, now' = now
    PROVE  \A k \in Keys, b \in BOOLEAN :
              held'[k][b] <= now /\ LastHeld(k, b) <= LastHeld(k, b)'
<1> SUFFICES ASSUME NEW k \in Keys, NEW b \in BOOLEAN
             PROVE  held'[k][b] <= now /\ LastHeld(k, b) <= LastHeld(k, b)'
  OBVIOUS
<1>0. now \in Nat /\ held[k][b] \in Nat /\ held[k][b] <= now
  BY Numbers DEF Dated
<1>1. CASE UNCHANGED <<flags, held>>
  BY <1>0, <1>1 DEF LastHeld
<1>2. CASE \E f \in Stored : Become(f)
  <2>1. held'[k][b] = IF flags[k] = b /\ flags'[k] # b THEN now ELSE held[k][b]
    BY <1>2 DEF Become
  <2> QED BY <1>0, <2>1 DEF LastHeld
<1> QED BY <1>1, <1>2 DEF Aged

LEMMA StepLater ==
    ASSUME TypeInv, Dated, Step PROVE Later
<1>0. \A k \in Keys, b \in BOOLEAN : held[k][b] <= now
  BY DEF Dated
<1>1. CASE UNCHANGED <<flags, held>> /\ UNCHANGED <<world, lockedAt, now, declared>>
  BY <1>1, Numbers DEF Later, LastHeld, LastLocked
<1>2. ASSUME NEW t \in Threads, ServeStep(t) PROVE Later
  BY <1>2, AgedLater, Numbers DEF ServeStep, Later, LastLocked
<1>3. ASSUME NEW t \in Threads, EnterStep(t) \/ RunStep(t) \/ LandStep(t) \/ LoseStep(t)
      PROVE  Later
  BY <1>1, <1>3 DEF EnterStep, RunStep, LandStep, LoseStep, store, history
<1>4. CASE OutsideStep
  <2>1. now' = now /\ declared' = declared
    BY <1>4 DEF OutsideStep
  <2>2. LastLocked <= LastLocked'
    <3>1. CASE UNCHANGED <<world, lockedAt>>
      BY <2>1, <3>1, Numbers DEF LastLocked
    <3>2. CASE lockedAt' = LastLocked
      BY <2>1, <3>2, Numbers DEF LastLocked, Dated
    <3> QED BY <1>4, <3>1, <3>2 DEF OutsideStep
  <2> QED BY <1>4, <2>1, <2>2, AgedLater, Numbers DEF OutsideStep, Later
<1>5. CASE Tick
  BY <1>5, <1>0, Numbers DEF Tick, store, history, Later, LastLocked, LastHeld, Dated
<1>6. CASE UNCHANGED vars
  BY <1>1, <1>6 DEF vars, store, history
<1> QED BY <1>2, <1>3, <1>4, <1>5, <1>6 DEF Step, ThreadStep

LEMMA StepDated ==
    ASSUME TypeInv, Dated, Step PROVE Dated'
<1>0. /\ now \in Nat /\ lockedAt \in Nat /\ refreshed \in Nat /\ Timeout \in Nat
      /\ \A k \in Keys, b \in BOOLEAN : held[k][b] \in Nat
      /\ \A u \in Threads : call[u].sent \in Nat
  BY Numbers
<1>1. ASSUME NEW t \in Threads, EnterStep(t) PROVE Dated'
  BY <1>1 DEF EnterStep, Others, Dated, memory
<1>2. ASSUME NEW t \in Threads, RunStep(t) PROVE Dated'
  <2>1. refreshed' <= now
    BY <1>0, <1>2 DEF RunStep, Cached, Dated
  <2>2. \A u \in Threads : pc'[u] = "flight" =>
           call'[u].sent <= now /\ now <= call'[u].sent + Timeout
    BY <1>0, <1>2 DEF RunStep, Moved, Dated
  <2> QED BY <1>2, <2>1, <2>2 DEF RunStep, Dated, history
<1>3. ASSUME NEW t \in Threads, ServeStep(t) PROVE Dated'
  BY <1>3, AgedLater DEF ServeStep, Dated, memory
<1>4. ASSUME NEW t \in Threads, LandStep(t) PROVE Dated'
  BY <1>4 DEF LandStep, Others, Dated, history
<1>5. ASSUME NEW t \in Threads, LoseStep(t) PROVE Dated'
  BY <1>0, <1>5 DEF LoseStep, Others, Dated, memory
<1>6. CASE OutsideStep
  <2>1. lockedAt' <= now
    BY <1>0, <1>6 DEF OutsideStep, Dated, LastLocked
  <2> QED BY <1>6, <2>1, AgedLater DEF OutsideStep, Dated, memory
<1>7. CASE Tick
  BY <1>0, <1>7 DEF Tick, store, memory, threads, history, Dated
<1>8. CASE UNCHANGED vars
  BY <1>8 DEF vars, memory, threads, history, Dated
<1> QED BY <1>1, <1>2, <1>3, <1>4, <1>5, <1>6, <1>7, <1>8 DEF Step, ThreadStep

---------------------------------------------------------------------------
(***************************************************************************)
(* The remembered lock.                                                     *)
(***************************************************************************)

\* The deadline follows a lock that was in place, and an answer under way
\* that says locked was given after the attempt went out.
LockInv ==
    /\ lockUntil <= LastLocked + Timeout + LockFor
    /\ \A t \in Threads :
          pc[t] = "flight" /\ wire[t] # NoReply /\ wire[t].status = "locked"
          => call[t].sent <= LastLocked

LEMMA StepLockInv ==
    ASSUME TypeInv, Dated, LockInv, Later, LastLocked' \in Nat, Step PROVE LockInv'
<1>0. /\ now \in Nat /\ lockUntil \in Nat /\ Timeout \in Nat /\ LockFor \in Nat
      /\ LastLocked \in Nat /\ LastLocked' \in Nat /\ LastLocked <= LastLocked'
      /\ \A u \in Threads : call[u].sent \in Nat
  BY Numbers DEF Later
<1>1. ASSUME UNCHANGED lockUntil
      PROVE  lockUntil' <= LastLocked' + Timeout + LockFor
  BY <1>0, <1>1 DEF LockInv, LastLocked
<1>2. ASSUME NEW u \in Threads, UNCHANGED <<pc[u], wire[u], call[u].sent>>
      PROVE  pc'[u] = "flight" /\ wire'[u] # NoReply /\ wire'[u].status = "locked"
             => call'[u].sent <= LastLocked'
  <2> SUFFICES ASSUME pc'[u] = "flight", wire'[u] # NoReply, wire'[u].status = "locked"
               PROVE  call'[u].sent <= LastLocked'
    OBVIOUS
  <2>1. call[u].sent <= LastLocked
    BY <1>2 DEF LockInv
  <2>2. call[u].sent \in Nat /\ call'[u].sent = call[u].sent
    BY <1>0, <1>2
  <2> QED BY <1>0, <2>1, <2>2 DEF LastLocked
<1>3. ASSUME NEW t \in Threads, EnterStep(t) PROVE LockInv'
  BY <1>1, <1>2, <1>3 DEF EnterStep, Others, LockInv, memory
<1>4. ASSUME NEW t \in Threads, RunStep(t) PROVE LockInv'
  BY <1>1, <1>2, <1>4 DEF RunStep, Moved, LockInv
<1>5. ASSUME NEW t \in Threads, ServeStep(t) PROVE LockInv'
  <2>1. wire'[t].status = "locked" => call'[t].sent <= LastLocked'
    BY <1>0, <1>5 DEF ServeStep, Waiting, Dated, LastLocked
  <2> QED BY <1>1, <1>2, <1>5, <2>1 DEF ServeStep, Others, LockInv, memory
<1>6. ASSUME NEW t \in Threads, LandStep(t) PROVE LockInv'
  <2>1. lockUntil' <= LastLocked' + Timeout + LockFor
    <3>1. CASE lockUntil' \in {0, lockUntil}
      BY <1>0, <3>1 DEF LockInv, LastLocked
    <3>2. CASE wire[t].status = "locked" /\ lockUntil' = now + LockFor
      <4>1. call[t].sent <= LastLocked /\ now <= call[t].sent + Timeout
        BY <1>6, <3>2 DEF LockInv, LandStep, Dated
      <4> QED BY <1>0, <3>2, <4>1 DEF LastLocked
    <3> QED BY <1>6, <3>1, <3>2 DEF LandStep
  <2> QED BY <1>2, <1>6, <2>1 DEF LandStep, Others, LockInv
<1>7. ASSUME NEW t \in Threads, LoseStep(t) PROVE LockInv'
  BY <1>1, <1>2, <1>7 DEF LoseStep, Others, LockInv, memory
<1>8. CASE OutsideStep
  BY <1>1, <1>2, <1>8 DEF OutsideStep, LockInv, memory
<1>9. CASE Tick \/ UNCHANGED vars
  BY <1>1, <1>2, <1>9 DEF Tick, vars, memory, threads, LockInv
<1> QED BY <1>3, <1>4, <1>5, <1>6, <1>7, <1>8, <1>9 DEF Step, ThreadStep

---------------------------------------------------------------------------
(***************************************************************************)
(* The promotion.                                                           *)
(***************************************************************************)

\* Whoever counts as published, looks at the cache or fetches does so over a
\* store that took the declarations, and so does who is told of a publish.
PromoteInv ==
    /\ published => declared
    /\ \A t \in Threads :
          /\ pc[t] \in {"fresh", "read"} \/ call[t].method = "GetNamespace"
             => declared
          /\ call[t].method = "PublishNamespace" /\ wire[t] # NoReply
             /\ wire[t].status = "ok"
             => declared

LEMMA StepPromoteInv ==
    ASSUME TypeInv, PromoteInv, declared => declared', Step PROVE PromoteInv'
<1>1. ASSUME NEW t \in Threads, EnterStep(t) PROVE PromoteInv'
  BY <1>1 DEF EnterStep, Others, PromoteInv, memory
<1>2. ASSUME NEW t \in Threads, RunStep(t) PROVE PromoteInv'
  <2>1. pc[t] = "done" /\ call[t].method = "PublishNamespace" => declared
    BY DEF PromoteInv, TypeInv, Wired
  <2>2. published' => declared'
    BY <1>2, <2>1 DEF RunStep, Answered, PromoteInv
  <2>3. pc'[t] \in {"fresh", "read"} \/ call'[t].method = "GetNamespace" => declared'
    BY <1>2, <2>1 DEF RunStep, Answered, PromoteInv
  <2> QED BY <1>2, <2>2, <2>3 DEF RunStep, Moved, PromoteInv
<1>3. ASSUME NEW t \in Threads, ServeStep(t) PROVE PromoteInv'
  BY <1>3 DEF ServeStep, Others, PromoteInv, memory
<1>4. ASSUME NEW t \in Threads, LandStep(t) PROVE PromoteInv'
  BY <1>4 DEF LandStep, Others, SameCall, PromoteInv, history
<1>5. ASSUME NEW t \in Threads, LoseStep(t) PROVE PromoteInv'
  BY <1>5 DEF LoseStep, Others, SameCall, PromoteInv, memory
<1>6. CASE OutsideStep
  BY <1>6 DEF OutsideStep, PromoteInv, memory
<1>7. CASE Tick \/ UNCHANGED vars
  BY <1>7 DEF Tick, vars, memory, threads, history, PromoteInv
<1> QED BY <1>1, <1>2, <1>3, <1>4, <1>5, <1>6, <1>7 DEF Step, ThreadStep

---------------------------------------------------------------------------
(***************************************************************************)
(* A check over a stopped store.                                            *)
(***************************************************************************)

\* A call that has met nothing but a stopped store has had no answer, or one
\* that says so.
StopInv ==
    \A t \in Threads : call[t].stopped =>
        /\ world \in {"halted", "down"}
        /\ call[t].method # "ListNamespaces"
        /\ pc[t] \notin {"done", "fresh", "read"}
        /\ wire[t] = NoReply \/ wire[t].status = "locked"

LEMMA StepStopInv ==
    ASSUME TypeInv, StopInv, Step PROVE StopInv'
<1>1. ASSUME NEW t \in Threads, EnterStep(t) PROVE StopInv'
  <2>1. wire[t] = NoReply
    BY <1>1 DEF EnterStep, TypeInv, Wired
  <2> QED BY <1>1, <2>1 DEF EnterStep, Others, StopInv, store
<1>2. ASSUME NEW t \in Threads, RunStep(t) PROVE StopInv'
  BY <1>2 DEF RunStep, Moved, Answered, StopInv, store
<1>3. ASSUME NEW t \in Threads, ServeStep(t) PROVE StopInv'
  BY <1>3 DEF ServeStep, Others, StopInv
<1>4. ASSUME NEW t \in Threads, LandStep(t) PROVE StopInv'
  BY <1>4 DEF LandStep, Others, SameCall, StopInv, store
<1>5. ASSUME NEW t \in Threads, LoseStep(t) PROVE StopInv'
  BY <1>5 DEF LoseStep, Others, SameCall, StopInv, store
<1>6. CASE OutsideStep
  BY <1>6 DEF OutsideStep, StopInv
<1>7. CASE Tick \/ UNCHANGED vars
  BY <1>7 DEF Tick, vars, store, threads, StopInv
<1> QED BY <1>1, <1>2, <1>3, <1>4, <1>5, <1>6, <1>7 DEF Step, ThreadStep

---------------------------------------------------------------------------
(***************************************************************************)
(* The age of what the cache holds.                                         *)
(***************************************************************************)

\* A value was the store's when the attempt that brings it went out or later,
\* so no longer than one answer's way before it reached the cache; and a
\* cache that is read is within its ttl.
WireAge(t) ==
    wire[t] # NoReply /\ wire[t].ns # NoNamespace =>
        \A k \in Keys : wire[t].ns[k] # Undeclared =>
            /\ pc[t] = "flight" => call[t].sent <= LastHeld(k, wire[t].ns[k])
            /\ pc[t] = "done"   => now <= LastHeld(k, wire[t].ns[k]) + Timeout

CacheAge ==
    ns # NoNamespace =>
        \A k \in Keys : ns[k] # Undeclared =>
            refreshed <= LastHeld(k, ns[k]) + Timeout

ReadAge(t) ==
    pc[t] = "read" /\ ns # NoNamespace
    => now <= refreshed + (IF TTL = 0 THEN 0 ELSE TTL - 1)

FreshInv == CacheAge /\ \A t \in Threads : WireAge(t) /\ ReadAge(t)

\* What is known under a key is a boolean.
LEMMA HeldBoolean ==
    ASSUME NEW n \in Held, n # NoNamespace, NEW k \in Keys, n[k] # Undeclared
    PROVE  n[k] \in BOOLEAN
BY DEF Held

LEMMA CacheAgeKept ==
    ASSUME TypeInv, TypeInv', Later, CacheAge, UNCHANGED <<ns, refreshed>>
    PROVE  CacheAge'
<1> SUFFICES ASSUME ns # NoNamespace, NEW k \in Keys, ns[k] # Undeclared
             PROVE  refreshed <= LastHeld(k, ns[k])' + Timeout
  BY DEF CacheAge, LastHeld
<1>1. ns[k] \in BOOLEAN
  BY HeldBoolean DEF TypeInv, ClientTypeOK
<1> DEFINE b == ns[k]
<1>2. LastHeld(k, b) \in Nat /\ LastHeld(k, b)' \in Nat /\ refreshed \in Nat /\ Timeout \in Nat
  BY <1>1, Numbers DEF LastHeld, TypeInv, ClientTypeOK
<1>3. LastHeld(k, b) <= LastHeld(k, b)' /\ refreshed <= LastHeld(k, b) + Timeout
  BY <1>1 DEF Later, CacheAge
<1> QED BY <1>2, <1>3 DEF LastHeld

LEMMA WireAgeKept ==
    ASSUME TypeInv, TypeInv', Later, NEW u \in Threads, WireAge(u),
           UNCHANGED <<pc[u], wire[u], call[u].sent>>,
           now' = now \/ pc[u] # "done"
    PROVE  WireAge(u)'
<1> SUFFICES ASSUME wire[u] # NoReply, wire[u].ns # NoNamespace,
                    NEW k \in Keys, wire[u].ns[k] # Undeclared
             PROVE  /\ pc[u] = "flight" => call[u].sent <= LastHeld(k, wire[u].ns[k])'
                    /\ pc[u] = "done"   => now' <= LastHeld(k, wire[u].ns[k])' + Timeout
  BY DEF WireAge
<1> DEFINE b == wire[u].ns[k]
<1>1. b \in BOOLEAN
  BY HeldBoolean DEF TypeInv, ClientTypeOK, Replies
<1>2. /\ LastHeld(k, b) \in Nat /\ LastHeld(k, b)' \in Nat
      /\ call[u].sent \in Nat /\ now \in Nat /\ Timeout \in Nat
  BY <1>1, Numbers DEF LastHeld, TypeInv, ClientTypeOK
<1>3. LastHeld(k, b) <= LastHeld(k, b)'
  BY <1>1 DEF Later
<1>4. /\ pc[u] = "flight" => call[u].sent <= LastHeld(k, b)
      /\ pc[u] = "done"   => now <= LastHeld(k, b) + Timeout
  BY DEF WireAge
<1>5. b' = b
  OBVIOUS
<1> HIDE DEF b
<1>6. /\ pc[u] = "flight" => call[u].sent <= LastHeld(k, b)'
      /\ pc[u] = "done"   => now' <= LastHeld(k, b)' + Timeout
  BY <1>2, <1>3, <1>4 DEF LastHeld
<1> QED BY <1>5, <1>6 DEF b, LastHeld

LEMMA ReadAgeKept ==
    ASSUME NEW u \in Threads, ReadAge(u), now' = now, now \in Nat, TTL \in Nat,
           \/ UNCHANGED <<ns, refreshed>>
           \/ ns' = NoNamespace
           \/ refreshed' = now,
           pc'[u] = pc[u]
    PROVE  ReadAge(u)'
BY DEF ReadAge

\* Steps that leave the cache and the clock alone.
LEMMA CacheStays ==
    ASSUME TypeInv, TypeInv', Later, FreshInv, UNCHANGED <<ns, refreshed, now>>
    PROVE  /\ CacheAge'
           /\ \A u \in Threads : pc'[u] = pc[u] => ReadAge(u)'
           /\ \A u \in Threads :
                 UNCHANGED <<pc[u], wire[u], call[u].sent>> => WireAge(u)'
BY CacheAgeKept, WireAgeKept, ReadAgeKept, Numbers DEF FreshInv

LEMMA RunFreshInv ==
    ASSUME TypeInv, TypeInv', Later, FreshInv, NEW t \in Threads, RunStep(t)
    PROVE  FreshInv'
<1>0. now' = now /\ now \in Nat /\ TTL \in Nat /\ refreshed \in Nat /\ Timeout \in Nat
  BY Numbers DEF RunStep
<1>1. CacheAge'
  <2>1. CASE UNCHANGED <<ns, refreshed>>
    BY <2>1, CacheAgeKept DEF FreshInv
  <2>2. CASE ns' = NoNamespace
    BY <2>2 DEF CacheAge
  <2>3. CASE pc[t] = "done" /\ ns' = wire[t].ns /\ refreshed' = now
    <3> SUFFICES ASSUME ns' # NoNamespace, NEW k \in Keys, ns'[k] # Undeclared
                 PROVE  refreshed' <= LastHeld(k, ns[k])' + Timeout
      BY DEF CacheAge
    <3>1. wire[t] # NoReply /\ ns' = wire[t].ns /\ refreshed' = now
      BY <2>3 DEF TypeInv, Wired
    <3>2. now <= LastHeld(k, ns'[k]) + Timeout
      BY <2>3, <3>1 DEF FreshInv, WireAge
    <3>3. UNCHANGED <<flags, held, now>>
      BY DEF RunStep, store, history
    <3> QED BY <3>1, <3>2, <3>3 DEF LastHeld
  <2> QED BY <2>1, <2>2, <2>3 DEF RunStep, Cached
<1>2. ReadAge(t)'
  BY <1>0 DEF RunStep, Cached, ReadAge
<1>3. WireAge(t)'
  BY DEF RunStep, Moved, WireAge
<1>4. ASSUME NEW u \in Threads, u # t PROVE WireAge(u)' /\ ReadAge(u)'
  <2>1. UNCHANGED <<pc[u], wire[u], call[u].sent>>
    BY <1>4 DEF RunStep, Moved
  <2>2. WireAge(u)'
    BY <1>0, <2>1, WireAgeKept DEF FreshInv
  <2>3. ReadAge(u)'
    BY <1>0, <2>1, ReadAgeKept DEF FreshInv, RunStep, Cached
  <2> QED BY <2>2, <2>3
<1> QED BY <1>1, <1>2, <1>3, <1>4 DEF FreshInv

LEMMA ServeFreshInv ==
    ASSUME TypeInv, TypeInv', Dated, Later, FreshInv, NEW t \in Threads, ServeStep(t)
    PROVE  FreshInv'
<1>0. UNCHANGED <<ns, refreshed, now, pc>>
  BY DEF ServeStep, memory
<1>1. WireAge(t)'
  <2> SUFFICES ASSUME wire'[t].ns # NoNamespace, NEW k \in Keys
               PROVE  call[t].sent <= LastHeld(k, wire[t].ns[k])'
    BY DEF WireAge, ServeStep, Waiting
  <2>1. call[t].sent <= now
    BY DEF Dated, ServeStep, Waiting
  <2>2. wire'[t].ns = flags'
    BY DEF ServeStep
  <2> QED BY <1>0, <2>1, <2>2 DEF LastHeld
<1>2. ASSUME NEW u \in Threads, u # t PROVE WireAge(u)'
  BY <1>0, <1>2, CacheStays DEF ServeStep, Others
<1> QED BY <1>0, <1>1, <1>2, CacheStays DEF FreshInv

LEMMA LandFreshInv ==
    ASSUME TypeInv, TypeInv', Dated, Later, FreshInv, NEW t \in Threads, LandStep(t)
    PROVE  FreshInv'
<1>0. UNCHANGED <<ns, refreshed, now, wire, flags, held>>
  BY DEF LandStep, store, history
<1>1. WireAge(t)'
  <2> SUFFICES ASSUME wire[t].ns # NoNamespace,
                      NEW k \in Keys, wire[t].ns[k] # Undeclared
               PROVE  now <= LastHeld(k, wire[t].ns[k]) + Timeout
    BY <1>0 DEF WireAge, LandStep, LastHeld
  <2> DEFINE b == wire[t].ns[k]
  <2>1. b \in BOOLEAN
    BY HeldBoolean DEF LandStep, TypeInv, ClientTypeOK, Replies
  <2>2. call[t].sent <= LastHeld(k, b)
    BY DEF LandStep, FreshInv, WireAge
  <2>3. now <= call[t].sent + Timeout
    BY DEF LandStep, Dated
  <2>4. /\ LastHeld(k, b) \in Nat /\ now \in Nat /\ call[t].sent \in Nat
        /\ Timeout \in Nat
    BY <2>1, Numbers
  <2> HIDE DEF b
  <2>5. now <= LastHeld(k, b) + Timeout
    BY <2>2, <2>3, <2>4 DEF LastHeld
  <2> QED BY <2>5 DEF b
<1>2. ASSUME NEW u \in Threads, u # t PROVE WireAge(u)' /\ ReadAge(u)'
  BY <1>0, <1>2, CacheStays DEF LandStep, Others
<1>3. ReadAge(t)'
  BY DEF LandStep, ReadAge
<1> QED BY <1>0, <1>1, <1>2, <1>3, CacheStays DEF FreshInv

LEMMA StepFreshInv ==
    ASSUME TypeInv, TypeInv', Dated, Later, FreshInv, Step PROVE FreshInv'
<1>1. ASSUME NEW t \in Threads, EnterStep(t) PROVE FreshInv'
  <2>0. wire'[t] = NoReply /\ UNCHANGED <<ns, refreshed, now>>
    BY <1>1 DEF EnterStep, TypeInv, Wired, memory
  <2>1. WireAge(t)' /\ ReadAge(t)'
    BY <1>1, <2>0 DEF EnterStep, WireAge, ReadAge
  <2>2. ASSUME NEW u \in Threads, u # t PROVE WireAge(u)' /\ ReadAge(u)'
    BY <1>1, <2>0, <2>2, CacheStays DEF EnterStep, Others
  <2> QED BY <2>0, <2>1, <2>2, CacheStays DEF FreshInv
<1>2. ASSUME NEW t \in Threads, LoseStep(t) PROVE FreshInv'
  <2>0. UNCHANGED <<ns, refreshed, now>>
    BY <1>2 DEF LoseStep, memory
  <2>1. WireAge(t)' /\ ReadAge(t)'
    BY <1>2 DEF LoseStep, WireAge, ReadAge
  <2>2. ASSUME NEW u \in Threads, u # t PROVE WireAge(u)' /\ ReadAge(u)'
    BY <1>2, <2>0, <2>2, CacheStays DEF LoseStep, Others
  <2> QED BY <2>0, <2>1, <2>2, CacheStays DEF FreshInv
<1>3. CASE OutsideStep \/ UNCHANGED vars
  BY <1>3, CacheStays DEF OutsideStep, vars, memory, threads, FreshInv
<1>4. CASE Tick
  <2>1. UNCHANGED <<ns, refreshed, pc, wire, call>>
        /\ \A u \in Threads : pc[u] \in {"idle", "flight"}
    BY <1>4 DEF Tick, memory, threads
  <2>2. ASSUME NEW u \in Threads PROVE WireAge(u)' /\ ReadAge(u)'
    BY <2>1, <2>2, WireAgeKept DEF FreshInv, ReadAge
  <2> QED BY <2>1, <2>2, CacheAgeKept DEF FreshInv
<1> QED BY <1>1, <1>2, <1>3, <1>4, RunFreshInv, ServeFreshInv, LandFreshInv
        DEF Step, ThreadStep

---------------------------------------------------------------------------
(***************************************************************************)
(* The theorems.                                                            *)
(***************************************************************************)

\* One invariant carries all four.
Inv == TypeInv /\ Dated /\ LockInv /\ PromoteInv /\ StopInv /\ FreshInv

LEMMA InvInit == Init => Inv
<1> SUFFICES ASSUME Init PROVE Inv
  OBVIOUS
<1>1. TypeInv
  BY TypeInvInit
<1>2. Dated /\ LockInv
  BY TimesAssumption DEF Init, Dated, LockInv, LastLocked
<1>3. PromoteInv /\ StopInv
  BY DEF Init, PromoteInv, StopInv, NoCall
<1>4. FreshInv
  BY DEF Init, FreshInv, CacheAge, WireAge, ReadAge
<1> QED BY <1>1, <1>2, <1>3, <1>4 DEF Inv

LEMMA InvNext == Inv /\ [Next]_vars => Inv'
<1> SUFFICES ASSUME Inv, [Next]_vars PROVE Inv'
  OBVIOUS
<1>1. TypeInv' /\ Step /\ Later /\ Dated'
  BY TypeInvNext, StepsOf, StepLater, StepDated DEF Inv
<1>2. LastLocked' \in Nat
  BY <1>1 DEF TypeInv, ClientTypeOK, LastLocked
<1> QED BY <1>1, <1>2, StepLockInv, StepPromoteInv, StepStopInv, StepFreshInv
        DEF Inv, Later

LEMMA InvHolds == Spec => []Inv
BY InvInit, InvNext, PTL DEF Spec

\* What a known answer is: the last section of a check over its cache.
LEMMA KnownAnswer ==
    ASSUME TypeInv, [Next]_vars, Knows
    PROVE  \E t \in Threads :
              /\ said'.by = t /\ pc[t] = "read"
              /\ said'.key \in Keys
              /\ ns # NoNamespace /\ ns[said'.key] # Undeclared
              /\ said'.on = ns[said'.key]
<1>1. PICK t \in Threads : Read(t) \/ Unknown(t)
  <2>1. said' # Silent /\ said' # said
    BY DEF Knows
  <2> QED BY <2>1 DEF Next, vars, New, Begin, Run, Settle, Serve, Outside, Tick, Flip, Wipe,
          Turn, AnswerFromLock, Send, PingFails, FirstContact, Verify, PublishFails,
          Published, Fresh, FetchFails, Fetched, SetReturns, ListReturns,
          ServeLocked, ServePing, ServeList, ServePublish, ServeGetNamespace, ServeSetFlag,
          Land, TryAgain, GiveUp, Quiet, Mute
<1>2. CASE Unknown(t)
  BY <1>2 DEF Unknown, Say, Knows
<1>3. CASE Read(t)
  <2>1. ns # NoNamespace /\ ns[call[t].key] # Undeclared
    BY <1>3 DEF Read, Say, Knows
  <2>2. Say(t, ns[call[t].key], TRUE) /\ pc[t] = "read"
    BY <1>3, <2>1 DEF Read
  <2>3. call[t].key \in Keys
    BY DEF TypeInv, ClientTypeOK, Calls
  <2> QED BY <2>1, <2>2, <2>3 DEF Say
<1> QED BY <1>1, <1>2, <1>3

\* A lock a client holds to was in place no longer ago than its deadline and
\* one answer's way: a lock let go is noticed (lockStanding, noteLocked).
THEOREM LockLetGoIsNoticed == Spec => []StandingLockIsRecent
<1>1. Inv => StandingLockIsRecent
  <2> SUFFICES ASSUME Inv, LockStands PROVE now <= LastLocked + Timeout + LockFor
    BY DEF StandingLockIsRecent
  <2> QED BY Numbers DEF Inv, LockInv, LockStands, LastLocked
<1> QED BY <1>1, InvHolds, PTL

\* No client answers as known before its own declarations reached the store
\* (verify, publish).
THEOREM KnownIsDeclared == Spec => PromotionDeclares
<1>1. Inv /\ [Next]_vars => [Knows => declared]_vars
  BY KnownAnswer DEF Inv, PromoteInv
<1> QED BY <1>1, InvHolds, PTL DEF Spec, PromotionDeclares

\* A check that met a stopped store from its first step to its last is never
\* answered as known, whatever other goroutines cached (Check, once).
THEOREM StoppedIsUnknown == Spec => UnansweredIsUnknown
<1>1. Inv /\ [Next]_vars => [Knows => ~call[said'.by].stopped]_vars
  BY KnownAnswer DEF Inv, StopInv
<1> QED BY <1>1, InvHolds, PTL DEF Spec, UnansweredIsUnknown

\* A value answered as known was the store's within the ttl and one answer's
\* way (Check, fetch), for any number of goroutines over one cache.
THEOREM KnownIsFresh == Spec => FlipLandsInTime
<1>1. Inv /\ [Next]_vars => [Knows => now <= LastHeld(said'.key, said'.on) + StaleFor]_vars
  <2> SUFFICES ASSUME Inv, [Next]_vars, Knows
               PROVE  now <= LastHeld(said'.key, said'.on) + StaleFor
    OBVIOUS
  <2>1. PICK t \in Threads :
              /\ pc[t] = "read" /\ said'.key \in Keys
              /\ ns # NoNamespace /\ ns[said'.key] # Undeclared
              /\ said'.on = ns[said'.key]
    BY KnownAnswer DEF Inv
  <2>2. now <= refreshed + (IF TTL = 0 THEN 0 ELSE TTL - 1)
    BY <2>1 DEF Inv, FreshInv, ReadAge
  <2>3. refreshed <= LastHeld(said'.key, said'.on) + Timeout
    BY <2>1 DEF Inv, FreshInv, CacheAge
  <2>4. said'.on \in BOOLEAN
    BY <2>1, HeldBoolean DEF Inv, TypeInv, ClientTypeOK
  <2>5. /\ LastHeld(said'.key, said'.on) \in Nat /\ now \in Nat /\ refreshed \in Nat
        /\ Timeout \in Nat /\ TTL \in Nat
    BY <2>1, <2>4, Numbers DEF Inv
  <2> QED BY <2>2, <2>3, <2>5 DEF StaleFor
<1> QED BY <1>1, InvHolds, PTL DEF Spec, FlipLandsInTime
=============================================================================
