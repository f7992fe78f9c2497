--------------------------- MODULE AuditChainLock ---------------------------
(***************************************************************************)
(* The critical section every writer of the audit hash chain goes through: *)
(* withChainLock (utils/auditChain.js) and the fence against zombie        *)
(* writers (utils/auditChainFence.js), in one server process.              *)
(*                                                                         *)
(* A call queues behind the previous caller's promise.  It gives up after  *)
(* AUDIT_CHAIN_LOCK_TIMEOUT_MS of waiting (the wait timer) and it is       *)
(* abandoned after the same time inside the section (the hold timer).  An  *)
(* abandoned fn cannot be cancelled: it goes on as a zombie, and the fence *)
(* keeps every later call out until the zombie has settled and the chain   *)
(* tail has been thrown away.                                              *)
(*                                                                         *)
(* Both timers have the same duration, so they fire in the order in which  *)
(* they were armed: that order is the variable armedBefore, and it stands  *)
(* for all that the model needs to know of time.                           *)
(***************************************************************************)
EXTENDS FiniteSets

CONSTANTS
    Calls,           \* identities of calls of withChainLock
    None,            \* no call
    RedisConfigured  \* whether REDIS_URL is set: the distributed lock may be up

ASSUME LockAssumption == None \notin Calls /\ RedisConfigured \in BOOLEAN

VARIABLES
    pc,                \* where each call is
    prev,              \* the call whose release the call still waits for
    chainLock,         \* the last caller, when it has not released yet
    armedBefore,       \* <<u, c>>: the timer of u was armed before that of c
    frozen,            \* auditChainFence: no call may enter
    stale,             \* calls whose captured chainGeneration is out of date
    chainTailLoaded,   \* the in-process chain tail is trusted
    sharedTailUntrusted \* the tail kept in Redis is not trusted

vars == <<pc, prev, chainLock, armedBefore, frozen, stale, chainTailLoaded,
          sharedTailUntrusted>>

queueVars == <<prev, chainLock>>
tailVars  == <<chainTailLoaded, sharedTailUntrusted>>

\* waiting: behind prev.  acquiring: awaiting the distributed lock.
\* working: fn runs, the hold timer is armed.  releasing: fn returned, the
\* distributed lock is being given back.  zombie: fn still runs, its caller
\* has been told of the timeout.  settling: the zombie's fn has returned and
\* the resynchronisation is awaited.
States == {"idle", "waiting", "acquiring", "working", "releasing",
           "zombie", "settling"}

\* Calls past the entrance of the critical section whose effects on the chain
\* may still be under way.
Inside == {c \in Calls : pc[c] \in
              {"acquiring", "working", "releasing", "zombie", "settling"}}

-----------------------------------------------------------------------------
(* Timers: one per waiting or working call *)

Armed == {c \in Calls : pc[c] \in {"waiting", "working"}}

Due(c) == \A u \in Calls : <<u, c>> \notin armedBefore

Disarmed(c) == {p \in armedBefore : p[1] # c /\ p[2] # c}

Rearmed(c) == Disarmed(c) \cup {<<u, c>> : u \in Armed \ {c}}

\* isRedisEnabled() at the moment it is asked: the connection comes and goes.
RedisReady == IF RedisConfigured THEN BOOLEAN ELSE {FALSE}

\* fence.check()
FenceCheckSkipped == TRUE
FenceCheck == ~frozen

\* release(): whoever waited for c no longer does.
Release(c) ==
    /\ prev' = [u \in Calls |-> IF c \in {u, prev[u]} THEN None ELSE prev[u]]
    /\ chainLock' = IF chainLock = c THEN None ELSE chainLock

\* chainGeneration += 1 puts the generation of every fn that runs out of date.
InvalidateTailOnly ==
    /\ chainTailLoaded' = FALSE
    /\ UNCHANGED stale

InvalidateTail ==
    /\ chainTailLoaded' = FALSE
    /\ stale' = {c \in Calls : pc[c] \in {"working", "zombie"}}

\* resyncChainTail(): the next reader goes to the database.
ResyncForgotten == UNCHANGED chainTailLoaded
ResyncChainTail == chainTailLoaded' = FALSE

-----------------------------------------------------------------------------
Init ==
    /\ pc = [c \in Calls |-> "idle"]
    /\ prev = [c \in Calls |-> None]
    /\ chainLock = None
    /\ armedBefore = {}
    /\ frozen = FALSE
    /\ stale = {}
    /\ chainTailLoaded = FALSE
    /\ sharedTailUntrusted = FALSE

\* withChainLock(fn) is called: take a place in the queue, arm the wait timer.
Call(c) ==
    /\ pc[c] = "idle"
    /\ pc' = [pc EXCEPT ![c] = "waiting"]
    /\ prev' = [prev EXCEPT ![c] = chainLock]
    /\ chainLock' = c
    /\ armedBefore' = Rearmed(c)
    /\ UNCHANGED <<frozen, stale, tailVars>>

\* The wait timer fires: the tail is invalid, the generation moves on, the
\* fence closes, and fence.check() then turns the call itself away.
WaitTimeout(c) ==
    /\ pc[c] = "waiting"
    /\ prev[c] # None
    /\ Due(c)
    /\ InvalidateTail
    /\ frozen' = TRUE
    /\ pc' = [pc EXCEPT ![c] = "idle"]
    /\ armedBefore' = Disarmed(c)
    /\ Release(c)
    /\ UNCHANGED sharedTailUntrusted

\* The predecessor has released and the fence is closed: the call fails.
TurnedAway(c) ==
    /\ pc[c] = "waiting"
    /\ prev[c] = None
    /\ ~FenceCheck
    /\ pc' = [pc EXCEPT ![c] = "idle"]
    /\ armedBefore' = Disarmed(c)
    /\ Release(c)
    /\ UNCHANGED <<frozen, stale, tailVars>>

\* The predecessor has released and the fence is open: without Redis fn starts
\* at once (hold timer armed, generation captured), else the distributed lock
\* is asked for first.
Enter(c) ==
    /\ pc[c] = "waiting"
    /\ prev[c] = None
    /\ FenceCheck
    /\ \E ready \in RedisReady :
          IF ready
          THEN /\ pc' = [pc EXCEPT ![c] = "acquiring"]
               /\ armedBefore' = Disarmed(c)
          ELSE /\ pc' = [pc EXCEPT ![c] = "working"]
               /\ armedBefore' = Rearmed(c)
    /\ stale' = stale \ {c}
    /\ UNCHANGED <<queueVars, frozen, tailVars>>

\* acquireLockBlocking returns the lock: fn starts.  The fence is not asked
\* again, although it may have closed while the lock was awaited.
AcquireLock(c) ==
    /\ pc[c] = "acquiring"
    /\ pc' = [pc EXCEPT ![c] = "working"]
    /\ armedBefore' = Rearmed(c)
    /\ stale' = stale \ {c}
    /\ UNCHANGED <<queueVars, frozen, tailVars>>

\* acquireLockBlocking returns null: never write without the lock.
AcquireTimeout(c) ==
    /\ pc[c] = "acquiring"
    /\ pc' = [pc EXCEPT ![c] = "idle"]
    /\ ResyncChainTail
    /\ Release(c)
    /\ UNCHANGED <<armedBefore, frozen, stale, sharedTailUntrusted>>

\* getChainTail inside fn, of a live call or of a zombie: without Redis the
\* in-process tail is (re)loaded; with Redis the shared tail is written back
\* and trusted exactly when the write landed.
LoadTail(c) ==
    /\ pc[c] \in {"working", "zombie"}
    /\ \E ready \in RedisReady :
          IF ready
          THEN /\ sharedTailUntrusted' \in BOOLEAN
               /\ UNCHANGED chainTailLoaded
          ELSE /\ chainTailLoaded' = TRUE
               /\ UNCHANGED sharedTailUntrusted
    /\ UNCHANGED <<pc, queueVars, armedBefore, frozen, stale>>

\* fn settles before the hold timer: the distributed lock is given back first
\* (at once when none was taken), then the in-process queue moves on.
LeaveFn(c) ==
    /\ pc[c] = "working"
    /\ armedBefore' = Disarmed(c)
    /\ stale' = stale \ {c}
    /\ IF RedisConfigured
       THEN /\ pc' = [pc EXCEPT ![c] = "releasing"]
            /\ UNCHANGED queueVars
       ELSE /\ pc' = [pc EXCEPT ![c] = "idle"]
            /\ Release(c)
    /\ UNCHANGED frozen

\* The last thing fn does may be resyncChainTail: a flush stored in part.
Return(c) ==
    /\ LeaveFn(c)
    /\ ResyncChainTail \/ UNCHANGED chainTailLoaded
    /\ UNCHANGED sharedTailUntrusted

Leave(c) ==
    /\ pc[c] = "releasing"
    /\ pc' = [pc EXCEPT ![c] = "idle"]
    /\ Release(c)
    /\ UNCHANGED <<armedBefore, frozen, stale, tailVars>>

\* Without a hold timer, as the code once was: a hung fn holds the queue.
HoldTimeoutMissing(c) == FALSE

\* The hold timer fires: the tail is invalid, the generation moves on, the
\* fence closes, the caller is told and the queue moves on; fn does not stop.
HoldTimeout(c) ==
    /\ pc[c] = "working"
    /\ Due(c)
    /\ InvalidateTail
    /\ frozen' = TRUE
    /\ pc' = [pc EXCEPT ![c] = "zombie"]
    /\ armedBefore' = Disarmed(c)
    /\ Release(c)
    /\ UNCHANGED sharedTailUntrusted

\* The zombie's fn settles: the tail is thrown away before the fence opens.
\* Without Redis nothing is awaited in between.
ZombieSettles(c) ==
    /\ pc[c] = "zombie"
    /\ ResyncChainTail
    /\ stale' = stale \ {c}
    /\ \E ready \in RedisReady :
          IF ready
          THEN /\ pc' = [pc EXCEPT ![c] = "settling"]
               /\ sharedTailUntrusted' = TRUE
               /\ UNCHANGED frozen
          ELSE /\ pc' = [pc EXCEPT ![c] = "idle"]
               /\ frozen' = FALSE
               /\ UNCHANGED sharedTailUntrusted
    /\ UNCHANGED <<queueVars, armedBefore>>

\* The awaited deletion of the shared tail has returned: the fence opens.
Unfreeze(c) ==
    /\ pc[c] = "settling"
    /\ pc' = [pc EXCEPT ![c] = "idle"]
    /\ frozen' = FALSE
    /\ UNCHANGED <<queueVars, armedBefore, stale, tailVars>>

\* What the process does of its own accord, once a call has been made.
Progress(c) ==
    \/ WaitTimeout(c) \/ TurnedAway(c) \/ Enter(c)
    \/ AcquireLock(c) \/ AcquireTimeout(c)
    \/ Leave(c) \/ HoldTimeout(c) \/ Unfreeze(c)

Next == \E c \in Calls :
    \/ Call(c) \/ LoadTail(c) \/ Return(c) \/ ZombieSettles(c)
    \/ Progress(c)

Spec == Init /\ [][Next]_vars

\* Timers fire, released callers go on, Redis requests end.  Nothing is
\* promised of fn: it may hang for ever.
FairSpec == Spec /\ \A c \in Calls : WF_vars(Progress(c))

\* Every fn ends as well, a zombie's included.
FairFnSpec ==
    FairSpec /\ \A c \in Calls : WF_vars(Return(c)) /\ WF_vars(ZombieSettles(c))

-----------------------------------------------------------------------------
(* Properties *)

\* Calls that have not released: a later call may have to wait for them.
Unreleased == {c \in Calls :
                  pc[c] \in {"waiting", "acquiring", "working", "releasing"}}

\* The types, and: only a waiting call waits for somebody, and only calls that
\* have not released are waited for (the finally of withChainLock).
TypeOK ==
    /\ pc \in [Calls -> States]
    /\ prev \in [Calls -> Calls \cup {None}]
    /\ chainLock \in Unreleased \cup {None}
    /\ armedBefore \in SUBSET (Calls \X Calls)
    /\ frozen \in BOOLEAN
    /\ stale \in SUBSET Calls
    /\ chainTailLoaded \in BOOLEAN
    /\ sharedTailUntrusted \in BOOLEAN
    /\ \A c \in Calls : prev[c] # None => pc[c] = "waiting" /\ prev[c] \in Unreleased

\* At most one fn is inside at a time, zombies and settling calls included:
\* two writers never read the same chain tail.  The queue alone does not give
\* this (a call that gave up waiting releases its successors while the writer
\* before it still runs): the fence has to.
OneInside == \A c, d \in Inside : c = d

\* While a zombie is about, the fence is closed and its generation is out of
\* date, so that advanceChainTail ignores it.
ZombieFenced == \A c \in Calls :
    /\ pc[c] \in {"zombie", "settling"} => frozen
    /\ pc[c] = "zombie" => c \in stale

\* The fence opens only when the tail has been thrown away and nobody is left
\* inside: whatever the zombie loaded or wrote, the next writer reads the tail
\* from the database again.
FenceOpensOnFreshTail ==
    [][frozen /\ ~frozen' => ~chainTailLoaded' /\ Inside' = {}]_vars

\* A caller always gets an answer, even when fn hangs for ever: no lock of the
\* audit chain is held so long that the writers behind it wait for good.
EveryCallIsAnswered == \A c \in Calls :
    pc[c] \in {"waiting", "acquiring", "working", "releasing"}
        ~> pc[c] \in {"idle", "zombie", "settling"}

\* auditChainFence.js:11-13: the freeze lasts until the zombie has settled.
FreezeIsLifted == frozen ~> ~frozen
=============================================================================
