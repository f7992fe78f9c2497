-------------------------- MODULE AuditChainProofs --------------------------
(***************************************************************************)
(* Proofs about AuditChainLock and AuditChain, for any calls, records,     *)
(* batch limit and faults.                                                 *)
(*                                                                         *)
(* The lock.  The queue alone does not exclude two writers, so mutual      *)
(* exclusion needs two facts about it.  The waiting calls form one line,   *)
(* in the order in which their timers were armed (Line, LastInLine):       *)
(* timers all have the same duration, so only the first in line can ever   *)
(* give up.  And while the fence is open and some call is inside, nobody   *)
(* in the line has an open way in (WayIsBarred).  Nothing here depends on  *)
(* whether there is Redis.                                                 *)
(*                                                                         *)
(* The chain.  Its steps are steps of the lock, so that one fn is inside.  *)
(* While it is undisturbed there is one sequence T of records (Whole): the *)
(* hashes stored, and those a create is about to store, are exactly the    *)
(* prefixes of T, a trusted tail is T, and whoever has chained a batch has *)
(* chained it to T.  From it follow that the chain has no fork and no gap, *)
(* and that its longest hash only ever grows.                              *)
(***************************************************************************)
EXTENDS AuditChain, FiniteSetTheorems, WellFoundedInduction, TLAPS

Waiting == {c \in Calls : pc[c] = "waiting"}

\* Whoever is armed before a waiting call u is the one u waits for, or was armed
\* before that one; nobody is, when u does not wait for a waiting call.
Line == \A u, w \in Waiting :
    <<w, u>> \in armedBefore <=>
        /\ prev[u] \in Waiting
        /\ w = prev[u] \/ <<w, prev[u]>> \in armedBefore

Total == \A u, w \in Waiting :
    u # w => <<u, w>> \in armedBefore \/ <<w, u>> \in armedBefore

\* A new call queues behind the last in line.
LastInLine == \A w \in Waiting :
    chainLock \in Waiting /\ (w = chainLock \/ <<w, chainLock>> \in armedBefore)

\* Inside, and not released.
Holding == {c \in Calls : pc[c] \in {"acquiring", "working", "releasing"}}

WayIsBarred == ~frozen => \A a \in Holding :
    chainLock # None /\ \A w \in Waiting : prev[w] # None

LockInv ==
    /\ TypeOK
    /\ Line
    /\ Total
    /\ LastInLine
    /\ WayIsBarred
    /\ ZombieFenced
    /\ OneInside

-----------------------------------------------------------------------------
\* The invariant holds when the module has been loaded: no call, no timer.
LEMMA InitLockInv == Init => LockInv
BY LockAssumption DEF Init, LockInv, TypeOK, Line, Total, LastInLine, WayIsBarred,
    ZombieFenced, OneInside, Waiting, Holding, Inside, States, Unreleased

\* The line after its first call c has left it, whether c has released (nobody
\* waits for it any more) or is inside (its successor still waits for it).
LEMMA FirstLeaves ==
    ASSUME LockInv,
           NEW c \in Waiting,
           \A w \in Waiting : <<w, c>> \notin armedBefore,
           Waiting' = Waiting \ {c},
           \A p : p[1] # c /\ p[2] # c => (p \in armedBefore' <=> p \in armedBefore),
           \A u \in Waiting \ {c} :
               prev'[u] = prev[u] \/ (prev[u] = c /\ prev'[u] \notin Waiting'),
           chainLock' = chainLock \/ chainLock = c
    PROVE  Line' /\ Total' /\ LastInLine'
<1>1. Total'
  BY DEF LockInv, Total
<1>2. LastInLine'
  BY DEF LockInv, LastInLine
<1>3. Line'
  <2> SUFFICES ASSUME NEW u \in Waiting', NEW w \in Waiting'
               PROVE  <<w, u>> \in armedBefore' <=>
                          /\ prev'[u] \in Waiting'
                          /\ w = prev'[u] \/ <<w, prev'[u]>> \in armedBefore'
    BY DEF Line
  <2>1. u \in Waiting /\ w \in Waiting /\ u # c /\ w # c
    OBVIOUS
  <2>2. <<w, u>> \in armedBefore' <=> <<w, u>> \in armedBefore
    BY <2>1
  <2>3. <<w, u>> \in armedBefore <=>
            prev[u] \in Waiting /\ (w = prev[u] \/ <<w, prev[u]>> \in armedBefore)
    BY <2>1 DEF LockInv, Line
  <2>4. CASE prev[u] = c
    <3>1. <<w, u>> \notin armedBefore
      BY <2>1, <2>3, <2>4
    <3>2. prev'[u] \notin Waiting'
      BY <2>1, <2>4
    <3> QED
      BY <2>2, <3>1, <3>2
  <2>5. CASE prev[u] # c
    <3>1. prev'[u] = prev[u]
      BY <2>1, <2>5
    <3>2. <<w, prev[u]>> \in armedBefore' <=> <<w, prev[u]>> \in armedBefore
      BY <2>1, <2>5
    <3> QED
      BY <2>2, <2>3, <2>5, <3>1, <3>2
  <2> QED
    BY <2>4, <2>5
<1> QED
  BY <1>1, <1>2, <1>3

\* The line after a step of a call that does not stand in it.
LEMMA LineStays ==
    ASSUME LockInv,
           NEW c \in Calls \ Waiting,
           Waiting' = Waiting,
           \A p : p[1] # c /\ p[2] # c => (p \in armedBefore' <=> p \in armedBefore),
           \A u \in Waiting : prev'[u] = prev[u] \/ (prev[u] = c /\ prev'[u] = None),
           chainLock' = chainLock \/ chainLock = c
    PROVE  Line' /\ Total' /\ LastInLine'
<1>1. Total'
  BY DEF LockInv, Total
<1>2. LastInLine'
  BY DEF LockInv, LastInLine
<1>3. None \notin Waiting
  BY LockAssumption DEF Waiting
<1>4. ASSUME NEW u \in Waiting, NEW w \in Waiting
      PROVE  <<w, u>> \in armedBefore' <=>
                 /\ prev'[u] \in Waiting
                 /\ w = prev'[u] \/ <<w, prev'[u]>> \in armedBefore'
  <2>1. <<w, u>> \in armedBefore' <=> <<w, u>> \in armedBefore
    OBVIOUS
  <2>2. <<w, u>> \in armedBefore <=>
            prev[u] \in Waiting /\ (w = prev[u] \/ <<w, prev[u]>> \in armedBefore)
    BY DEF LockInv, Line
  <2>3. CASE prev[u] \in Waiting
    <3>1. prev'[u] = prev[u]
      BY <2>3
    <3>2. <<w, prev[u]>> \in armedBefore' <=> <<w, prev[u]>> \in armedBefore
      BY <2>3
    <3> QED
      BY <2>1, <2>2, <3>1, <3>2
  <2>4. CASE prev[u] \notin Waiting
    BY <2>1, <2>2, <2>4, <1>3
  <2> QED
    BY <2>3, <2>4
<1> QED
  BY <1>1, <1>2, <1>4 DEF Line

\* The first in line is the only waiting call that waits for no waiting call.
LEMMA OneFirst ==
    ASSUME LockInv, NEW c \in Waiting, prev[c] \notin Waiting
    PROVE  /\ \A w \in Waiting : <<w, c>> \notin armedBefore
           /\ \A w \in Waiting \ {c} : prev[w] \in Waiting
<1>1. \A w \in Waiting : <<w, c>> \notin armedBefore
  BY DEF LockInv, Line
<1>2. \A w \in Waiting \ {c} : <<c, w>> \in armedBefore
  BY <1>1 DEF LockInv, Total
<1> QED
  BY <1>1, <1>2 DEF LockInv, Line

\* Arming or clearing the timer of c changes the order of no two other timers.
LEMMA OthersKeepOrder ==
    ASSUME NEW c \in Calls,
           armedBefore' \in {armedBefore, Disarmed(c), Rearmed(c)}
    PROVE  \A p : p[1] # c /\ p[2] # c => (p \in armedBefore' <=> p \in armedBefore)
BY DEF Disarmed, Rearmed

\* Arming and clearing a timer keep the order of timers one between calls.
LEMMA TimerTypes ==
    ASSUME TypeOK, NEW c \in Calls,
           armedBefore' \in {armedBefore, Disarmed(c), Rearmed(c)}
    PROVE  armedBefore' \in SUBSET (Calls \X Calls)
BY DEF TypeOK, Disarmed, Rearmed, Armed

\* A release by c leaves nobody waiting for it.
LEMMA ReleaseTypes ==
    ASSUME LockInv, NEW c \in Unreleased, Release(c),
           pc' \in [Calls -> States],
           \A u \in Calls \ {c} : pc'[u] = pc[u],
           c \notin Unreleased'
    PROVE  /\ prev' \in [Calls -> Calls \cup {None}]
           /\ chainLock' \in Unreleased' \cup {None}
           /\ \A u \in Calls : prev'[u] # None =>
                 pc'[u] = "waiting" /\ prev'[u] \in Unreleased'
BY LockAssumption DEF LockInv, TypeOK, Release, Unreleased

\* A new call takes its place behind everybody who has not released.
LEMMA CallStep == ASSUME LockInv, NEW c \in Calls, Call(c) PROVE LockInv'
<1> USE DEF Call
<1>1. Waiting' = Waiting \cup {c} /\ c \notin Waiting /\ Holding' = Holding
        /\ Inside' = Inside /\ Unreleased' = Unreleased \cup {c}
  BY DEF LockInv, TypeOK, Waiting, Holding, Inside, Unreleased
<1>2. TypeOK'
  <2>1. armedBefore' \in SUBSET (Calls \X Calls)
    BY TimerTypes DEF LockInv
  <2> QED
    BY <1>1, <2>1 DEF LockInv, TypeOK, States, tailVars, Unreleased
<1>3. ZombieFenced' /\ OneInside'
  BY <1>1 DEF LockInv, TypeOK, ZombieFenced, OneInside
<1>4. WayIsBarred'
  BY <1>1, LockAssumption DEF LockInv, TypeOK, WayIsBarred, Waiting
<1>5. \A p : p[1] # c /\ p[2] # c => (p \in armedBefore' <=> p \in armedBefore)
  BY OthersKeepOrder
<1>6. /\ \A w \in Waiting : <<w, c>> \in armedBefore' /\ <<c, w>> \notin armedBefore'
      /\ <<c, c>> \notin armedBefore'
  BY <1>1 DEF Rearmed, Disarmed, Armed, Waiting
<1>7. /\ \A u \in Waiting : prev'[u] = prev[u] /\ prev'[u] # c
      /\ prev'[c] = chainLock /\ chainLock # c
  BY LockAssumption DEF LockInv, TypeOK, Waiting, Unreleased
<1>8. Total' /\ LastInLine'
  BY <1>1, <1>5, <1>6 DEF LockInv, Total, LastInLine
<1>9. Line'
  <2> SUFFICES ASSUME NEW u \in Waiting', NEW w \in Waiting'
               PROVE  <<w, u>> \in armedBefore' <=>
                          /\ prev'[u] \in Waiting'
                          /\ w = prev'[u] \/ <<w, prev'[u]>> \in armedBefore'
    BY DEF Line
  <2>1. CASE u = c
    <3>1. prev'[u] \in Waiting' <=> chainLock \in Waiting
      BY <1>1, <1>7, <2>1
    <3>2. CASE w = c
      BY <1>1, <1>6, <1>7, <2>1, <3>1, <3>2
    <3>3. CASE w # c
      <4>1. w \in Waiting /\ <<w, u>> \in armedBefore'
        BY <1>1, <1>6, <2>1, <3>3
      <4>2. chainLock \in Waiting /\ (w = chainLock \/ <<w, chainLock>> \in armedBefore)
        BY <4>1 DEF LockInv, LastInLine
      <4>3. w # chainLock => <<w, chainLock>> \in armedBefore'
        BY <1>1, <1>5, <3>3, <4>2
      <4> QED
        BY <1>7, <2>1, <3>1, <4>1, <4>2, <4>3
    <3> QED
      BY <3>2, <3>3
  <2>2. CASE u # c
    <3>1. u \in Waiting /\ prev'[u] = prev[u] /\ prev[u] # c
      BY <1>1, <1>7, <2>2
    <3>2. CASE w = c
      <4>1. <<c, u>> \notin armedBefore'
        BY <1>6, <3>1
      <4>2. prev[u] \in Waiting' => <<c, prev[u]>> \notin armedBefore'
        BY <1>1, <1>6, <3>1
      <4> QED
        BY <3>1, <3>2, <4>1, <4>2
    <3>3. CASE w # c
      <4>1. w \in Waiting
        BY <1>1, <3>3
      <4>2. <<w, u>> \in armedBefore' <=> <<w, u>> \in armedBefore
        BY <1>5, <2>2, <3>3
      <4>3. <<w, prev[u]>> \in armedBefore' <=> <<w, prev[u]>> \in armedBefore
        BY <1>5, <3>1, <3>3
      <4> QED
        BY <1>1, <3>1, <4>1, <4>2, <4>3 DEF LockInv, Line
    <3> QED
      BY <3>2, <3>3
  <2> QED
    BY <2>1, <2>2
<1> QED
  BY <1>2, <1>3, <1>4, <1>8, <1>9 DEF LockInv

\* A waiting call gives up, or is turned away.
LEMMA GiveUpStep ==
    ASSUME LockInv, NEW c \in Calls, WaitTimeout(c) \/ TurnedAway(c)
    PROVE  LockInv'
<1>1. /\ pc[c] = "waiting" /\ pc' = [pc EXCEPT ![c] = "idle"]
      /\ armedBefore' = Disarmed(c) /\ Release(c) /\ frozen'
  BY DEF WaitTimeout, TurnedAway, FenceCheck
<1>2. /\ Waiting' = Waiting \ {c} /\ c \in Waiting /\ Holding' = Holding
      /\ Inside' = Inside /\ c \in Unreleased /\ Unreleased' = Unreleased \ {c}
  BY <1>1 DEF LockInv, TypeOK, Waiting, Holding, Inside, Unreleased
<1>3. \A w \in Waiting : <<w, c>> \notin armedBefore
  <2>1. CASE WaitTimeout(c)
    BY <2>1 DEF WaitTimeout, Due, Waiting
  <2>2. CASE TurnedAway(c)
    BY <1>2, <2>2, LockAssumption, OneFirst DEF TurnedAway, Waiting
  <2> QED
    BY <2>1, <2>2
<1>4. TypeOK'
  <2>1. armedBefore' \in SUBSET (Calls \X Calls)
    BY <1>1, TimerTypes DEF LockInv
  <2>2. pc' \in [Calls -> States]
    BY <1>1 DEF LockInv, TypeOK, States
  <2>3. /\ prev' \in [Calls -> Calls \cup {None}]
        /\ chainLock' \in Unreleased' \cup {None}
        /\ \A u \in Calls : prev'[u] # None =>
              pc'[u] = "waiting" /\ prev'[u] \in Unreleased'
    BY <1>1, <1>2, <2>2, ReleaseTypes DEF LockInv, TypeOK
  <2>4. /\ frozen' \in BOOLEAN /\ stale' \in SUBSET Calls
        /\ chainTailLoaded' \in BOOLEAN /\ sharedTailUntrusted' \in BOOLEAN
    BY DEF LockInv, TypeOK, WaitTimeout, TurnedAway, InvalidateTail, tailVars
  <2> QED
    BY <2>1, <2>2, <2>3, <2>4 DEF TypeOK
<1>5. \A p : p[1] # c /\ p[2] # c => (p \in armedBefore' <=> p \in armedBefore)
  BY <1>1, OthersKeepOrder
<1>6. /\ \A u \in Waiting \ {c} :
            prev'[u] = prev[u] \/ (prev[u] = c /\ prev'[u] \notin Waiting')
      /\ chainLock' = chainLock \/ chainLock = c
  BY <1>1, <1>2, LockAssumption DEF Release, Waiting
<1>7. Line' /\ Total' /\ LastInLine'
  BY <1>2, <1>3, <1>5, <1>6, FirstLeaves
<1>8. WayIsBarred' /\ OneInside'
  BY <1>1, <1>2 DEF LockInv, WayIsBarred, OneInside
<1>9. ZombieFenced'
  BY <1>1 DEF LockInv, TypeOK, ZombieFenced, WaitTimeout, TurnedAway, InvalidateTail
<1> QED
  BY <1>4, <1>7, <1>8, <1>9 DEF LockInv

\* The first in line enters: nobody else is inside, and its successor waits for it.
LEMMA EnterStep == ASSUME LockInv, NEW c \in Calls, Enter(c) PROVE LockInv'
<1>1. /\ pc[c] = "waiting" /\ prev[c] = None /\ ~frozen
      /\ armedBefore' \in {Disarmed(c), Rearmed(c)}
      /\ \E s \in {"acquiring", "working"} : pc' = [pc EXCEPT ![c] = s]
      /\ UNCHANGED <<prev, chainLock, frozen, chainTailLoaded, sharedTailUntrusted>>
      /\ stale' = stale \ {c}
  BY DEF Enter, FenceCheck, queueVars, tailVars
<1>2. /\ Waiting' = Waiting \ {c} /\ c \in Waiting /\ Holding' = Holding \cup {c}
      /\ Inside' = Inside \cup {c} /\ Unreleased' = Unreleased
  BY <1>1 DEF LockInv, TypeOK, Waiting, Holding, Inside, Unreleased
<1>3. prev[c] \notin Waiting
  BY <1>1, LockAssumption DEF Waiting
<1>4. Inside = {}
  <2>1. Holding = {}
    BY <1>1, <1>2 DEF LockInv, WayIsBarred
  <2> QED
    BY <1>1, <2>1 DEF LockInv, ZombieFenced, Inside, Holding
<1>5. TypeOK'
  <2>1. armedBefore' \in SUBSET (Calls \X Calls)
    BY <1>1, TimerTypes DEF LockInv
  <2> QED
    BY <1>1, <1>2, <2>1 DEF LockInv, TypeOK, States
<1>6. \A p : p[1] # c /\ p[2] # c => (p \in armedBefore' <=> p \in armedBefore)
  BY <1>1, OthersKeepOrder
<1>7. Line' /\ Total' /\ LastInLine'
  BY <1>1, <1>2, <1>3, <1>6, OneFirst, FirstLeaves
<1>8. WayIsBarred'
  <2>1. \A w \in Waiting' : prev'[w] # None
    BY <1>1, <1>2, <1>3, OneFirst, LockAssumption DEF Waiting
  <2>2. chainLock' # None
    BY <1>1, <1>2, LockAssumption DEF LockInv, LastInLine, Waiting
  <2> QED
    BY <2>1, <2>2 DEF WayIsBarred
<1>9. OneInside'
  BY <1>2, <1>4 DEF OneInside
<1>10. ZombieFenced'
  BY <1>1 DEF LockInv, TypeOK, ZombieFenced
<1> QED
  BY <1>5, <1>7, <1>8, <1>9, <1>10 DEF LockInv

\* A call that is inside releases: it is answered, or becomes a zombie.
LEMMA ReleaseStep ==
    ASSUME LockInv, NEW c \in Holding, NEW s \in {"idle", "zombie"},
           pc' = [pc EXCEPT ![c] = s], Release(c),
           armedBefore' \in {armedBefore, Disarmed(c)},
           stale' \in SUBSET Calls, frozen' \in BOOLEAN,
           chainTailLoaded' \in BOOLEAN, sharedTailUntrusted' \in BOOLEAN,
           s = "zombie" => frozen' /\ c \in stale'
    PROVE  LockInv'
<1>1. /\ Waiting' = Waiting /\ Holding' = Holding \ {c} /\ Inside' \subseteq {c}
      /\ c \in Calls \ Waiting /\ c \in Unreleased /\ Unreleased' = Unreleased \ {c}
  BY DEF LockInv, TypeOK, OneInside, Waiting, Holding, Inside, Unreleased
<1>2. TypeOK'
  <2>1. armedBefore' \in SUBSET (Calls \X Calls)
    BY <1>1, TimerTypes DEF LockInv
  <2>2. pc' \in [Calls -> States]
    BY DEF LockInv, TypeOK, States
  <2>3. /\ prev' \in [Calls -> Calls \cup {None}]
        /\ chainLock' \in Unreleased' \cup {None}
        /\ \A u \in Calls : prev'[u] # None =>
              pc'[u] = "waiting" /\ prev'[u] \in Unreleased'
    BY <1>1, <2>2, ReleaseTypes DEF LockInv, TypeOK
  <2> QED
    BY <2>1, <2>2, <2>3 DEF TypeOK
<1>3. Line' /\ Total' /\ LastInLine'
  <2>1. \A p : p[1] # c /\ p[2] # c => (p \in armedBefore' <=> p \in armedBefore)
    BY <1>1, OthersKeepOrder
  <2>2. /\ \A u \in Waiting : prev'[u] = prev[u] \/ (prev[u] = c /\ prev'[u] = None)
        /\ chainLock' = chainLock \/ chainLock = c
    BY <1>1 DEF Release, Waiting
  <2> QED
    BY <1>1, <2>1, <2>2, LineStays
<1>4. Holding' = {}
  BY <1>1 DEF Holding, Inside
<1>5. WayIsBarred' /\ OneInside'
  BY <1>1, <1>4 DEF WayIsBarred, OneInside
<1>6. ZombieFenced'
  BY <1>1, <1>2 DEF ZombieFenced, Inside, LockInv, TypeOK
<1> QED
  BY <1>2, <1>3, <1>5, <1>6 DEF LockInv

\* A step inside the section that releases nobody.
LEMMA InsideStep ==
    ASSUME LockInv, NEW c \in Inside, NEW s \in States \ {"waiting"},
           pc' = [pc EXCEPT ![c] = s], UNCHANGED <<prev, chainLock>>,
           pc[c] \in {"acquiring", "working", "releasing"}
               <=> s \in {"acquiring", "working", "releasing"},
           armedBefore' \in {armedBefore, Disarmed(c), Rearmed(c)},
           stale' \in SUBSET Calls, frozen' \in BOOLEAN,
           chainTailLoaded' \in BOOLEAN, sharedTailUntrusted' \in BOOLEAN,
           frozen' = frozen \/ s = "idle",
           s \in {"zombie", "settling"} => frozen',
           s = "zombie" => c \in stale'
    PROVE  LockInv'
<1>1. /\ Waiting' = Waiting /\ Holding' = Holding /\ Inside' \subseteq {c}
      /\ c \in Calls \ Waiting /\ Unreleased' = Unreleased
  BY DEF LockInv, TypeOK, OneInside, Waiting, Holding, Inside, Unreleased
<1>2. TypeOK'
  <2>1. armedBefore' \in SUBSET (Calls \X Calls)
    BY <1>1, TimerTypes DEF LockInv
  <2>2. \A u \in Calls : prev'[u] # None =>
            pc'[u] = "waiting" /\ prev'[u] \in Unreleased'
    BY <1>1 DEF LockInv, TypeOK, Waiting
  <2> QED
    BY <1>1, <2>1, <2>2 DEF LockInv, TypeOK
<1>3. Line' /\ Total' /\ LastInLine'
  <2>1. \A p : p[1] # c /\ p[2] # c => (p \in armedBefore' <=> p \in armedBefore)
    BY <1>1, OthersKeepOrder
  <2> QED
    BY <1>1, <2>1, LineStays
<1>4. OneInside'
  BY <1>1 DEF OneInside
<1>5. WayIsBarred'
  <2>1. s = "idle" => Holding = {}
    BY <1>1 DEF LockInv, OneInside, Holding, Inside
  <2> QED
    BY <1>1, <2>1 DEF LockInv, WayIsBarred
<1>6. ZombieFenced'
  BY <1>1, <1>2 DEF ZombieFenced, Inside, LockInv, TypeOK
<1> QED
  BY <1>2, <1>3, <1>4, <1>5, <1>6 DEF LockInv

\* Every step of withChainLock, its timers and the fence keeps the invariant.
LEMMA NextLockInv == LockInv /\ [Next]_vars => LockInv'
<1> SUFFICES ASSUME LockInv, [Next]_vars PROVE LockInv'
  OBVIOUS
<1>t. TypeOK
  BY DEF LockInv
<1>1. CASE UNCHANGED vars
  BY <1>1 DEF vars, LockInv, TypeOK, Line, Total, LastInLine, WayIsBarred, ZombieFenced,
      OneInside, Waiting, Holding, Inside, Unreleased
<1>2. ASSUME NEW c \in Calls, Call(c) PROVE LockInv'
  BY <1>2, CallStep
<1>3. ASSUME NEW c \in Calls, WaitTimeout(c) \/ TurnedAway(c) PROVE LockInv'
  BY <1>3, GiveUpStep
<1>4. ASSUME NEW c \in Calls, Enter(c) PROVE LockInv'
  BY <1>4, EnterStep
<1>5. ASSUME NEW c \in Calls, AcquireLock(c) PROVE LockInv'
  <2>1. c \in Inside /\ stale' \in SUBSET Calls
    BY <1>5, <1>t DEF AcquireLock, Inside, TypeOK
  <2> QED
    BY <1>5, <1>t, <2>1, InsideStep DEF AcquireLock, queueVars, tailVars, TypeOK, States
<1>6. ASSUME NEW c \in Calls, AcquireTimeout(c) PROVE LockInv'
  <2>1. c \in Holding
    BY <1>6 DEF AcquireTimeout, Holding
  <2> QED
    BY <1>6, <1>t, <2>1, ReleaseStep DEF AcquireTimeout, ResyncChainTail, TypeOK
<1>7. ASSUME NEW c \in Calls, LoadTail(c) PROVE LockInv'
  <2>1. c \in Inside /\ pc' = [pc EXCEPT ![c] = pc[c]] /\ pc[c] \in States \ {"waiting"}
    BY <1>7, <1>t DEF LoadTail, Inside, TypeOK
  <2>2. chainTailLoaded' \in BOOLEAN /\ sharedTailUntrusted' \in BOOLEAN
    BY <1>7, <1>t DEF LoadTail, TypeOK
  <2>3. /\ pc[c] \in {"zombie", "settling"} => frozen'
        /\ pc[c] = "zombie" => c \in stale'
    BY <1>7 DEF LoadTail, LockInv, ZombieFenced
  <2> QED
    BY <1>7, <1>t, <2>1, <2>2, <2>3, InsideStep DEF LoadTail, queueVars, TypeOK
<1>8. ASSUME NEW c \in Calls, Return(c) PROVE LockInv'
  <2>1. /\ c \in Holding /\ c \in Inside /\ pc[c] = "working"
        /\ chainTailLoaded' \in BOOLEAN /\ sharedTailUntrusted' \in BOOLEAN
        /\ stale' \in SUBSET Calls /\ frozen' = frozen /\ frozen \in BOOLEAN
        /\ armedBefore' = Disarmed(c)
    BY <1>8, <1>t DEF Return, LeaveFn, ResyncChainTail, Holding, Inside, TypeOK
  <2>2. CASE RedisConfigured
    BY <1>8, <2>1, <2>2, InsideStep DEF Return, LeaveFn, queueVars, States
  <2>3. CASE ~RedisConfigured
    BY <1>8, <2>1, <2>3, ReleaseStep DEF Return, LeaveFn
  <2> QED
    BY <2>2, <2>3
<1>9. ASSUME NEW c \in Calls, Leave(c) PROVE LockInv'
  <2>1. c \in Holding
    BY <1>9 DEF Leave, Holding
  <2> QED
    BY <1>9, <1>t, <2>1, ReleaseStep DEF Leave, tailVars, TypeOK
<1>10. ASSUME NEW c \in Calls, HoldTimeout(c) PROVE LockInv'
  <2>1. /\ c \in Holding /\ stale' \in SUBSET Calls /\ c \in stale'
        /\ chainTailLoaded' \in BOOLEAN
    BY <1>10 DEF HoldTimeout, InvalidateTail, Holding
  <2> QED
    BY <1>10, <1>t, <2>1, ReleaseStep DEF HoldTimeout, TypeOK
<1>11. ASSUME NEW c \in Calls, ZombieSettles(c) PROVE LockInv'
  <2>1. /\ c \in Inside /\ pc[c] = "zombie" /\ frozen
        /\ chainTailLoaded' \in BOOLEAN /\ stale' \in SUBSET Calls
        /\ UNCHANGED <<prev, chainLock, armedBefore>>
    BY <1>11, <1>t DEF ZombieSettles, ResyncChainTail, Inside, TypeOK, LockInv,
        ZombieFenced, queueVars
  <2>2. \E s \in {"settling", "idle"} :
            /\ pc' = [pc EXCEPT ![c] = s]
            /\ frozen' = (s # "idle") /\ sharedTailUntrusted' \in BOOLEAN
    BY <1>11, <1>t, <2>1 DEF ZombieSettles, TypeOK
  <2> QED
    BY <2>1, <2>2, InsideStep DEF States
<1>12. ASSUME NEW c \in Calls, Unfreeze(c) PROVE LockInv'
  <2>1. c \in Inside
    BY <1>12 DEF Unfreeze, Inside
  <2> QED
    BY <1>12, <1>t, <2>1, InsideStep DEF Unfreeze, queueVars, tailVars, TypeOK, States
<1> QED
  BY <1>1, <1>2, <1>3, <1>4, <1>5, <1>6, <1>7, <1>8, <1>9, <1>10, <1>11, <1>12
      DEF Next, Progress

\* The inductive invariant of withChainLock and the fence.
THEOREM LockInvariant == Spec => []LockInv
BY InitLockInv, NextLockInv, PTL DEF Spec

-----------------------------------------------------------------------------
(* The theorems about the lock *)

\* The state is well formed: in particular only calls that have not released are
\* waited for, so nobody waits for a call that has been answered.
THEOREM TypeCorrect == Spec => []TypeOK
BY LockInvariant, PTL DEF LockInv

\* Mutual exclusion: whatever times out, and in whatever order, at most one fn
\* is inside the critical section of the chain, zombies included.
THEOREM MutualExclusion == Spec => []OneInside
BY LockInvariant, PTL DEF LockInv

\* A zombie works behind a closed fence and under a passed generation.
THEOREM ZombiesAreFenced == Spec => []ZombieFenced
BY LockInvariant, PTL DEF LockInv

\* A settling call has thrown the tail away, and nobody else is inside to load it.
SettledTail == \A c \in Calls : pc[c] = "settling" => ~chainTailLoaded

\* No step loads the tail while the shared tail of a settled zombie is deleted.
LEMMA SettledTailStep ==
    LockInv /\ SettledTail /\ [Next]_vars => SettledTail'
<1> SUFFICES ASSUME LockInv, SettledTail, [Next]_vars,
                    NEW d \in Calls, pc'[d] = "settling"
             PROVE  ~chainTailLoaded'
  BY DEF SettledTail
<1>t. pc \in [Calls -> States]
  BY DEF LockInv, TypeOK
<1>1. CASE UNCHANGED vars
  BY <1>1 DEF vars, SettledTail
<1>2. ASSUME NEW c \in Calls, ZombieSettles(c) PROVE ~chainTailLoaded'
  BY <1>2 DEF ZombieSettles, ResyncChainTail
<1>3. ASSUME NEW c \in Calls, LoadTail(c) PROVE ~chainTailLoaded'
  <2>1. c \in Inside /\ d \in Inside /\ c # d
    BY <1>3, <1>t DEF LoadTail, Inside
  <2> QED
    BY <2>1 DEF LockInv, OneInside
<1>4. ASSUME NEW c \in Calls,
             \/ Call(c) \/ WaitTimeout(c) \/ TurnedAway(c) \/ Enter(c) \/ AcquireLock(c)
             \/ AcquireTimeout(c) \/ Return(c) \/ Leave(c) \/ HoldTimeout(c) \/ Unfreeze(c)
      PROVE  ~chainTailLoaded'
  <2>1. pc[d] = "settling"
    BY <1>4, <1>t DEF Call, WaitTimeout, TurnedAway, Enter, AcquireLock, AcquireTimeout,
        Return, LeaveFn, Leave, HoldTimeout, Unfreeze
  <2>2. ~chainTailLoaded
    BY <2>1 DEF SettledTail
  <2> QED
    BY <1>4, <2>2 DEF Call, WaitTimeout, TurnedAway, Enter, AcquireLock, AcquireTimeout,
        Return, Leave, HoldTimeout, Unfreeze, InvalidateTail, ResyncChainTail, tailVars
<1> QED
  BY <1>1, <1>2, <1>3, <1>4 DEF Next, Progress

\* Between the end of a zombie's fn and the opening of the fence the tail of the
\* process stays thrown away (resyncChainTail in waitForZombie).
THEOREM SettledTailInvariant == Spec => []SettledTail
<1>1. Init => SettledTail
  BY DEF Init, SettledTail
<1> QED
  BY <1>1, LockInvariant, SettledTailStep, PTL DEF Spec

\* When the fence opens, the tail has been thrown away and nobody is inside.
THEOREM FenceOpens == Spec => FenceOpensOnFreshTail
<1>1. LockInv /\ LockInv' /\ SettledTail /\ [Next]_vars =>
          [frozen /\ ~frozen' => ~chainTailLoaded' /\ Inside' = {}]_vars
  <2> SUFFICES ASSUME LockInv, LockInv', SettledTail, Next, frozen, ~frozen'
               PROVE  ~chainTailLoaded' /\ Inside' = {}
    BY DEF vars
  <2>1. PICK c \in Calls : ZombieSettles(c) \/ Unfreeze(c)
    BY DEF Next, Progress, Call, LoadTail, Return, LeaveFn, WaitTimeout, TurnedAway,
        Enter, AcquireLock, AcquireTimeout, Leave, HoldTimeout
  <2>2. c \in Inside /\ pc'[c] = "idle" /\ \A d \in Calls \ {c} : pc'[d] = pc[d]
    BY <2>1 DEF ZombieSettles, Unfreeze, Inside, LockInv, TypeOK
  <2>3. Inside' = {}
    BY <2>2 DEF Inside, LockInv, OneInside
  <2>4. ~chainTailLoaded'
    BY <2>1 DEF ZombieSettles, Unfreeze, ResyncChainTail, tailVars, SettledTail
  <2> QED
    BY <2>3, <2>4
<1> QED
  BY <1>1, LockInvariant, SettledTailInvariant, PTL DEF Spec, FenceOpensOnFreshTail

-----------------------------------------------------------------------------
(* Sequences of records, and hashes *)

\* No record occurs twice.
Distinct(s) == \A i, j \in DOMAIN s : s[i] = s[j] => i = j
\* The hashes of all records of the sequence T.
HashesOf(T) == {SubSeq(T, 1, i) : i \in 1..Len(T)}

\* A set of naturals has a least element.
LEMMA LeastNatural ==
    ASSUME NEW S \in SUBSET Nat, S # {}
    PROVE  \E n \in S : \A m \in S : n <= m
<1>1. IsWellFoundedOn(OpToRel(<, Nat), Nat)
  BY NatLessThanWellFounded
<1>2. \E n \in S : \A m \in S : ~(<<m, n>> \in OpToRel(<, Nat))
  BY <1>1, WFMin
<1>3. PICK n \in S : \A m \in S : ~(<<m, n>> \in OpToRel(<, Nat))
  BY <1>2
<1>4. \A m \in S : ~(m < n)
  BY <1>3 DEF OpToRel
<1> QED
  BY <1>4

\* A hash of the sequence T is a prefix of it, and so is its parent.
LEMMA PrefixFacts ==
    ASSUME NEW T \in Seq(Records), NEW h \in HashesOf(T)
    PROVE  /\ h \in Seq(Records) /\ Len(h) \in 1..Len(T) /\ h = SubSeq(T, 1, Len(h))
           /\ Last(h) = T[Len(h)] /\ Parent(h) = SubSeq(T, 1, Len(h) - 1)
BY DEF HashesOf, Last, Parent, Front

\* A batch chained to T has the hashes of T \o b that T does not have.
LEMMA PrefixesExtend ==
    ASSUME NEW T \in Seq(Records), NEW b \in Seq(Records)
    PROVE  HashesOf(T \o b) = HashesOf(T) \cup ChainedFrom(T, b)
<1>0. ASSUME NEW j \in DOMAIN b
      PROVE  T \o SubSeq(b, 1, j) = SubSeq(T \o b, 1, Len(T) + j)
  <2>1. j \in 1..Len(b)
    OBVIOUS
  <2> QED
    BY <2>1
<1>1. ASSUME NEW i \in 1..Len(T \o b)
      PROVE  SubSeq(T \o b, 1, i) \in HashesOf(T) \cup ChainedFrom(T, b)
  <2>1. CASE i <= Len(T)
    <3>1. SubSeq(T \o b, 1, i) = SubSeq(T, 1, i) /\ i \in 1..Len(T)
      BY <2>1
    <3> QED
      BY <3>1 DEF HashesOf
  <2>2. CASE i > Len(T)
    <3>1. PICK j \in DOMAIN b : i = Len(T) + j
      <4>1. i - Len(T) \in DOMAIN b /\ i = Len(T) + (i - Len(T))
        BY <2>2
      <4> QED
        BY <4>1
    <3>2. SubSeq(T \o b, 1, i) = T \o SubSeq(b, 1, j)
      BY <1>0, <3>1
    <3> QED
      BY <3>2 DEF ChainedFrom
  <2> QED
    BY <2>1, <2>2
<1>2. HashesOf(T) \subseteq HashesOf(T \o b)
  BY DEF HashesOf
<1>3. ASSUME NEW j \in DOMAIN b
      PROVE  T \o SubSeq(b, 1, j) \in HashesOf(T \o b)
  <2>1. T \o SubSeq(b, 1, j) = SubSeq(T \o b, 1, Len(T) + j)
    BY <1>0
  <2>2. Len(T) + j \in 1..Len(T \o b)
    OBVIOUS
  <2> QED
    BY <2>1, <2>2 DEF HashesOf
<1>4. HashesOf(T \o b) \subseteq HashesOf(T) \cup ChainedFrom(T, b)
  BY <1>1 DEF HashesOf
<1>5. ChainedFrom(T, b) \subseteq HashesOf(T \o b)
  BY <1>3 DEF ChainedFrom
<1> QED
  BY <1>2, <1>4, <1>5

\* There is one hash of each length.
LEMMA OneOfEachLength ==
    ASSUME NEW T \in Seq(Records), NEW g \in HashesOf(T), NEW h \in HashesOf(T), Len(g) = Len(h)
    PROVE  g = h
BY PrefixFacts

\* The records the hashes of T belong to are those of T.
LEMMA StoredOfPrefixes ==
    ASSUME NEW T \in Seq(Records)
    PROVE  {Last(h) : h \in HashesOf(T)} = ToSet(T)
<1>1. {Last(h) : h \in HashesOf(T)} \subseteq ToSet(T)
  BY PrefixFacts DEF ToSet
<1>2. ASSUME NEW i \in DOMAIN T PROVE T[i] \in {Last(h) : h \in HashesOf(T)}
  <2>1. SubSeq(T, 1, i) \in HashesOf(T)
    BY DEF HashesOf
  <2>2. Last(SubSeq(T, 1, i)) = T[i]
    BY DEF Last
  <2> QED
    BY <2>1, <2>2
<1> QED
  BY <1>1, <1>2 DEF ToSet

\* Two sequences without a common record.
LEMMA DistinctConcat ==
    ASSUME NEW s \in Seq(Records), NEW t \in Seq(Records), Distinct(s), Distinct(t), ToSet(s) \cap ToSet(t) = {}
    PROVE  Distinct(s \o t)
<1>1. \A i \in DOMAIN (s \o t) :
          \/ i \in DOMAIN s /\ (s \o t)[i] = s[i]
          \/ i - Len(s) \in DOMAIN t /\ (s \o t)[i] = t[i - Len(s)]
  OBVIOUS
<1>2. ASSUME NEW i \in DOMAIN (s \o t), NEW j \in DOMAIN (s \o t), (s \o t)[i] = (s \o t)[j]
      PROVE  i = j
  <2>1. CASE i \in DOMAIN s /\ j \in DOMAIN s /\ (s \o t)[i] = s[i] /\ (s \o t)[j] = s[j]
    BY <1>2, <2>1 DEF Distinct
  <2>2. CASE /\ i - Len(s) \in DOMAIN t /\ j - Len(s) \in DOMAIN t
             /\ (s \o t)[i] = t[i - Len(s)] /\ (s \o t)[j] = t[j - Len(s)]
    <3>1. i - Len(s) = j - Len(s)
      BY <1>2, <2>2 DEF Distinct
    <3>2. i \in Int /\ j \in Int /\ Len(s) \in Int
      OBVIOUS
    <3> QED
      BY <3>1, <3>2
  <2>3. \A k \in DOMAIN s, l \in DOMAIN t : s[k] # t[l]
    BY DEF ToSet
  <2> QED
    BY <1>1, <1>2, <2>1, <2>2, <2>3
<1> QED
  BY <1>2 DEF Distinct

\* The records of a concatenation.
LEMMA ConcatRecords ==
    ASSUME NEW s \in Seq(Records), NEW t \in Seq(Records)
    PROVE  s \o t \in Seq(Records) /\ ToSet(s \o t) = ToSet(s) \cup ToSet(t)
<1>1. s \o t \in Seq(Records)
  OBVIOUS
<1>2. ToSet(s \o t) \subseteq ToSet(s) \cup ToSet(t)
  BY DEF ToSet
<1>3. ToSet(s) \subseteq ToSet(s \o t)
  BY DEF ToSet
<1>4. ASSUME NEW i \in DOMAIN t PROVE t[i] \in ToSet(s \o t)
  <2>1. (s \o t)[Len(s) + i] = t[i] /\ Len(s) + i \in DOMAIN (s \o t)
    OBVIOUS
  <2> QED
    BY <2>1 DEF ToSet
<1> QED
  BY <1>1, <1>2, <1>3, <1>4 DEF ToSet

\* A sequence that lists a set holds nothing else, and nothing twice.
LEMMA SeqsOfSet ==
    ASSUME NEW S \in SUBSET Records, NEW s \in SetToSeqs(S)
    PROVE  s \in Seq(Records) /\ Distinct(s) /\ ToSet(s) \subseteq S
<1>1. IsFiniteSet(S)
  <2>1. IsFiniteSet(Records)
    BY ChainAssumption, FS_Interval DEF Records
  <2> QED
    BY <2>1, FS_Subset
<1>2. Cardinality(S) \in Nat
  BY <1>1, FS_CardinalityType
<1>3. s \in [1..Cardinality(S) -> S] /\ \A i, j \in 1..Cardinality(S) : i # j => s[i] # s[j]
  BY DEF SetToSeqs
<1>4. s \in Seq(Records)
  BY <1>2, <1>3
<1> QED
  BY <1>2, <1>3, <1>4 DEF Distinct, ToSet

\* A sequence without repetition has as many records as places.
LEMMA SizeOfDistinct ==
    ASSUME NEW s \in Seq(Records), Distinct(s)
    PROVE  Cardinality(ToSet(s)) = Len(s)
<1>1. IsFiniteSet(1..Len(s)) /\ Cardinality(1..Len(s)) = Len(s)
  <2>1. Len(s) \in Nat
    OBVIOUS
  <2> QED
    BY <2>1, FS_Interval
<1>2. s \in Bijection(1..Len(s), ToSet(s))
  BY DEF Bijection, Injection, Surjection, IsInjective, Distinct, ToSet
<1> QED
  BY <1>1, <1>2, FS_Bijection DEF ExistsBijection

\* When the database holds all hashes of T, getLatestHash answers the last one, T.
LEMMA LatestIsLast ==
    ASSUME NEW T \in Seq(Records), db = HashesOf(T)
    PROVE  LatestHash = T
<1>1. CASE T = << >>
  BY <1>1 DEF LatestHash, HashesOf
<1>2. CASE T # << >>
  <2>1. T \in db /\ Len(T) \in Nat \ {0} /\ SubSeq(T, 1, Len(T)) = T
    BY <1>2 DEF HashesOf
  <2>2. ASSUME NEW g \in db PROVE Parent(g) # T
    <3>1. Len(Parent(g)) = Len(g) - 1 /\ Len(g) \in 1..Len(T)
      BY PrefixFacts
    <3> QED
      BY <3>1, <2>1
  <2>3. ASSUME NEW h \in db, h # T PROVE \E g \in db : Parent(g) = h
    <3>0. Len(h) \in 1..Len(T) /\ h = SubSeq(T, 1, Len(h))
      BY PrefixFacts
    <3>1. Len(h) \in 1..(Len(T) - 1) /\ h = SubSeq(T, 1, Len(h))
      <4>1. Len(h) # Len(T)
        BY <2>1, <2>3, <3>0
      <4>2. \A n \in Nat : \A k \in 1..n : k # n => k \in 1..(n - 1)
        OBVIOUS
      <4>3. Len(h) \in 1..Len(T) /\ Len(T) \in Nat
        BY <2>1, <3>0
      <4>4. Len(h) \in 1..(Len(T) - 1)
        BY <4>1, <4>2, <4>3
      <4> QED
        BY <3>0, <4>4
    <3>2. SubSeq(T, 1, Len(h) + 1) \in db
      <4>1. Len(h) + 1 \in 1..Len(T)
        BY <2>1, <3>1
      <4> QED
        BY <4>1 DEF HashesOf
    <3>3. Len(SubSeq(T, 1, Len(h) + 1)) = Len(h) + 1
      BY <2>1, <3>1
    <3>4. Parent(SubSeq(T, 1, Len(h) + 1)) = SubSeq(T, 1, Len(h))
      <4>1. Parent(SubSeq(T, 1, Len(h) + 1)) = SubSeq(T, 1, Len(SubSeq(T, 1, Len(h) + 1)) - 1)
        BY <3>2, PrefixFacts
      <4> QED
        BY <3>1, <3>3, <4>1
    <3> QED
      BY <3>1, <3>2, <3>4
  <2>4. {h \in db : \A g \in db : Parent(g) # h} = {T}
    BY <2>1, <2>2, <2>3
  <2>5. (CHOOSE h \in {T} : \A g \in {T} : Last(g) <= Last(h)) = T
    <3>1. T[Len(T)] \in Records
      BY <2>1
    <3>2. Last(T) <= Last(T)
      BY <3>1 DEF Last, Records
    <3> QED
      BY <3>2
  <2>6. db # {}
    BY <2>1
  <2> QED
    BY <2>4, <2>5, <2>6 DEF LatestHash
<1> QED
  BY <1>1, <1>2

\* Some hash is the longest.
LEMMA LedgerIsLongest ==
    ASSUME NEW T \in Seq(Records), NEW D \in SUBSET HashesOf(T), D # {}
    PROVE  \E h \in D : \A g \in D : Len(g) <= Len(h)
<1>1. {Len(T) - Len(h) : h \in D} \in SUBSET Nat
  BY PrefixFacts
<1>2. PICK n \in {Len(T) - Len(h) : h \in D} : \A m \in {Len(T) - Len(h) : h \in D} : n <= m
  <2> DEFINE S == {Len(T) - Len(h) : h \in D}
  <2>1. S \in SUBSET Nat /\ S # {}
    BY <1>1
  <2> HIDE DEF S
  <2>2. \E n \in S : \A m \in S : n <= m
    BY <2>1, LeastNatural
  <2> QED
    BY <2>2 DEF S
<1>3. PICK h \in D : n = Len(T) - Len(h)
  OBVIOUS
<1>4. \A g \in D : Len(T) - Len(h) <= Len(T) - Len(g)
  BY <1>2, <1>3
<1>5. \A g \in D : Len(g) \in Nat
  BY PrefixFacts
<1>6. \A g \in D : Len(g) <= Len(h)
  BY <1>4, <1>5
<1> QED
  BY <1>6

\* What chainBatch makes of a batch: one hash per record, which ends with it.
LEMMA ChainedFacts ==
    ASSUME NEW T \in Seq(Records), NEW b \in Seq(Records)
    PROVE  /\ ChainedFrom(T, b) \subseteq Seq(Records) \ {<< >>}
           /\ \A h \in ChainedFrom(T, b) : Last(h) \in ToSet(b)
           /\ Distinct(b) => \A g, h \in ChainedFrom(T, b) : Last(g) = Last(h) => g = h
           /\ Len(b) = 1 => ChainedFrom(T, b) = {T \o b}
<1>1. ASSUME NEW i \in DOMAIN b
      PROVE  /\ T \o SubSeq(b, 1, i) \in Seq(Records) \ {<< >>}
             /\ Last(T \o SubSeq(b, 1, i)) = b[i]
  BY DEF Last
<1>2. Len(b) = 1 => ChainedFrom(T, b) = {T \o b}
  <2> SUFFICES ASSUME Len(b) = 1 PROVE ChainedFrom(T, b) = {T \o b}
    OBVIOUS
  <2>1. DOMAIN b = {1} /\ SubSeq(b, 1, 1) = b
    OBVIOUS
  <2> QED
    BY <2>1 DEF ChainedFrom
<1> QED
  BY <1>1, <1>2 DEF ChainedFrom, ToSet, Distinct

\* What each variable holds.
ChainTypes ==
    /\ nextRecord \in 1..(MaxRecords + 1)
    /\ buffer \in Seq(Records) /\ flushing \in Flushes \cup {None}
    /\ step \in [Calls -> Steps]
    /\ batch \in [Calls -> Seq(Records)] /\ start \in [Calls -> Seq(Records)]
    /\ chainTail \in Seq(Records)
    /\ db \subseteq Seq(Records) \ {<< >>}
    /\ faults \in 0..MaxFaults /\ kinds \subseteq FaultKinds \cup {"create"}

\* How far the fn of a call is says where the call is, and `flushing` names the flush
\* that has not been abandoned.
CallInv == \A c \in Calls :
    /\ pc[c] \in {"idle", "waiting", "working", "zombie"}
    /\ step[c] \in {"read", "chained"} <=> pc[c] \in {"working", "zombie"}
    /\ step[c] = "insert" => c \in Creates /\ pc[c] = "idle"
    /\ pc[c] = "idle" /\ step[c] = "none" <=> batch[c] = << >>
    /\ c \in Flushes /\ pc[c] \in {"waiting", "working"} => flushing = c
    /\ c \in Flushes /\ pc[c] = "zombie" => flushing = None
    /\ c \in stale /\ pc[c] = "working" => frozen

\* Records that have been handed out.
Created == 1..(nextRecord - 1)
\* A record waits in one place: the record of a create nowhere else, and a record of a
\* flush in the buffer or in the batch of a flush that has not been abandoned.  No
\* record is stored twice.
RecordInv ==
    /\ Distinct(buffer) /\ ToSet(buffer) \subseteq Created /\ Stored \subseteq Created
    /\ \A c \in Calls : Distinct(batch[c]) /\ ToSet(batch[c]) \subseteq Created
    /\ \A c \in Flushes : pc[c] \in {"waiting", "working"} =>
            ToSet(batch[c]) \cap ToSet(buffer) = {}
    /\ \A c \in Creates :
            /\ Len(batch[c]) <= 1
            /\ ToSet(batch[c]) \cap (ToSet(buffer) \cup Stored) = {}
            /\ \A d \in Calls \ {c} : ToSet(batch[c]) \cap ToSet(batch[d]) = {}
    /\ StoredOnce

\* What holds whatever goes wrong.
Base == ~RedisConfigured /\ LockInv /\ ChainTypes /\ CallInv /\ RecordInv

\* What filter leaves of a sequence.
LEMMA RemainsFacts ==
    ASSUME NEW s \in Seq(Records), NEW gone, NEW t \in Remains(s, gone)
    PROVE  t \in Seq(Records) /\ Distinct(t) /\ ToSet(t) \subseteq ToSet(s) \ gone
<1>1. ToSet(s) \ gone \in SUBSET Records
  BY DEF ToSet
<1>2. t \in SetToSeqs(ToSet(s) \ gone)
  BY DEF Remains
<1> QED
  BY <1>1, <1>2, SeqsOfSet

\* The end of a flush: its call is idle, its batch empty, and what it put back or left in
\* the buffer holds nothing it knows to be stored.
LEMMA FlushEffect ==
    ASSUME Base, NEW c \in Flushes, step[c] = "chained",
           NEW stored \in SUBSET ToSet(batch[c]), FlushEnds(c, stored),
           pc[c] # "zombie" => LeaveFn(c)
    PROVE  /\ pc' = [pc EXCEPT ![c] = "idle"]
           /\ step' = [step EXCEPT ![c] = "none"]
           /\ batch' = [batch EXCEPT ![c] = << >>]
           /\ stale' = stale \ {c}
           /\ frozen' = (frozen /\ pc[c] # "zombie")
           /\ flushing' = None
           /\ buffer' \in Seq(Records) /\ Distinct(buffer')
           /\ ToSet(buffer') \subseteq (ToSet(buffer) \cup ToSet(batch[c])) \ stored
<1>1. c \in Calls /\ pc[c] \in {"working", "zombie"} /\ batch[c] \in Seq(Records) /\ frozen \in BOOLEAN
      /\ buffer \in Seq(Records) /\ Distinct(buffer) /\ Distinct(batch[c])
  BY DEF Base, CallInv, ChainTypes, RecordInv, Flushes, LockInv, TypeOK
<1>r. ~RedisConfigured /\ RedisReady = {FALSE}
  BY DEF Base, RedisReady
<1>2. CASE pc[c] = "zombie"
  <2>1. buffer' \in Remains(buffer, stored)
    BY <1>2 DEF FlushEnds, Retracted
  <2>2. buffer' \in Seq(Records) /\ Distinct(buffer') /\ ToSet(buffer') \subseteq ToSet(buffer) \ stored
    BY <1>1, <2>1, RemainsFacts
  <2>3. flushing = None
    BY <1>2 DEF Base, CallInv, Flushes
  <2> QED
    BY <1>1, <1>2, <2>2, <2>3, <1>r DEF FlushEnds, ZombieSettles
<1>3. CASE pc[c] # "zombie"
  <2>1. PICK rest \in Remains(batch[c], stored) : buffer' = rest \o buffer
    BY <1>3 DEF FlushEnds
  <2>2. rest \in Seq(Records) /\ Distinct(rest) /\ ToSet(rest) \subseteq ToSet(batch[c]) \ stored
    BY <1>1, RemainsFacts
  <2>3. ToSet(batch[c]) \cap ToSet(buffer) = {}
    BY <1>1, <1>3 DEF Base, RecordInv
  <2>4. buffer' \in Seq(Records) /\ ToSet(buffer') = ToSet(rest) \cup ToSet(buffer)
    BY <1>1, <2>1, <2>2, ConcatRecords
  <2>5. Distinct(buffer')
    BY <1>1, <2>1, <2>2, <2>3, DistinctConcat
  <2>6. ToSet(buffer') \subseteq (ToSet(buffer) \cup ToSet(batch[c])) \ stored
    BY <2>2, <2>3, <2>4
  <2> QED
    BY <1>1, <1>3, <2>4, <2>5, <2>6, <1>r DEF FlushEnds, LeaveFn
<1> QED
  BY <1>2, <1>3

-----------------------------------------------------------------------------
(* The steps of the writers as steps of the lock *)

\* A process that has started again: nobody queues and nobody is inside.
LEMMA RestartLock ==
    ASSUME LockInv, Crash
    PROVE  LockInv'
<1>1. /\ pc' = [c \in Calls |-> "idle"] /\ prev' = [c \in Calls |-> None]
      /\ chainLock' = None /\ armedBefore' = {} /\ frozen' = FALSE
      /\ stale' = {} /\ chainTailLoaded' = FALSE
      /\ sharedTailUntrusted' = sharedTailUntrusted
  BY DEF Crash
<1> QED
  BY <1>1, LockAssumption DEF LockInv, TypeOK, Line, Total, LastInLine, WayIsBarred,
      ZombieFenced, OneInside, Waiting, Holding, Inside, States, Unreleased

\* Every step of the writers is a step of the lock, a restart, or leaves the lock alone.
LEMMA LockStep ==
    ASSUME LockInv, [ChainNext]_allVars
    PROVE  LockInv'
<1>1. CASE UNCHANGED allVars
  BY <1>1, NextLockInv DEF allVars
<1>2. CASE Crash
  BY <1>2, RestartLock
<1>3. CASE Push
  BY <1>3, NextLockInv DEF Push
<1>4. ASSUME NEW c \in Calls, FlushBegin(c) \/ CreateBegin(c) PROVE [Next]_vars
  BY <1>4 DEF FlushBegin, CreateBegin, Next
<1>5. ASSUME NEW c \in Calls, LockRejects(c) \/ Abandoned(c) \/ FnStarts(c) \/ TailRead(c)
      PROVE  [Next]_vars
  BY <1>5 DEF LockRejects, Abandoned, FnStarts, TailRead, Next, Progress
<1>6. ASSUME NEW c \in Calls, FlushStored(c) PROVE [Next]_vars
  BY <1>6 DEF FlushStored, FlushEnds, Next, Return, tailVars
<1>7. ASSUME NEW c \in Calls, FlushFails(c) PROVE [Next]_vars
  <2>1. ZombieSettles(c) \/ Return(c)
    BY <1>7 DEF FlushFails, FlushEnds, Return, tailVars
  <2> QED
    BY <2>1 DEF Next
<1>8. ASSUME NEW c \in Calls, CreateLeaves(c) \/ ZombieCreateEnds(c) PROVE [Next]_vars
  BY <1>8 DEF CreateLeaves, ZombieCreateEnds, Next, Return, tailVars
<1>9. ASSUME NEW c \in Calls, CreateStored(c) \/ CreateFails(c) PROVE [Next]_vars
  BY <1>9 DEF CreateStored, CreateFails, CreateEnds
<1> QED
  BY <1>1, <1>2, <1>3, <1>4, <1>5, <1>6, <1>7, <1>8, <1>9, NextLockInv DEF ChainNext

\* A failing insertion: what it stores, what it knows, and what is recorded of it.
LEMMA FlushFailsEffect ==
    ASSUME Base, NEW c \in Calls, FlushFails(c)
    PROVE  \E landed \in SUBSET (ToSet(batch[c]) \ Stored), stored \in SUBSET ToSet(batch[c]) :
             /\ FlushEnds(c, stored) /\ (pc[c] # "zombie" => LeaveFn(c))
             /\ db' = db \cup {h \in ChainedFrom(start[c], batch[c]) : Last(h) \in landed}
             /\ \/ UNCHANGED upsets /\ ToSet(batch[c]) \cap Stored # {}
                \/ Fault("lostAck") \/ Fault("partial")
                \/ Fault("reject") /\ stored = {} /\ landed = {}
             /\ chainTail' \in {chainTail, << >>}
             /\ \/ stored = {} /\ pc[c] # "zombie" /\ UNCHANGED <<chainTail, chainTailLoaded>>
                \/ chainTail' = << >> /\ ~chainTailLoaded'
             /\ c \in Flushes /\ step[c] = "chained"
             /\ UNCHANGED <<nextRecord, start>>
<1> DEFINE mine == ToSet(batch[c])
           dups == mine \cap Stored
<1>1. PICK landed \in SUBSET (mine \ Stored), told \in BOOLEAN :
          LET stored == IF told THEN dups \cup landed ELSE {}
          IN  /\ ~told => landed \cup dups \in Prefix(batch[c])
              /\ IF told /\ dups # {} /\ landed = mine \ dups
                 THEN UNCHANGED upsets
                 ELSE Fault(IF ~told /\ landed # {} THEN "lostAck"
                            ELSE IF stored = {} THEN "reject" ELSE "partial")
              /\ told => landed # mine
              /\ db' = db \cup {h \in ChainedFrom(start[c], batch[c]) : Last(h) \in landed}
              /\ FlushEnds(c, stored)
              /\ IF pc[c] = "zombie"
                 THEN chainTail' = << >>
                 ELSE /\ LeaveFn(c)
                      /\ IF stored = {}
                         THEN UNCHANGED <<chainTail, tailVars>>
                         ELSE /\ ResyncChainTail
                              /\ chainTail' = << >>
                              /\ UNCHANGED sharedTailUntrusted
  BY DEF FlushFails
<1> DEFINE stored == IF told THEN dups \cup landed ELSE {}
<1>2. /\ stored \in SUBSET mine /\ FlushEnds(c, stored) /\ (pc[c] # "zombie" => LeaveFn(c))
      /\ db' = db \cup {h \in ChainedFrom(start[c], batch[c]) : Last(h) \in landed}
  BY <1>1
<1>3. \/ UNCHANGED upsets /\ dups # {}
      \/ Fault("lostAck") \/ Fault("partial")
      \/ Fault("reject") /\ stored = {} /\ landed = {}
  <2>1. CASE told /\ dups # {} /\ landed = mine \ dups
    BY <1>1, <2>1
  <2>2. CASE ~(told /\ dups # {} /\ landed = mine \ dups)
    <3>1. CASE ~told /\ landed # {}
      <4>1. Fault("lostAck")
        BY <1>1, <2>2, <3>1
      <4> QED
        BY <4>1
    <3>2. CASE ~(~told /\ landed # {}) /\ stored = {}
      <4>1. Fault("reject")
        BY <1>1, <2>2, <3>2
      <4> QED
        BY <3>2, <4>1
    <3>3. CASE ~(~told /\ landed # {}) /\ stored # {}
      <4>1. Fault("partial")
        BY <1>1, <2>2, <3>3
      <4> QED
        BY <4>1
    <3> QED
      BY <3>1, <3>2, <3>3
  <2> QED
    BY <2>1, <2>2
<1>4. \/ stored = {} /\ pc[c] # "zombie" /\ UNCHANGED <<chainTail, chainTailLoaded>>
      \/ chainTail' = << >> /\ ~chainTailLoaded'
  BY <1>1 DEF FlushEnds, ZombieSettles, ResyncChainTail, tailVars
<1>5. c \in Flushes /\ step[c] = "chained" /\ UNCHANGED <<nextRecord, start>>
  BY DEF FlushFails
<1> QED
  BY <1>2, <1>3, <1>4, <1>5

-----------------------------------------------------------------------------
(* What the actions do, one by one *)

\* A flush takes the first records of the buffer.
LEMMA FlushBeginEffect ==
    ASSUME ChainTypes, Distinct(buffer), NEW c \in Calls, FlushBegin(c)
    PROVE  \E taken, rest \in Seq(Records) :
             /\ taken # << >> /\ Distinct(taken) /\ Distinct(rest)
             /\ ToSet(taken) \cap ToSet(rest) = {}
             /\ ToSet(taken) \cup ToSet(rest) \subseteq ToSet(buffer)
             /\ batch' = [batch EXCEPT ![c] = taken] /\ buffer' = rest
<1> DEFINE n == Min({BatchLimit, Len(buffer)})
           taken == SubSeq(buffer, 1, n)
           rest == SubSeq(buffer, n + 1, Len(buffer))
<1>1. buffer \in Seq(Records) /\ Len(buffer) \in Nat \ {0} /\ BatchLimit \in Nat \ {0}
  BY ChainAssumption DEF FlushBegin, MayFlush, ChainTypes
<1>2. n \in 1..Len(buffer)
  BY <1>1 DEF Min
<1>3. batch' = [batch EXCEPT ![c] = taken] /\ buffer' = rest
  BY DEF FlushBegin
<1> HIDE DEF n
<1>4. taken \in Seq(Records) /\ rest \in Seq(Records) /\ taken # << >>
  BY <1>1, <1>2
<1>5. \A i \in DOMAIN taken : i \in 1..n /\ taken[i] = buffer[i]
  BY <1>1, <1>2
<1>6. \A i \in DOMAIN rest : n + i \in DOMAIN buffer /\ rest[i] = buffer[n + i] /\ i \in Nat \ {0}
  <2>1. Len(rest) = Len(buffer) - n /\ DOMAIN rest = 1..(Len(buffer) - n)
    BY <1>1, <1>2
  <2>2. ASSUME NEW i \in 1..(Len(buffer) - n) PROVE rest[i] = buffer[n + i]
    BY <1>1, <1>2
  <2>3. \A i \in 1..(Len(buffer) - n) : n + i \in DOMAIN buffer /\ i \in Nat \ {0}
    BY <1>1, <1>2
  <2> QED
    BY <2>1, <2>2, <2>3
<1> HIDE DEF taken, rest
<1>7. Distinct(taken) /\ Distinct(rest)
  <2>1. Distinct(taken)
    BY <1>1, <1>2, <1>5 DEF Distinct
  <2>2. ASSUME NEW i \in DOMAIN rest, NEW j \in DOMAIN rest, rest[i] = rest[j] PROVE i = j
    <3>1. n + i = n + j
      BY <1>6, <2>2 DEF Distinct
    <3> QED
      BY <1>2, <1>6, <3>1
  <2> QED
    BY <2>1, <2>2 DEF Distinct
<1>8. ToSet(taken) \cap ToSet(rest) = {}
  BY <1>1, <1>2, <1>5, <1>6 DEF Distinct, ToSet
<1>9. ToSet(taken) \cup ToSet(rest) \subseteq ToSet(buffer)
  BY <1>1, <1>2, <1>5, <1>6 DEF ToSet
<1> QED
  BY <1>3, <1>4, <1>7, <1>8, <1>9

\* The newest of some stored hashes is one of them.
LEMMA NewestExists ==
    ASSUME NEW D \in SUBSET (Seq(Records) \ {<< >>}), D # {}
    PROVE  \E h \in D : \A g \in D : Last(g) <= Last(h)
<1>0. MaxRecords \in Nat /\ \A h \in D : Last(h) \in 1..MaxRecords
  BY ChainAssumption DEF Last, Records
<1>1. PICK n \in {MaxRecords - Last(h) : h \in D} : \A m \in {MaxRecords - Last(h) : h \in D} : n <= m
  <2> DEFINE S == {MaxRecords - Last(h) : h \in D}
  <2>1. S \in SUBSET Nat /\ S # {}
    BY <1>0
  <2> HIDE DEF S
  <2>2. \E n \in S : \A m \in S : n <= m
    BY <2>1, LeastNatural
  <2> QED
    BY <2>2 DEF S
<1>2. PICK h \in D : n = MaxRecords - Last(h)
  OBVIOUS
<1>3. \A g \in D : MaxRecords - Last(h) <= MaxRecords - Last(g)
  BY <1>1, <1>2
<1>4. ASSUME NEW g \in D PROVE Last(g) <= Last(h)
  <2>1. MaxRecords \in Nat /\ Last(g) \in 1..MaxRecords /\ Last(h) \in 1..MaxRecords
    BY <1>0
  <2>2. MaxRecords - Last(h) <= MaxRecords - Last(g)
    BY <1>3
  <2> QED
    BY <2>1, <2>2
<1> QED
  BY <1>4

\* getLatestHash answers a hash.
LEMMA LatestType ==
    ASSUME ChainTypes
    PROVE  LatestHash \in Seq(Records)
<1> DEFINE unclaimed == {h \in db : \A g \in db : Parent(g) # h}
           S == IF unclaimed = {} THEN db ELSE unclaimed
<1>1. CASE db = {}
  BY <1>1 DEF LatestHash
<1>2. CASE db # {}
  <2>1. S \in SUBSET (Seq(Records) \ {<< >>}) /\ S # {}
    BY <1>2 DEF ChainTypes
  <2>2. LatestHash = CHOOSE h \in S : \A g \in S : Last(g) <= Last(h)
    BY <1>2 DEF LatestHash
  <2> HIDE DEF S
  <2>3. \E h \in S : \A g \in S : Last(g) <= Last(h)
    BY <2>1, NewestExists
  <2>4. LatestHash \in S
    BY <2>2, <2>3
  <2> QED
    BY <2>1, <2>4
<1> QED
  BY <1>1, <1>2

\* After a crash: no call is under way, and the log has brought back records that were
\* waiting.
LEMMA CrashEffect ==
    ASSUME Base, Crash
    PROVE  /\ buffer' \in Seq(Records) /\ Distinct(buffer')
           /\ ToSet(buffer') \subseteq ToSet(buffer) \cup UNION {ToSet(batch[c]) : c \in Flushes}
           /\ \E landed \in SUBSET UNION {ChainedFrom(start[c], batch[c]) :
                     c \in {d \in Calls : step[d] \in {"chained", "insert"}}} :
                db' = db \cup landed /\ \A h \in landed : Last(h) \notin Stored
<1> DEFINE held == ToSet(buffer) \cup UNION {ToSet(batch[c]) : c \in Flushes}
<1>1. PICK kept \in SUBSET held : buffer' \in Sorted(kept)
  BY DEF Crash
<1>2. held \subseteq Records
  BY DEF Base, ChainTypes, ToSet, Flushes
<1>3. buffer' \in SetToSeqs(kept)
  BY <1>1 DEF Sorted
<1> HIDE DEF held
<1>4. buffer' \in Seq(Records) /\ Distinct(buffer') /\ ToSet(buffer') \subseteq kept
  BY <1>1, <1>2, <1>3, SeqsOfSet
<1>5. \E landed \in SUBSET UNION {ChainedFrom(start[c], batch[c]) :
                     c \in {d \in Calls : step[d] \in {"chained", "insert"}}} :
                db' = db \cup landed /\ \A h \in landed : Last(h) \notin Stored
  BY DEF Crash
<1> QED
  BY <1>1, <1>4, <1>5 DEF held

-----------------------------------------------------------------------------
(* Every step keeps the types of the variables *)

\* A fault that is counted is one of the kinds there are.
LEMMA FaultTypes ==
    ASSUME ChainTypes, UNCHANGED upsets \/ \E kind \in FaultKinds : Fault(kind)
    PROVE  faults' \in 0..MaxFaults /\ kinds' \subseteq FaultKinds \cup {"create"}
<1>1. CASE UNCHANGED upsets
  BY <1>1 DEF ChainTypes, upsets
<1>2. ASSUME NEW kind \in FaultKinds, Fault(kind)
      PROVE  faults' \in 0..MaxFaults /\ kinds' \subseteq FaultKinds \cup {"create"}
  <2>1. faults \in 0..MaxFaults /\ faults < MaxFaults /\ faults' = faults + 1 /\ MaxFaults \in Nat
    BY <1>2, ChainAssumption DEF Fault, MayFail, ChainTypes
  <2> QED
    BY <1>2, <2>1 DEF Fault, ChainTypes
<1> QED
  BY <1>1, <1>2

\* Each action assigns values of the right kind.
LEMMA TypesStep ==
    ASSUME Base, [ChainNext]_allVars
    PROVE  ChainTypes'
<1>r. RedisReady = {FALSE} /\ ~RedisConfigured
  BY DEF Base, RedisReady
<1> USE <1>r
<1>0. ChainTypes /\ Distinct(buffer) /\ MaxRecords \in Nat /\ MaxFaults \in Nat /\ Creates \subseteq Calls
  BY ChainAssumption DEF Base, RecordInv
<1>00. \A c \in Calls : start[c] \in Seq(Records) /\ batch[c] \in Seq(Records) /\ start[c] \o batch[c] \in Seq(Records)
  BY <1>0 DEF ChainTypes
<1>01. chainTail \in Seq(Records) /\ << >> \in Seq(Records)
  BY <1>0 DEF ChainTypes
<1>1. CASE UNCHANGED allVars
  BY <1>0, <1>1 DEF allVars, chainVars, flushVars, callVars, upsets, ChainTypes
<1>2. CASE Push
  <2>1. buffer' \in Seq(Records)
    BY <1>0, <1>2 DEF Push, ChainTypes, Records
  <2> QED
    BY <1>0, <1>2, <2>1 DEF Push, ChainTypes, callVars, upsets
<1>3. CASE Crash
  <2>1. buffer' \in Seq(Records)
    BY <1>3, CrashEffect
  <2>2. db' \subseteq Seq(Records) \ {<< >>}
    <3>1. \A c \in Calls : ChainedFrom(start[c], batch[c]) \subseteq Seq(Records) \ {<< >>}
      BY <1>0, ChainedFacts DEF ChainTypes
    <3>2. PICK landed \in SUBSET UNION {ChainedFrom(start[c], batch[c]) :
                     c \in {d \in Calls : step[d] \in {"chained", "insert"}}} : db' = db \cup landed
      BY <1>3, CrashEffect
    <3>3. landed \subseteq Seq(Records) \ {<< >>}
      BY <3>1, <3>2
    <3> QED
      BY <1>0, <3>2, <3>3 DEF ChainTypes
  <2>3. faults' \in 0..MaxFaults /\ kinds' \subseteq FaultKinds \cup {"create"}
    BY <1>0, <1>3 DEF Crash, Fault, MayFail, ChainTypes
  <2> QED
    BY <1>0, <1>3, <2>1, <2>2, <2>3 DEF Crash, ChainTypes, Steps
<1>4. ASSUME NEW c \in Calls, FlushBegin(c) PROVE ChainTypes'
  BY <1>0, <1>4, FlushBeginEffect DEF FlushBegin, ChainTypes, upsets
<1>5. ASSUME NEW c \in Calls, CreateBegin(c) PROVE ChainTypes'
  <2>1. <<nextRecord>> \in Seq(Records)
    BY <1>0, <1>5 DEF CreateBegin, ChainTypes, Records
  <2> QED
    BY <1>0, <1>5, <2>1 DEF CreateBegin, ChainTypes, flushVars
<1>6. ASSUME NEW c \in Calls, LockRejects(c) PROVE ChainTypes'
  <2>1. batch[c] \o buffer \in Seq(Records)
    BY <1>0, <1>6 DEF ChainTypes
  <2>2. faults' \in 0..MaxFaults /\ kinds' \subseteq FaultKinds \cup {"create"} /\ chainTail' \in Seq(Records)
    <3>1. UNCHANGED upsets \/ \E kind \in FaultKinds : Fault(kind)
      BY <1>6 DEF LockRejects, Fault, MayFail
    <3>2. chainTail' \in {chainTail, << >>}
      BY <1>6 DEF LockRejects
    <3> QED
      <4>1. chainTail' \in Seq(Records)
        BY <1>01, <3>2
      <4> QED
        BY <1>0, <3>1, <4>1, FaultTypes
  <2>3. /\ batch' = [batch EXCEPT ![c] = << >>] /\ step' = step /\ start' = start
        /\ nextRecord' = nextRecord /\ db' = db
        /\ buffer' \in {buffer, batch[c] \o buffer} /\ flushing' \in {flushing, None}
    BY <1>6 DEF LockRejects, Rejected, flushVars
  <2>4. batch' \in [Calls -> Seq(Records)] /\ buffer' \in Seq(Records) /\ flushing' \in Flushes \cup {None}
    <3>1. batch \in [Calls -> Seq(Records)] /\ buffer \in Seq(Records) /\ flushing \in Flushes \cup {None}
      BY <1>0 DEF ChainTypes
    <3> QED
      BY <1>01, <2>1, <2>3, <3>1
  <2> QED
    BY <1>0, <2>2, <2>3, <2>4 DEF ChainTypes
<1>7. ASSUME NEW c \in Calls, Abandoned(c) PROVE ChainTypes'
  <2>1. batch[c] \o buffer \in Seq(Records)
    BY <1>0, <1>7 DEF ChainTypes
  <2>2. faults' \in 0..MaxFaults /\ kinds' \subseteq FaultKinds \cup {"create"} /\ chainTail' \in Seq(Records)
    BY <1>0, <1>7 DEF Abandoned, Fault, MayFail, ChainTypes, upsets
  <2> QED
    BY <1>0, <1>7, <2>1, <2>2 DEF Abandoned, Rejected, ChainTypes, flushVars
<1>8. ASSUME NEW c \in Calls, FnStarts(c) PROVE ChainTypes'
  BY <1>0, <1>8 DEF FnStarts, ChainTypes, flushVars, upsets, Steps
<1>9. ASSUME NEW c \in Calls, TailRead(c) PROVE ChainTypes'
  BY <1>0, <1>9, LatestType DEF TailRead, ChainTypes, flushVars, upsets, Steps
<1>10. ASSUME NEW c \in Calls, FlushStored(c) PROVE ChainTypes'
  <2>1. /\ step' = [step EXCEPT ![c] = "none"] /\ batch' = [batch EXCEPT ![c] = << >>]
        /\ flushing' = None /\ buffer' \in Seq(Records)
    BY <1>0, <1>10, FlushEffect DEF FlushStored
  <2>2. ChainedFrom(start[c], batch[c]) \subseteq Seq(Records) \ {<< >>}
    BY <1>0, ChainedFacts DEF ChainTypes
  <2>3. chainTail' \in Seq(Records)
    <3>1. chainTail' \in {<< >>, chainTail, start[c] \o batch[c]}
      BY <1>10 DEF FlushStored, AdvanceChainTail
    <3> QED
      BY <1>00, <1>01, <3>1
  <2>4. step' \in [Calls -> Steps] /\ batch' \in [Calls -> Seq(Records)]
    BY <1>0, <2>1 DEF ChainTypes, Steps
  <2> QED
    BY <1>0, <1>10, <2>1, <2>2, <2>3, <2>4 DEF FlushStored, ChainTypes, upsets
<1>11. ASSUME NEW c \in Calls, FlushFails(c) PROVE ChainTypes'
  <2>1. PICK landed \in SUBSET (ToSet(batch[c]) \ Stored), stored \in SUBSET ToSet(batch[c]) :
           /\ FlushEnds(c, stored) /\ (pc[c] # "zombie" => LeaveFn(c))
           /\ db' = db \cup {h \in ChainedFrom(start[c], batch[c]) : Last(h) \in landed}
           /\ \/ UNCHANGED upsets
              \/ Fault("lostAck") \/ Fault("partial") \/ Fault("reject")
           /\ chainTail' \in {chainTail, << >>}
           /\ c \in Flushes /\ step[c] = "chained"
           /\ UNCHANGED <<nextRecord, start>>
    BY <1>11, FlushFailsEffect
  <2>2. /\ step' = [step EXCEPT ![c] = "none"] /\ batch' = [batch EXCEPT ![c] = << >>]
        /\ flushing' = None /\ buffer' \in Seq(Records)
    BY <2>1, FlushEffect
  <2>3. ChainedFrom(start[c], batch[c]) \subseteq Seq(Records) \ {<< >>}
    BY <1>0, ChainedFacts DEF ChainTypes
  <2>4. db' \subseteq Seq(Records) \ {<< >>}
    BY <1>0, <2>1, <2>3 DEF ChainTypes
  <2>5. faults' \in 0..MaxFaults /\ kinds' \subseteq FaultKinds \cup {"create"}
    <3>1. UNCHANGED upsets \/ \E kind \in FaultKinds : Fault(kind)
      BY <2>1 DEF Fault, MayFail
    <3> QED
      BY <1>0, <3>1, FaultTypes
  <2>6. step' \in [Calls -> Steps] /\ batch' \in [Calls -> Seq(Records)]
    BY <1>0, <2>2 DEF ChainTypes, Steps
  <2> QED
    BY <1>0, <2>1, <2>2, <2>4, <2>5, <2>6 DEF ChainTypes
<1>12. ASSUME NEW c \in Calls, CreateLeaves(c) PROVE ChainTypes'
  <2>1. chainTail' \in Seq(Records)
    BY <1>0, <1>12 DEF CreateLeaves, AdvanceChainTail, ChainTypes
  <2> QED
    BY <1>0, <1>12, <2>1 DEF CreateLeaves, ChainTypes, flushVars, upsets, Steps
<1>13. ASSUME NEW c \in Calls, ZombieCreateEnds(c) PROVE ChainTypes'
  BY <1>0, <1>13 DEF ZombieCreateEnds, ChainTypes, flushVars, upsets, Steps
<1>14. ASSUME NEW c \in Calls, CreateStored(c) \/ CreateFails(c) PROVE ChainTypes'
  <2>1. step[c] = "insert" /\ batch[c] # << >>
    BY <1>14 DEF CreateStored, CreateFails, CreateEnds, Base, CallInv
  <2>2. start[c] \o batch[c] \in Seq(Records) \ {<< >>}
    BY <1>0, <2>1 DEF ChainTypes
  <2>3. db' \subseteq Seq(Records) \ {<< >>} /\ chainTail' \in Seq(Records)
    BY <1>0, <1>14, <2>2 DEF CreateStored, CreateFails, ChainTypes
  <2>4. faults' \in 0..MaxFaults /\ kinds' \subseteq FaultKinds \cup {"create"}
    BY <1>0, <1>14 DEF CreateStored, CreateFails, Fault, MayFail, upsets, ChainTypes
  <2>5. /\ step' = [step EXCEPT ![c] = "none"] /\ batch' = [batch EXCEPT ![c] = << >>]
        /\ UNCHANGED <<nextRecord, buffer, flushing, start>>
    BY <1>14 DEF CreateStored, CreateFails, CreateEnds, flushVars
  <2>6. step' \in [Calls -> Steps] /\ batch' \in [Calls -> Seq(Records)]
    BY <1>0, <2>5 DEF ChainTypes, Steps
  <2> QED
    BY <1>0, <2>3, <2>4, <2>5, <2>6 DEF ChainTypes
<1> QED
  BY <1>1, <1>2, <1>3, <1>4, <1>5, <1>6, <1>7, <1>8, <1>9, <1>10, <1>11, <1>12, <1>13, <1>14 DEF ChainNext

-----------------------------------------------------------------------------
(* Every step keeps what is known of the calls *)

\* Each action moves a call and its fn together.
LEMMA CallStays ==
    ASSUME Base, [ChainNext]_allVars
    PROVE  CallInv'
<1>r. RedisReady = {FALSE} /\ ~RedisConfigured
  BY DEF Base, RedisReady
<1> USE <1>r
<1>0. ChainTypes /\ CallInv /\ TypeOK /\ OneInside /\ ZombieFenced /\ Creates \subseteq Calls /\ None \notin Calls
  BY ChainAssumption, LockAssumption DEF Base, LockInv
<1>1. CASE UNCHANGED allVars
  BY <1>0, <1>1 DEF allVars, chainVars, flushVars, callVars, vars, CallInv
<1>2. CASE Push
  BY <1>0, <1>2 DEF Push, callVars, vars, CallInv
<1>3. CASE Crash
  BY <1>0, <1>3 DEF Crash, CallInv
<1>4. ASSUME NEW c \in Calls, FlushBegin(c) PROVE CallInv'
  <2>1. PICK taken \in Seq(Records) : taken # << >> /\ batch' = [batch EXCEPT ![c] = taken]
    BY <1>0, <1>4, FlushBeginEffect DEF Base, RecordInv
  <2>2. /\ pc[c] = "idle" /\ step[c] = "none" /\ flushing = None /\ ~frozen /\ c \in Flushes
        /\ pc' = [pc EXCEPT ![c] = "waiting"] /\ flushing' = c
        /\ UNCHANGED <<step, frozen, stale>>
    BY <1>4 DEF FlushBegin, MayFlush, Call
  <2>3. \A d \in Flushes : pc[d] = "idle"
    BY <1>0, <2>2 DEF CallInv, ZombieFenced, Flushes
  <2> QED
    BY <1>0, <2>1, <2>2, <2>3 DEF CallInv, ChainTypes, TypeOK, Flushes
<1>5. ASSUME NEW c \in Calls, CreateBegin(c) PROVE CallInv'
  <2>1. /\ pc[c] = "idle" /\ step[c] = "none" /\ c \in Creates
        /\ pc' = [pc EXCEPT ![c] = "waiting"] /\ batch' = [batch EXCEPT ![c] = <<nextRecord>>]
        /\ UNCHANGED <<step, frozen, stale, flushing>> /\ <<nextRecord>> # << >>
    BY <1>5 DEF CreateBegin, Call, flushVars
  <2> QED
    BY <1>0, <2>1 DEF CallInv, ChainTypes, TypeOK, Flushes
<1>6. ASSUME NEW c \in Calls, LockRejects(c) PROVE CallInv'
  <2>1. /\ pc[c] = "waiting" /\ pc' = [pc EXCEPT ![c] = "idle"]
        /\ batch' = [batch EXCEPT ![c] = << >>] /\ UNCHANGED step
        /\ flushing' = IF c \in Flushes THEN None ELSE flushing
        /\ frozen' = TRUE
    <3>1. frozen' = TRUE /\ pc[c] = "waiting" /\ pc' = [pc EXCEPT ![c] = "idle"]
      BY <1>0, <1>6 DEF LockRejects, WaitTimeout, TurnedAway, TypeOK, FenceCheck
    <3>2. Rejected(c, FALSE)
      BY <1>6 DEF LockRejects
    <3> QED
      BY <3>1, <3>2 DEF Rejected, flushVars
  <2>2. \A d \in Flushes \ {c} : pc[d] \in {"waiting", "working"} => c \notin Flushes
    BY <1>0, <2>1 DEF CallInv, Flushes
  <2>3. step[c] = "none"
    BY <1>0, <2>1 DEF CallInv, ChainTypes, Steps
  <2> QED
    BY <1>0, <2>1, <2>2, <2>3 DEF CallInv, ChainTypes, TypeOK, Flushes
<1>7. ASSUME NEW c \in Calls, Abandoned(c) PROVE CallInv'
  <2>1. /\ pc[c] = "working" /\ pc' = [pc EXCEPT ![c] = "zombie"]
        /\ batch' = batch /\ UNCHANGED step
        /\ flushing' = IF c \in Flushes THEN None ELSE flushing
        /\ frozen'
    BY <1>0, <1>7 DEF Abandoned, HoldTimeout, Rejected, flushVars, TypeOK
  <2>2. \A d \in Flushes \ {c} : pc[d] \in {"waiting", "working"} => c \notin Flushes
    BY <1>0, <2>1 DEF CallInv, Flushes
  <2> QED
    BY <1>0, <2>1, <2>2 DEF CallInv, ChainTypes, TypeOK, Flushes
<1>8. ASSUME NEW c \in Calls, FnStarts(c) PROVE CallInv'
  <2>1. /\ pc[c] = "waiting" /\ pc' = [pc EXCEPT ![c] = "working"] /\ ~frozen
        /\ step' = [step EXCEPT ![c] = IF chainTailLoaded THEN "chained" ELSE "read"]
        /\ stale' = stale \ {c} /\ UNCHANGED <<batch, flushing, frozen>>
    BY <1>0, <1>8 DEF FnStarts, Enter, flushVars, FenceCheck
  <2> QED
    BY <1>0, <2>1 DEF CallInv, ChainTypes, TypeOK, Flushes
<1>9. ASSUME NEW c \in Calls, TailRead(c) PROVE CallInv'
  <2>1. /\ step[c] = "read" /\ step' = [step EXCEPT ![c] = "chained"]
        /\ UNCHANGED <<batch, flushing, frozen, stale, pc>>
    BY <1>0, <1>9 DEF TailRead, LoadTail, flushVars
  <2> QED
    BY <1>0, <2>1 DEF CallInv, ChainTypes, TypeOK
<1>10. ASSUME NEW c \in Calls, step[c] = "chained", NEW what \in {"none", "insert"},
              what = "insert" => c \in Creates,
              pc' = [pc EXCEPT ![c] = "idle"], step' = [step EXCEPT ![c] = what],
              batch' = [batch EXCEPT ![c] = IF what = "insert" THEN batch[c] ELSE << >>],
              stale' = stale \ {c}, frozen' = (frozen /\ pc[c] # "zombie"),
              flushing' = IF c \in Flushes THEN None ELSE flushing
       PROVE CallInv'
  <2>1. pc[c] \in {"working", "zombie"} /\ batch[c] # << >>
    BY <1>0, <1>10 DEF CallInv
  <2>2. \A d \in Calls \ {c} : pc[d] \notin {"working", "zombie"}
    BY <1>0, <2>1 DEF OneInside, Inside
  <2>3. \A d \in Flushes \ {c} : pc[d] = "waiting" => c \notin Flushes
    <3>1. c \in Flushes /\ pc[c] = "working" => flushing = c
      BY <1>0 DEF CallInv
    <3>2. c \in Flushes /\ pc[c] = "zombie" => flushing = None
      BY <1>0 DEF CallInv
    <3>3. \A d \in Flushes : pc[d] = "waiting" => flushing = d /\ d # None
      BY <1>0 DEF CallInv, Flushes
    <3> QED
      BY <2>1, <3>1, <3>2, <3>3
  <2> QED
    BY <1>0, <1>10, <2>1, <2>2, <2>3 DEF CallInv, ChainTypes, TypeOK, Flushes
<1>11. ASSUME NEW c \in Calls, FlushStored(c) PROVE CallInv'
  <2>1. /\ pc' = [pc EXCEPT ![c] = "idle"]
           /\ step' = [step EXCEPT ![c] = "none"]
           /\ batch' = [batch EXCEPT ![c] = << >>]
           /\ stale' = stale \ {c}
           /\ frozen' = (frozen /\ pc[c] # "zombie")
           /\ flushing' = None /\ c \in Flushes /\ step[c] = "chained"
    BY <1>0, <1>11, FlushEffect DEF FlushStored
  <2> QED
    BY <1>10, <2>1
<1>12. ASSUME NEW c \in Calls, FlushFails(c) PROVE CallInv'
  <2>0. PICK stored \in SUBSET ToSet(batch[c]) :
           /\ FlushEnds(c, stored) /\ (pc[c] # "zombie" => LeaveFn(c))
           /\ c \in Flushes /\ step[c] = "chained"
    BY <1>12, FlushFailsEffect
  <2>1. /\ pc' = [pc EXCEPT ![c] = "idle"]
           /\ step' = [step EXCEPT ![c] = "none"]
           /\ batch' = [batch EXCEPT ![c] = << >>]
           /\ stale' = stale \ {c}
           /\ frozen' = (frozen /\ pc[c] # "zombie")
           /\ flushing' = None
    BY <2>0, FlushEffect
  <2> QED
    BY <1>10, <2>0, <2>1
<1>13. ASSUME NEW c \in Calls, CreateLeaves(c) PROVE CallInv'
  <2>1. /\ pc' = [pc EXCEPT ![c] = "idle"] /\ step[c] = "chained" /\ pc[c] = "working"
        /\ step' = [step EXCEPT ![c] = "insert"] /\ batch' = batch
        /\ stale' = stale \ {c} /\ frozen' = frozen /\ UNCHANGED flushing /\ c \in Creates
    BY <1>13 DEF CreateLeaves, LeaveFn, flushVars
  <2>2. batch' = [batch EXCEPT ![c] = batch[c]] /\ c \notin Flushes /\ frozen \in BOOLEAN
    BY <1>0, <2>1 DEF ChainTypes, TypeOK, Flushes
  <2> QED
    BY <1>10, <2>1, <2>2
<1>14. ASSUME NEW c \in Calls, ZombieCreateEnds(c) PROVE CallInv'
  <2>1. /\ pc' = [pc EXCEPT ![c] = "idle"] /\ step[c] = "chained" /\ pc[c] = "zombie"
        /\ step' = [step EXCEPT ![c] = "none"] /\ batch' = [batch EXCEPT ![c] = << >>]
        /\ stale' = stale \ {c} /\ frozen' = FALSE /\ UNCHANGED flushing /\ c \in Creates
    BY <1>14 DEF ZombieCreateEnds, ZombieSettles, flushVars
  <2> QED
    BY <1>10, <2>1 DEF Flushes
<1>15. ASSUME NEW c \in Calls, CreateStored(c) \/ CreateFails(c) PROVE CallInv'
  <2>1. /\ step[c] = "insert" /\ c \in Creates
        /\ step' = [step EXCEPT ![c] = "none"] /\ batch' = [batch EXCEPT ![c] = << >>]
        /\ UNCHANGED <<pc, stale, frozen, flushing>>
    BY <1>15 DEF CreateStored, CreateFails, CreateEnds, vars, flushVars
  <2> QED
    BY <1>0, <2>1 DEF CallInv, ChainTypes, TypeOK
<1> QED
  BY <1>1, <1>2, <1>3, <1>4, <1>5, <1>6, <1>7, <1>8, <1>9, <1>11, <1>12, <1>13, <1>14, <1>15 DEF ChainNext

-----------------------------------------------------------------------------
(* Every step keeps what is known of the records *)

\* One call stores some of its batch, and may put the batch down.
LEMMA RecordsSettle ==
    ASSUME Base, NEW c \in Calls, NEW D \in SUBSET ChainedFrom(start[c], batch[c]),
           \A h \in D : Last(h) \notin Stored,
           db' = db \cup D, nextRecord' = nextRecord,
           Distinct(buffer'),
           ToSet(buffer') \subseteq ToSet(buffer) \cup (IF c \in Flushes THEN ToSet(batch[c]) ELSE {}),
           batch' = [batch EXCEPT ![c] = << >>] \/ (batch' = batch /\ D = {}),
           \A d \in Flushes : pc'[d] \in {"waiting", "working"} =>
               ToSet(buffer') \cap ToSet(batch[d]) = {}
    PROVE  RecordInv'
<1>0. RecordInv /\ batch \in [Calls -> Seq(Records)] /\ start \in [Calls -> Seq(Records)] /\ Created' = Created
  BY DEF Base, ChainTypes, Created
<1>1. /\ \A h \in ChainedFrom(start[c], batch[c]) : Last(h) \in ToSet(batch[c])
      /\ \A g, h \in ChainedFrom(start[c], batch[c]) : Last(g) = Last(h) => g = h
  BY <1>0, ChainedFacts DEF RecordInv
<1>2. Stored' = Stored \cup {Last(h) : h \in D}
  BY DEF Stored
<1>3. {Last(h) : h \in D} \subseteq ToSet(batch[c])
  BY <1>1
<1>4. \A d \in Calls : batch'[d] \in {batch[d], << >>}
  BY <1>0
<1>5. D # {} => batch'[c] = << >>
  BY <1>0
<1>6. ToSet(<< >>) = {} /\ Distinct(<< >>) /\ Len(<< >>) = 0
  BY DEF ToSet, Distinct
<1>7. \A d \in Calls : ToSet(batch'[d]) \subseteq ToSet(batch[d]) /\ Distinct(batch'[d])
  BY <1>0, <1>4, <1>6 DEF RecordInv
<1>8. StoredOnce'
  <2>1. \A g, h \in db : Last(g) = Last(h) => g = h
    BY <1>0 DEF RecordInv, StoredOnce
  <2>2. \A g \in db, h \in D : Last(g) # Last(h)
    BY DEF Stored
  <2> QED
    BY <1>1, <2>1, <2>2 DEF StoredOnce
<1>9. Stored' \subseteq Created /\ ToSet(buffer') \subseteq Created
      /\ \A d \in Calls : ToSet(batch'[d]) \subseteq Created
  BY <1>0, <1>2, <1>3, <1>7 DEF RecordInv
<1>10. ASSUME NEW d \in Creates
       PROVE  /\ Len(batch'[d]) <= 1
              /\ ToSet(batch'[d]) \cap (ToSet(buffer') \cup Stored') = {}
              /\ \A e \in Calls \ {d} : ToSet(batch'[d]) \cap ToSet(batch'[e]) = {}
  <2>0. d \in Calls
    BY ChainAssumption
  <2>1. Len(batch'[d]) <= 1
    BY <1>0, <1>4, <1>6, <2>0 DEF RecordInv
  <2>2. ToSet(batch'[d]) \cap ToSet(buffer') = {}
    <3>1. ToSet(batch[d]) \cap ToSet(buffer) = {}
      BY <1>0 DEF RecordInv
    <3>2. c \in Flushes => ToSet(batch[d]) \cap ToSet(batch[c]) = {}
      BY <1>0 DEF RecordInv, Flushes
    <3> QED
      BY <1>7, <2>0, <3>1, <3>2
  <2>3. ToSet(batch'[d]) \cap Stored' = {}
    <3>1. ToSet(batch[d]) \cap Stored = {}
      BY <1>0 DEF RecordInv
    <3>2. CASE D = {}
      BY <1>2, <1>7, <2>0, <3>1, <3>2
    <3>3. CASE D # {} /\ d = c
      BY <1>5, <1>6, <3>3
    <3>4. CASE D # {} /\ d # c
      <4>1. ToSet(batch[d]) \cap ToSet(batch[c]) = {}
        BY <1>0, <3>4 DEF RecordInv
      <4> QED
        BY <1>2, <1>3, <1>7, <2>0, <3>1, <4>1
    <3> QED
      BY <3>2, <3>3, <3>4
  <2>4. \A e \in Calls \ {d} : ToSet(batch'[d]) \cap ToSet(batch'[e]) = {}
    <3>1. \A e \in Calls \ {d} : ToSet(batch[d]) \cap ToSet(batch[e]) = {}
      BY <1>0 DEF RecordInv
    <3> QED
      BY <1>7, <2>0, <3>1
  <2> QED
    BY <2>1, <2>2, <2>3, <2>4
<1>11. ASSUME NEW d \in Flushes, pc'[d] \in {"waiting", "working"}
       PROVE  ToSet(batch'[d]) \cap ToSet(buffer') = {}
  <2>1. d \in Calls
    BY DEF Flushes
  <2>2. ToSet(buffer') \cap ToSet(batch[d]) = {}
    BY <1>11
  <2>3. ToSet(batch'[d]) \subseteq ToSet(batch[d])
    BY <1>7, <2>1
  <2> QED
    BY <2>2, <2>3
<1> QED
  BY <1>0, <1>7, <1>8, <1>9, <1>10, <1>11 DEF RecordInv

\* Two facts about lengths.
LEMMA SomeRecord ==
    ASSUME NEW s \in Seq(Records), s # << >>
    PROVE  Len(s) \in Nat /\ Len(s) # 0
OBVIOUS

\* The record of a create is one record.
LEMMA OneAtMost ==
    ASSUME NEW n \in Nat, n # 0, n <= 1
    PROVE  n = 1
OBVIOUS

\* A record nobody has seen.
LEMMA FreshRecord ==
    ASSUME ChainTypes, nextRecord <= MaxRecords, nextRecord' = nextRecord + 1
    PROVE  /\ nextRecord \in Records /\ nextRecord \notin Created
           /\ Created' = Created \cup {nextRecord}
           /\ ToSet(<<nextRecord>>) = {nextRecord} /\ Distinct(<<nextRecord>>)
           /\ <<nextRecord>> \in Seq(Records)
<1>1. nextRecord \in 1..MaxRecords /\ MaxRecords \in Nat
  BY ChainAssumption DEF ChainTypes
<1>2. Created' = Created \cup {nextRecord} /\ nextRecord \notin Created /\ nextRecord \in Records
  BY <1>1 DEF Created, Records
<1> QED
  BY <1>2 DEF ToSet, Distinct

\* Only one flush has not been abandoned.
LEMMA OneFlush ==
    ASSUME CallInv, NEW c \in Flushes, NEW d \in Flushes,
           pc[c] \in {"waiting", "working"} \/ (pc[c] = "zombie" /\ step[c] # "none"),
           pc[d] \in {"waiting", "working"}
    PROVE  c = d
BY LockAssumption DEF CallInv, Flushes

\* Each action moves records, but copies none into two places that can store it.
LEMMA RecordsStay ==
    ASSUME Base, [ChainNext]_allVars
    PROVE  RecordInv'
<1>r. RedisReady = {FALSE} /\ ~RedisConfigured
  BY DEF Base, RedisReady
<1> USE <1>r
<1>0. /\ ChainTypes /\ CallInv /\ TypeOK /\ OneInside /\ RecordInv /\ Creates \subseteq Calls /\ None \notin Calls
      /\ batch \in [Calls -> Seq(Records)] /\ start \in [Calls -> Seq(Records)]
      /\ buffer \in Seq(Records) /\ Distinct(buffer)
      /\ pc \in [Calls -> States] /\ step \in [Calls -> Steps]
  BY ChainAssumption, LockAssumption DEF Base, LockInv, RecordInv, ChainTypes, TypeOK
<1>00. CallInv' /\ pc' \in [Calls -> States]
  BY CallStays, LockStep DEF Base, LockInv, TypeOK
<1>01. \A c \in Calls : {} \in SUBSET ChainedFrom(start[c], batch[c]) /\ db = db \cup {}
  OBVIOUS
<1>02. \A c \in Flushes : pc[c] \in {"waiting", "working"} => ToSet(batch[c]) \cap ToSet(buffer) = {}
  BY <1>0 DEF RecordInv
<1>1. CASE UNCHANGED allVars
  BY <1>0, <1>1 DEF allVars, chainVars, flushVars, callVars, vars, RecordInv, Created, Stored, StoredOnce
<1>2. CASE Push
  <2>1. /\ nextRecord' = nextRecord + 1 /\ nextRecord <= MaxRecords /\ buffer' = Append(buffer, nextRecord)
        /\ UNCHANGED <<pc, batch, db>>
    BY <1>2 DEF Push, vars, callVars
  <2>2. buffer' = buffer \o <<nextRecord>>
    BY <1>0, <2>1
  <2>3. Distinct(buffer') /\ ToSet(buffer') = ToSet(buffer) \cup {nextRecord}
    <3>1. /\ ToSet(<<nextRecord>>) = {nextRecord} /\ Distinct(<<nextRecord>>)
          /\ <<nextRecord>> \in Seq(Records) /\ nextRecord \notin Created
      BY <1>0, <2>1, FreshRecord
    <3>2. ToSet(buffer) \cap ToSet(<<nextRecord>>) = {}
      BY <1>0, <3>1 DEF RecordInv
    <3>3. Distinct(buffer')
      BY <1>0, <2>2, <3>1, <3>2, DistinctConcat
    <3>4. ToSet(buffer') = ToSet(buffer) \cup ToSet(<<nextRecord>>)
      BY <1>0, <2>2, <3>1, ConcatRecords
    <3> QED
      BY <3>1, <3>3, <3>4
  <2>4. /\ ToSet(buffer') \subseteq Created' /\ Stored' \subseteq Created' /\ nextRecord \notin Created
        /\ \A c \in Calls : ToSet(batch[c]) \subseteq Created /\ ToSet(batch[c]) \subseteq Created'
    BY <1>0, <2>1, <2>3, FreshRecord DEF RecordInv, Stored
  <2>5. \A c \in Flushes : pc'[c] \in {"waiting", "working"} => ToSet(batch'[c]) \cap ToSet(buffer') = {}
    BY <1>02, <2>1, <2>3, <2>4 DEF Flushes
  <2>6. ASSUME NEW c \in Creates
        PROVE  ToSet(batch'[c]) \cap (ToSet(buffer') \cup Stored') = {}
    <3>1. ToSet(batch[c]) \cap (ToSet(buffer) \cup Stored) = {}
      BY <1>0 DEF RecordInv
    <3>2. nextRecord \notin ToSet(batch[c])
      BY <1>0, <2>4
    <3>3. Stored' = Stored
      BY <2>1 DEF Stored
    <3> QED
      BY <2>1, <2>3, <3>1, <3>2, <3>3
  <2> QED
    BY <1>0, <2>1, <2>3, <2>4, <2>5, <2>6 DEF RecordInv, StoredOnce
<1>3. CASE Crash
  <2>1. Distinct(buffer') /\ ToSet(buffer') \subseteq ToSet(buffer) \cup UNION {ToSet(batch[c]) : c \in Flushes}
    BY <1>3, CrashEffect
  <2>2. PICK landed \in SUBSET UNION {ChainedFrom(start[c], batch[c]) :
                     c \in {d \in Calls : step[d] \in {"chained", "insert"}}} :
                db' = db \cup landed /\ \A h \in landed : Last(h) \notin Stored
    BY <1>3, CrashEffect
  <2>3. batch' = [c \in Calls |-> << >>] /\ pc' = [c \in Calls |-> "idle"] /\ nextRecord' = nextRecord
    BY <1>3 DEF Crash
  <2>4. Created' = Created
    BY <2>3 DEF Created
  <2>5. ASSUME NEW c \in Calls
        PROVE  /\ \A h \in ChainedFrom(start[c], batch[c]) : Last(h) \in ToSet(batch[c])
               /\ \A g, h \in ChainedFrom(start[c], batch[c]) : Last(g) = Last(h) => g = h
               /\ ToSet(batch[c]) \subseteq Created
    BY <1>0, ChainedFacts DEF RecordInv
  <2>6. ASSUME NEW c \in Calls, NEW d \in Calls, step[c] \in {"chained", "insert"},
               step[d] \in {"chained", "insert"}, ToSet(batch[c]) \cap ToSet(batch[d]) # {}
        PROVE  c = d
    <3>1. CASE c \in Creates \/ d \in Creates
      BY <1>0, <2>6, <3>1 DEF RecordInv
    <3>2. CASE c \notin Creates /\ d \notin Creates
      BY <1>0, <2>6, <3>2 DEF CallInv, OneInside, Inside
    <3> QED
      BY <3>1, <3>2
  <2>7. StoredOnce'
    <3>1. ASSUME NEW g \in landed, NEW h \in landed, Last(g) = Last(h) PROVE g = h
      <4>1. PICK c \in Calls : step[c] \in {"chained", "insert"} /\ g \in ChainedFrom(start[c], batch[c])
        BY <2>2
      <4>2. PICK d \in Calls : step[d] \in {"chained", "insert"} /\ h \in ChainedFrom(start[d], batch[d])
        BY <2>2
      <4>3. c = d
        BY <2>5, <2>6, <3>1, <4>1, <4>2
      <4> QED
        BY <2>5, <3>1, <4>1, <4>2, <4>3
    <3>2. \A g, h \in db : Last(g) = Last(h) => g = h
      BY <1>0 DEF RecordInv, StoredOnce
    <3>3. \A g \in db, h \in landed : Last(g) # Last(h)
      BY <2>2 DEF Stored
    <3> QED
      BY <2>2, <3>1, <3>2, <3>3 DEF StoredOnce
  <2>8. Stored' \subseteq Created'
    <3>1. \A h \in landed : Last(h) \in Created
      BY <2>2, <2>5
    <3>2. \A h \in db : Last(h) \in Created
      BY <1>0 DEF RecordInv, Stored
    <3> QED
      BY <2>2, <2>4, <3>1, <3>2 DEF Stored
  <2>9. ToSet(buffer') \subseteq Created'
    BY <1>0, <2>1, <2>4 DEF RecordInv, Flushes
  <2>10. ToSet(<< >>) = {} /\ Distinct(<< >>) /\ Len(<< >>) = 0
    BY DEF ToSet, Distinct
  <2> QED
    BY <1>0, <2>1, <2>3, <2>7, <2>8, <2>9, <2>10 DEF RecordInv, Flushes
<1>4. ASSUME NEW c \in Calls, FlushBegin(c) PROVE RecordInv'
  <2>1. PICK taken \in Seq(Records), rest \in Seq(Records) :
             /\ taken # << >> /\ Distinct(taken) /\ Distinct(rest)
             /\ ToSet(taken) \cap ToSet(rest) = {}
             /\ ToSet(taken) \cup ToSet(rest) \subseteq ToSet(buffer)
             /\ batch' = [batch EXCEPT ![c] = taken] /\ buffer' = rest
    BY <1>0, <1>4, FlushBeginEffect
  <2>2. c \in Flushes /\ flushing' = c /\ UNCHANGED <<nextRecord, db>>
    BY <1>4 DEF FlushBegin
  <2>3. \A d \in Flushes : pc'[d] \in {"waiting", "working"} => d = c
    BY <1>00, <2>2 DEF CallInv, Flushes
  <2>4. Created' = Created /\ Stored' = Stored /\ StoredOnce' /\ Stored \subseteq Created
    BY <1>0, <2>2 DEF Created, Stored, StoredOnce, RecordInv
  <2>5. ToSet(buffer') \subseteq Created /\ \A d \in Calls : Distinct(batch'[d]) /\ ToSet(batch'[d]) \subseteq Created
    BY <1>0, <2>1 DEF RecordInv
  <2>6. \A d \in Creates : d # c /\ d \in Calls /\ batch'[d] = batch[d]
    BY <1>0, <2>1, <2>2 DEF Flushes
  <2>7. ASSUME NEW d \in Creates
        PROVE  /\ Len(batch'[d]) <= 1
               /\ ToSet(batch'[d]) \cap (ToSet(buffer') \cup Stored') = {}
               /\ \A e \in Calls \ {d} : ToSet(batch'[d]) \cap ToSet(batch'[e]) = {}
    <3>1. Len(batch[d]) <= 1 /\ ToSet(batch[d]) \cap (ToSet(buffer) \cup Stored) = {}
          /\ \A e \in Calls \ {d} : ToSet(batch[d]) \cap ToSet(batch[e]) = {}
      BY <1>0 DEF RecordInv
    <3> QED
      BY <1>0, <2>1, <2>4, <2>6, <3>1
  <2>8. \A d \in Flushes : pc'[d] \in {"waiting", "working"} => ToSet(batch'[d]) \cap ToSet(buffer') = {}
    BY <1>0, <2>1, <2>3
  <2> QED
    BY <2>1, <2>4, <2>5, <2>7, <2>8 DEF RecordInv
<1>5. ASSUME NEW c \in Calls, CreateBegin(c) PROVE RecordInv'
  <2>1. /\ c \in Creates /\ nextRecord <= MaxRecords /\ nextRecord' = nextRecord + 1
        /\ batch' = [batch EXCEPT ![c] = <<nextRecord>>] /\ UNCHANGED <<buffer, db>>
        /\ pc' = [pc EXCEPT ![c] = "waiting"]
    BY <1>5 DEF CreateBegin, flushVars, Call
  <2>2. /\ nextRecord \in Records /\ nextRecord \notin Created
        /\ Created' = Created \cup {nextRecord}
        /\ ToSet(<<nextRecord>>) = {nextRecord} /\ Distinct(<<nextRecord>>) /\ Len(<<nextRecord>>) = 1
    BY <1>0, <2>1, FreshRecord
  <2>3. Stored' = Stored /\ StoredOnce' /\ Stored \subseteq Created
    BY <1>0, <2>1 DEF Stored, StoredOnce, RecordInv
  <2>4. \A d \in Calls : ToSet(batch[d]) \subseteq Created /\ Distinct(batch[d])
    BY <1>0 DEF RecordInv
  <2>5. \A d \in Calls : Distinct(batch'[d]) /\ ToSet(batch'[d]) \subseteq Created'
    BY <1>0, <2>1, <2>2, <2>4
  <2>6. ASSUME NEW d \in Creates
        PROVE  /\ Len(batch'[d]) <= 1
               /\ ToSet(batch'[d]) \cap (ToSet(buffer') \cup Stored') = {}
               /\ \A e \in Calls \ {d} : ToSet(batch'[d]) \cap ToSet(batch'[e]) = {}
    <3>1. Len(batch[d]) <= 1 /\ ToSet(batch[d]) \cap (ToSet(buffer) \cup Stored) = {}
          /\ \A e \in Calls \ {d} : ToSet(batch[d]) \cap ToSet(batch[e]) = {}
      BY <1>0 DEF RecordInv
    <3>2. ToSet(buffer) \subseteq Created /\ d \in Calls
      BY <1>0 DEF RecordInv
    <3>3. CASE d = c
      <4>1. batch'[d] = <<nextRecord>> /\ \A e \in Calls \ {d} : batch'[e] = batch[e]
        BY <1>0, <2>1, <3>3
      <4> QED
        BY <2>1, <2>2, <2>3, <2>4, <3>2, <4>1
    <3>4. CASE d # c
      <4>1. batch'[d] = batch[d] /\ \A e \in Calls \ {d} : ToSet(batch'[e]) \subseteq ToSet(batch[e]) \cup {nextRecord}
        BY <1>0, <2>1, <2>2, <3>2, <3>4
      <4>2. nextRecord \notin ToSet(batch[d])
        BY <2>2, <2>4, <3>2
      <4> QED
        BY <2>1, <2>3, <3>1, <4>1, <4>2
    <3> QED
      BY <3>3, <3>4
  <2>7. \A d \in Flushes : d # c /\ d \in Calls /\ pc'[d] = pc[d] /\ batch'[d] = batch[d]
    BY <1>0, <2>1 DEF Flushes
  <2>8. \A d \in Flushes : pc'[d] \in {"waiting", "working"} => ToSet(batch'[d]) \cap ToSet(buffer') = {}
    BY <1>02, <2>1, <2>7
  <2>9. ToSet(buffer') \subseteq Created' /\ Distinct(buffer') /\ Stored' \subseteq Created'
    BY <1>0, <2>1, <2>2, <2>3 DEF RecordInv
  <2> QED
    BY <2>3, <2>5, <2>6, <2>8, <2>9 DEF RecordInv
<1>6. ASSUME NEW c \in Calls, NEW abandoned \in BOOLEAN, Rejected(c, abandoned),
             pc[c] \in {"waiting", "working"}, pc'[c] \notin {"waiting", "working"},
             \A d \in Calls \ {c} : pc'[d] = pc[d], UNCHANGED <<nextRecord, db>>
      PROVE  RecordInv'
  <2>1. batch' = [batch EXCEPT ![c] = << >>] \/ batch' = batch
    BY <1>6 DEF Rejected
  <2>2. CASE c \in Flushes
    <3>1. buffer' = batch[c] \o buffer /\ ToSet(batch[c]) \cap ToSet(buffer) = {} /\ Distinct(batch[c])
      BY <1>0, <1>6, <2>2 DEF Rejected, RecordInv
    <3>2. Distinct(buffer') /\ ToSet(buffer') = ToSet(batch[c]) \cup ToSet(buffer)
      BY <1>0, <3>1, ConcatRecords, DistinctConcat
    <3>3. \A d \in Flushes : pc'[d] \notin {"waiting", "working"}
      BY <1>0, <1>6, <2>2, OneFlush DEF Flushes
    <3> QED
      BY <1>01, <1>6, <2>1, <2>2, <3>2, <3>3, RecordsSettle
  <2>3. CASE c \notin Flushes
    <3>1. buffer' = buffer
      BY <1>6, <2>3 DEF Rejected, flushVars
    <3>2. \A d \in Flushes : pc'[d] \in {"waiting", "working"} => ToSet(buffer') \cap ToSet(batch[d]) = {}
      BY <1>02, <1>6, <2>3, <3>1 DEF Flushes
    <3> QED
      BY <1>0, <1>01, <1>6, <2>1, <2>3, <3>1, <3>2, RecordsSettle
  <2> QED
    BY <2>2, <2>3
<1>7. ASSUME NEW c \in Calls, LockRejects(c) PROVE RecordInv'
  <2>1. /\ Rejected(c, FALSE) /\ pc[c] = "waiting" /\ pc' = [pc EXCEPT ![c] = "idle"] /\ UNCHANGED <<nextRecord, db>>
    BY <1>7 DEF LockRejects, WaitTimeout, TurnedAway
  <2>2. pc'[c] = "idle" /\ \A d \in Calls \ {c} : pc'[d] = pc[d]
    BY <1>0, <2>1
  <2> QED
    BY <1>6, <2>1, <2>2
<1>8. ASSUME NEW c \in Calls, Abandoned(c) PROVE RecordInv'
  <2>1. /\ Rejected(c, TRUE) /\ pc[c] = "working" /\ pc' = [pc EXCEPT ![c] = "zombie"] /\ UNCHANGED <<nextRecord, db>>
    BY <1>8 DEF Abandoned, HoldTimeout
  <2>2. pc'[c] = "zombie" /\ \A d \in Calls \ {c} : pc'[d] = pc[d]
    BY <1>0, <2>1
  <2> QED
    BY <1>6, <2>1, <2>2
<1>9. ASSUME NEW c \in Calls, FnStarts(c) \/ TailRead(c) \/ CreateLeaves(c) PROVE RecordInv'
  <2>1. UNCHANGED <<buffer, batch, nextRecord, db>>
    BY <1>9 DEF FnStarts, TailRead, CreateLeaves, flushVars
  <2>2. \A d \in Calls : pc'[d] \in {"waiting", "working"} => pc[d] \in {"waiting", "working"}
    BY <1>0, <1>9 DEF FnStarts, Enter, TailRead, LoadTail, CreateLeaves, LeaveFn
  <2>3. \A d \in Flushes : pc'[d] \in {"waiting", "working"} => ToSet(buffer') \cap ToSet(batch[d]) = {}
    BY <1>02, <2>1, <2>2 DEF Flushes
  <2>4. Distinct(buffer') /\ ToSet(buffer') \subseteq ToSet(buffer) \cup (IF c \in Flushes THEN ToSet(batch[c]) ELSE {})
    BY <1>0, <2>1
  <2> QED
    BY <1>01, <2>1, <2>3, <2>4, RecordsSettle
<1>10. ASSUME NEW c \in Calls, ZombieCreateEnds(c) PROVE RecordInv'
  <2>1. UNCHANGED <<buffer, nextRecord, db>> /\ batch' = [batch EXCEPT ![c] = << >>]
        /\ pc' = [pc EXCEPT ![c] = "idle"]
    BY <1>10 DEF ZombieCreateEnds, ZombieSettles, flushVars
  <2>2. \A d \in Flushes : pc'[d] \in {"waiting", "working"} => ToSet(buffer') \cap ToSet(batch[d]) = {}
    BY <1>0, <1>02, <2>1 DEF Flushes
  <2>3. Distinct(buffer') /\ ToSet(buffer') \subseteq ToSet(buffer) \cup (IF c \in Flushes THEN ToSet(batch[c]) ELSE {})
    BY <1>0, <2>1
  <2> QED
    BY <1>01, <2>1, <2>2, <2>3, RecordsSettle
<1>11. ASSUME NEW c \in Calls, CreateStored(c) \/ CreateFails(c) PROVE RecordInv'
  <2>1. /\ c \in Creates /\ step[c] = "insert" /\ batch' = [batch EXCEPT ![c] = << >>]
        /\ UNCHANGED <<pc, buffer, nextRecord>> /\ (db' = db \/ db' = db \cup {start[c] \o batch[c]})
    BY <1>11 DEF CreateStored, CreateFails, CreateEnds, vars, flushVars
  <2>2. Len(batch[c]) = 1
    <3>1. batch[c] # << >> /\ Len(batch[c]) <= 1 /\ batch[c] \in Seq(Records)
      BY <1>0, <2>1 DEF CallInv, RecordInv
    <3> QED
      BY <3>1, SomeRecord, OneAtMost
  <2>3. ChainedFrom(start[c], batch[c]) = {start[c] \o batch[c]}
    BY <1>0, <2>2, ChainedFacts
  <2>4. Last(start[c] \o batch[c]) \notin Stored
    <3>1. Last(start[c] \o batch[c]) \in ToSet(batch[c])
      BY <1>0, <2>3, ChainedFacts
    <3> QED
      BY <1>0, <2>1, <3>1 DEF RecordInv
  <2>5. \A d \in Flushes : pc'[d] \in {"waiting", "working"} => ToSet(buffer') \cap ToSet(batch[d]) = {}
    BY <1>02, <2>1 DEF Flushes
  <2>6. Distinct(buffer') /\ ToSet(buffer') \subseteq ToSet(buffer) \cup (IF c \in Flushes THEN ToSet(batch[c]) ELSE {})
    BY <1>0, <2>1
  <2>7. CASE db' = db
    BY <1>01, <2>1, <2>5, <2>6, <2>7, RecordsSettle
  <2>8. CASE db' = db \cup {start[c] \o batch[c]}
    BY <2>1, <2>3, <2>4, <2>5, <2>6, <2>8, RecordsSettle
  <2> QED
    BY <2>1, <2>7, <2>8
<1>12. ASSUME NEW c \in Flushes, step[c] = "chained", NEW stored \in SUBSET ToSet(batch[c]), FlushEnds(c, stored),
              pc[c] # "zombie" => LeaveFn(c), nextRecord' = nextRecord,
              NEW D \in SUBSET ChainedFrom(start[c], batch[c]),
              \A h \in D : Last(h) \notin Stored, db' = db \cup D
       PROVE  RecordInv'
  <2>1. /\ pc' = [pc EXCEPT ![c] = "idle"] /\ batch' = [batch EXCEPT ![c] = << >>]
        /\ flushing' = None /\ Distinct(buffer')
        /\ ToSet(buffer') \subseteq (ToSet(buffer) \cup ToSet(batch[c])) \ stored
    BY <1>12, FlushEffect
  <2>2. \A d \in Flushes : pc'[d] \notin {"waiting", "working"}
    BY <1>0, <1>00, <2>1 DEF CallInv, Flushes
  <2>3. c \in Calls
    BY DEF Flushes
  <2> QED
    BY <1>12, <2>1, <2>2, <2>3, RecordsSettle
<1>13. ASSUME NEW c \in Calls, FlushStored(c) PROVE RecordInv'
  <2>1. /\ c \in Flushes /\ step[c] = "chained" /\ FlushEnds(c, ToSet(batch[c])) /\ (pc[c] # "zombie" => LeaveFn(c))
        /\ nextRecord' = nextRecord /\ db' = db \cup ChainedFrom(start[c], batch[c])
        /\ ToSet(batch[c]) \cap Stored = {}
    BY <1>13 DEF FlushStored
  <2>2. \A h \in ChainedFrom(start[c], batch[c]) : Last(h) \notin Stored
    BY <1>0, <2>1, ChainedFacts
  <2> QED
    BY <1>12, <2>1, <2>2
<1>14. ASSUME NEW c \in Calls, FlushFails(c) PROVE RecordInv'
  <2>1. PICK landed \in SUBSET (ToSet(batch[c]) \ Stored), stored \in SUBSET ToSet(batch[c]) :
             /\ FlushEnds(c, stored) /\ (pc[c] # "zombie" => LeaveFn(c))
             /\ db' = db \cup {h \in ChainedFrom(start[c], batch[c]) : Last(h) \in landed}
             /\ c \in Flushes /\ step[c] = "chained" /\ nextRecord' = nextRecord
    BY <1>14, FlushFailsEffect
  <2> DEFINE D == {h \in ChainedFrom(start[c], batch[c]) : Last(h) \in landed}
  <2>2. D \in SUBSET ChainedFrom(start[c], batch[c]) /\ \A h \in D : Last(h) \notin Stored
    OBVIOUS
  <2>3. db' = db \cup D
    BY <2>1
  <2> HIDE DEF D
  <2> QED
    BY <1>12, <2>1, <2>2, <2>3
<1> QED
  BY <1>1, <1>2, <1>3, <1>4, <1>5, <1>7, <1>8, <1>9, <1>10, <1>11, <1>13, <1>14 DEF ChainNext

-----------------------------------------------------------------------------
(* What has not happened yet *)

\* Without a fault there is no fence, no zombie and no tail to be read again; and
\* without a create every call is a flush.
RegimeInv ==
    /\ kinds \subseteq {"create"} =>
          /\ ~frozen /\ stale = {}
          /\ \A c \in Calls : /\ pc[c] # "zombie"
                              /\ step[c] = "chained" => chainTailLoaded
    /\ "create" \notin kinds =>
          \A c \in Creates : pc[c] = "idle" /\ step[c] = "none"

\* What an action adds to the history.
LEMMA UpsetsGrow ==
    ASSUME ChainTypes, [ChainNext]_allVars
    PROVE  \/ UNCHANGED upsets
           \/ \E c \in Creates : CreateBegin(c)
           \/ \E kind \in FaultKinds \cap {"timeout", "reject", "partial", "lostAck", "crash"} :
                  Fault(kind)
<1>1. CASE UNCHANGED allVars
  BY <1>1 DEF allVars, chainVars
<1>2. CASE Push
  BY <1>2 DEF Push
<1>3. CASE Crash
  BY <1>3 DEF Crash, Fault, MayFail
<1>4. ASSUME NEW c \in Calls, FlushBegin(c) \/ FnStarts(c) \/ TailRead(c) \/ FlushStored(c)
                              \/ CreateLeaves(c) \/ ZombieCreateEnds(c) \/ CreateStored(c)
      PROVE  UNCHANGED upsets
  BY <1>4 DEF FlushBegin, FnStarts, TailRead, FlushStored, CreateLeaves, ZombieCreateEnds, CreateStored
<1>5. ASSUME NEW c \in Calls, LockRejects(c) \/ Abandoned(c)
      PROVE  UNCHANGED upsets \/ \E kind \in FaultKinds \cap {"timeout"} : Fault(kind)
  BY <1>5 DEF LockRejects, Abandoned, Fault, MayFail
<1>6. ASSUME NEW c \in Calls, FlushFails(c)
      PROVE  UNCHANGED upsets \/ \E kind \in FaultKinds \cap {"reject", "partial", "lostAck"} : Fault(kind)
  <2> DEFINE what(landed, told, stored) == IF ~told /\ landed # {} THEN "lostAck"
                               ELSE IF stored = {} THEN "reject" ELSE "partial"
  <2>1. UNCHANGED upsets \/ \E landed, told, stored : Fault(what(landed, told, stored))
    BY <1>6 DEF FlushFails
  <2>2. \A landed, told, stored : what(landed, told, stored) \in {"reject", "partial", "lostAck"}
    OBVIOUS
  <2> HIDE DEF what
  <2> QED
    BY <2>1, <2>2 DEF Fault, MayFail
<1>7. ASSUME NEW c \in Calls, CreateFails(c)
      PROVE  \E kind \in FaultKinds \cap {"reject", "lostAck"} : Fault(kind)
  BY <1>7 DEF CreateFails, Fault, MayFail
<1>8. ASSUME NEW c \in Calls, CreateBegin(c) PROVE c \in Creates
  BY <1>8 DEF CreateBegin
<1> QED
  BY <1>1, <1>2, <1>3, <1>4, <1>5, <1>6, <1>7, <1>8 DEF ChainNext

\* What has happened stays in the history, so that no chain becomes undisturbed again.
LEMMA KindsGrow ==
    ASSUME ChainTypes, [ChainNext]_allVars
    PROVE  /\ kinds \subseteq kinds'
           /\ Undisturbed' => Undisturbed
<1>1. kinds \subseteq kinds'
  BY UpsetsGrow DEF upsets, CreateBegin, Fault
<1> QED
  BY <1>1, UpsetsGrow DEF Undisturbed, Fault

\* Under fault-free conditions nothing counts as a fault.
LEMMA FaultFree ==
    ASSUME ChainTypes, NEW kind \in {"timeout", "reject", "partial", "lostAck", "crash"}, Fault(kind)
    PROVE  ~(kinds' \subseteq {"create"})
BY DEF Fault

\* Only a fault closes the fence, makes a zombie or has the tail read again under a fn.
LEMMA RegimeStays ==
    ASSUME Base, RegimeInv, [ChainNext]_allVars
    PROVE  RegimeInv'
<1>r. RedisReady = {FALSE} /\ ~RedisConfigured
  BY DEF Base, RedisReady
<1> USE <1>r
<1>0. /\ ChainTypes /\ CallInv /\ TypeOK /\ OneInside /\ ZombieFenced /\ Creates \subseteq Calls
      /\ pc \in [Calls -> States] /\ step \in [Calls -> Steps]
  BY ChainAssumption DEF Base, LockInv, ChainTypes, TypeOK
<1>00. CallInv' /\ kinds \subseteq kinds' /\ step' \in [Calls -> Steps]
  BY <1>0, CallStays, KindsGrow, TypesStep DEF ChainTypes
<1>1. ASSUME "create" \notin kinds' PROVE \A c \in Creates : pc'[c] = "idle" /\ step'[c] = "none"
  <2>1. \A d \in Creates : pc[d] = "idle" /\ step[d] = "none"
    BY <1>00, <1>1 DEF RegimeInv
  <2>2. CASE UNCHANGED allVars
    BY <2>1, <2>2 DEF allVars, vars, chainVars, callVars
  <2>3. CASE Push
    BY <2>1, <2>3 DEF Push, vars, callVars
  <2>4. CASE Crash
    BY <1>0, <2>4 DEF Crash
  <2>5. ASSUME NEW c \in Calls, CreateBegin(c) PROVE FALSE
    BY <1>1, <2>5 DEF CreateBegin
  <2>6. ASSUME NEW c \in Calls, FlushBegin(c) PROVE \A d \in Creates : pc'[d] = "idle" /\ step'[d] = "none"
    BY <1>0, <2>1, <2>6 DEF FlushBegin, Flushes, Call
  <2>7. ASSUME NEW c \in Calls, LockRejects(c) \/ Abandoned(c) \/ FnStarts(c) PROVE \A d \in Creates : pc'[d] = "idle" /\ step'[d] = "none"
    <3>1. pc[c] # "idle"
      BY <2>7 DEF LockRejects, Abandoned, FnStarts, WaitTimeout, TurnedAway, HoldTimeout, Enter
    <3>2. \A d \in Calls \ {c} : pc'[d] = pc[d] /\ step'[d] = step[d]
      BY <1>0, <2>7 DEF LockRejects, Abandoned, FnStarts, WaitTimeout, TurnedAway, HoldTimeout, Enter, Rejected
    <3> QED
      BY <1>0, <2>1, <3>1, <3>2
  <2>8. ASSUME NEW c \in Calls, TailRead(c) \/ FlushStored(c) PROVE \A d \in Creates : pc'[d] = "idle" /\ step'[d] = "none"
    <3>1. step[c] # "none"
      BY <2>8 DEF TailRead, FlushStored
    <3>2. \A d \in Calls \ {c} : pc'[d] = pc[d] /\ step'[d] = step[d]
      BY <1>0, <2>8 DEF TailRead, FlushStored, LoadTail, FlushEnds, LeaveFn, ZombieSettles
    <3> QED
      BY <1>0, <2>1, <3>1, <3>2
  <2>9. ASSUME NEW c \in Calls, FlushFails(c) PROVE \A d \in Creates : pc'[d] = "idle" /\ step'[d] = "none"
    <3>1. step[c] # "none" /\ \E stored \in SUBSET ToSet(batch[c]) : FlushEnds(c, stored) /\ (pc[c] # "zombie" => LeaveFn(c))
      BY <2>9, FlushFailsEffect
    <3>2. \A d \in Calls \ {c} : pc'[d] = pc[d] /\ step'[d] = step[d]
      BY <1>0, <3>1 DEF FlushEnds, LeaveFn, ZombieSettles
    <3> QED
      BY <1>0, <2>1, <3>1, <3>2
  <2>10. ASSUME NEW c \in Calls, CreateLeaves(c) \/ ZombieCreateEnds(c) \/ CreateStored(c) \/ CreateFails(c) PROVE FALSE
    BY <2>1, <2>10 DEF CreateLeaves, ZombieCreateEnds, CreateStored, CreateFails, CreateEnds
  <2> QED
    BY <2>2, <2>3, <2>4, <2>5, <2>6, <2>7, <2>8, <2>9, <2>10 DEF ChainNext
<1>2. ASSUME kinds' \subseteq {"create"}
      PROVE  /\ ~frozen' /\ stale' = {}
             /\ \A c \in Calls : pc'[c] # "zombie" /\ (step'[c] = "chained" => chainTailLoaded')
  <2>1. /\ ~frozen /\ stale = {}
        /\ \A c \in Calls : pc[c] # "zombie" /\ (step[c] = "chained" => chainTailLoaded)
    BY <1>00, <1>2 DEF RegimeInv
  <2> DEFINE Goal == /\ ~frozen' /\ stale' = {}
             /\ \A c \in Calls : pc'[c] # "zombie" /\ (step'[c] = "chained" => chainTailLoaded')
  <2>2. CASE UNCHANGED allVars
    BY <2>1, <2>2 DEF allVars, vars, chainVars, callVars
  <2>3. CASE Push
    BY <2>1, <2>3 DEF Push, vars, callVars
  <2>4. CASE Crash
    BY <1>0, <1>2, <2>4, FaultFree DEF Crash
  <2>5. ASSUME NEW c \in Calls, FlushBegin(c) \/ CreateBegin(c) PROVE Goal
    BY <1>0, <2>1, <2>5 DEF FlushBegin, CreateBegin, Call, tailVars
  <2>6. ASSUME NEW c \in Calls, LockRejects(c) \/ Abandoned(c) PROVE Goal
    BY <1>0, <1>2, <2>1, <2>6, FaultFree DEF LockRejects, Abandoned, TurnedAway, FenceCheck
  <2>7. ASSUME NEW c \in Calls, FnStarts(c) PROVE Goal
    BY <1>0, <2>1, <2>7 DEF FnStarts, Enter, tailVars
  <2>8. ASSUME NEW c \in Calls, TailRead(c) PROVE Goal
    BY <1>0, <2>1, <2>8 DEF TailRead, LoadTail
  <2>9. ASSUME NEW c \in Calls, NEW what \in {"none", "insert"}, step[c] = "chained", LeaveFn(c),
               step' = [step EXCEPT ![c] = what] PROVE Goal
    <3>1. \A d \in Calls : step'[d] # "chained"
      BY <1>0, <2>9 DEF CallInv, OneInside, Inside
    <3> QED
      BY <1>0, <2>1, <2>9, <3>1 DEF LeaveFn
  <2>10. ASSUME NEW c \in Calls, FlushStored(c) \/ FlushFails(c) PROVE Goal
    <3>1. pc[c] # "zombie" /\ step[c] = "chained"
      BY <2>1, <2>10 DEF FlushStored, FlushFails
    <3>2. LeaveFn(c) /\ step' = [step EXCEPT ![c] = "none"]
      <4>1. CASE FlushStored(c)
        BY <3>1, <4>1 DEF FlushStored, FlushEnds
      <4>2. CASE FlushFails(c)
        <5>1. \E stored \in SUBSET ToSet(batch[c]) : FlushEnds(c, stored) /\ (pc[c] # "zombie" => LeaveFn(c))
          BY <4>2, FlushFailsEffect
        <5> QED
          BY <3>1, <5>1 DEF FlushEnds
      <4> QED
        BY <2>10, <4>1, <4>2
    <3> QED
      BY <2>9, <3>1, <3>2
  <2>11. ASSUME NEW c \in Calls, CreateLeaves(c) PROVE Goal
    BY <2>9, <2>11 DEF CreateLeaves
  <2>12. ASSUME NEW c \in Calls, ZombieCreateEnds(c) PROVE Goal
    BY <2>1, <2>12 DEF ZombieCreateEnds
  <2>13. ASSUME NEW c \in Calls, CreateStored(c) \/ CreateFails(c) PROVE Goal
    <3>1. step' = [step EXCEPT ![c] = "none"] /\ UNCHANGED <<pc, frozen, stale, chainTailLoaded>>
      BY <2>13 DEF CreateStored, CreateFails, CreateEnds, vars
    <3> QED
      BY <1>0, <2>1, <3>1
  <2> QED
    BY <2>2, <2>3, <2>4, <2>5, <2>6, <2>7, <2>8, <2>10, <2>11, <2>12, <2>13 DEF ChainNext
<1> QED
  BY <1>1, <1>2 DEF RegimeInv

-----------------------------------------------------------------------------
(* While the chain is undisturbed, it is one sequence of records *)

\* Hashes of creates whose insertion is under way.
Inserting == {d \in Creates : step[d] = "insert"}
Inserts == {start[c] \o batch[c] : c \in Inserting}

\* The stored hashes, with those a create is about to store, are the hashes of the
\* sequence T, which everything that goes on agrees with.
Whole(T) ==
    /\ T \in Seq(Records) /\ Distinct(T)
    /\ db \cup Inserts = HashesOf(T)
    /\ ~frozen /\ chainTailLoaded => chainTail = T
    /\ \A c \in Calls : step[c] = "chained" => start[c] = T
    /\ (\E c \in Calls : step[c] = "read") \/ ~chainTailLoaded => Inserts = {}
    /\ ToSet(buffer) \cap ToSet(T) = {}
    /\ \A c \in Calls : step[c] # "insert" => ToSet(batch[c]) \cap ToSet(T) = {}

\* The records of the sequence are the stored ones and those being inserted.
LEMMA RecordsOfWhole ==
    ASSUME Base, NEW T, Whole(T)
    PROVE  ToSet(T) \subseteq Created /\ Stored \subseteq ToSet(T)
<1>1. ToSet(T) = {Last(h) : h \in db \cup Inserts}
  <2>1. {Last(h) : h \in HashesOf(T)} = ToSet(T)
    BY StoredOfPrefixes DEF Whole
  <2>2. db \cup Inserts = HashesOf(T)
    BY DEF Whole
  <2> QED
    BY <2>1, <2>2
<1>2. Stored \subseteq ToSet(T)
  BY <1>1 DEF Stored
<1>3. ASSUME NEW c \in Creates, step[c] = "insert" PROVE Last(start[c] \o batch[c]) \in Created
  <2>1. /\ c \in Calls /\ batch[c] \in Seq(Records) /\ start[c] \in Seq(Records)
        /\ batch[c] # << >> /\ Len(batch[c]) <= 1 /\ ToSet(batch[c]) \subseteq Created
    BY <1>3, ChainAssumption DEF Base, ChainTypes, CallInv, RecordInv
  <2>2. Len(batch[c]) = 1
    BY <2>1, SomeRecord, OneAtMost
  <2>3. Last(start[c] \o batch[c]) \in ToSet(batch[c])
    BY <2>1, <2>2, ChainedFacts
  <2> QED
    BY <2>1, <2>3
<1>4. \A h \in db : Last(h) \in Created
  BY DEF Base, RecordInv, Stored
<1> QED
  BY <1>1, <1>2, <1>3, <1>4 DEF Inserts, Inserting

\* No insertion of a create is under way when the chain has seen a fault, and no fault
\* has happened when one is.
LEMMA NoInserts ==
    ASSUME Base, RegimeInv, Undisturbed
    PROVE  /\ ~(kinds \subseteq {"create"}) => Inserting = {} /\ \A c \in Creates : step[c] = "none" /\ pc[c] = "idle"
           /\ (\E c \in Creates : step[c] # "none" \/ pc[c] # "idle") =>
                 ~frozen /\ stale = {} /\ kinds \subseteq {"create"} /\ "create" \in kinds
           /\ frozen \/ stale # {} => Inserting = {}
BY DEF RegimeInv, Undisturbed, Inserting

\* A batch that is stored behind the sequence.
LEMMA BatchFollows ==
    ASSUME Base, NEW T, Whole(T), NEW c \in Calls, step[c] = "chained"
    PROVE  /\ T \o batch[c] \in Seq(Records) /\ Distinct(T \o batch[c])
           /\ ToSet(T \o batch[c]) = ToSet(T) \cup ToSet(batch[c])
           /\ HashesOf(T \o batch[c]) = HashesOf(T) \cup ChainedFrom(start[c], batch[c])
           /\ start[c] = T
<1>1. /\ T \in Seq(Records) /\ batch[c] \in Seq(Records) /\ Distinct(T) /\ Distinct(batch[c])
      /\ ToSet(T) \cap ToSet(batch[c]) = {} /\ start[c] = T
  BY DEF Base, Whole, ChainTypes, RecordInv
<1> QED
  BY <1>1, DistinctConcat, ConcatRecords, PrefixesExtend

\* The batches of the others do not hold what a flush is writing.
LEMMA OthersHoldOthers ==
    ASSUME Base, NEW c \in Calls, step[c] = "chained", NEW d \in Calls \ {c}
    PROVE  /\ ToSet(batch[d]) \cap ToSet(batch[c]) = {}
           /\ step[d] # "chained" /\ step[d] # "read"
<1>1. CallInv /\ RecordInv /\ OneInside /\ ZombieFenced
  BY DEF Base, LockInv
<1>2. pc[c] \in {"working", "zombie"}
  BY <1>1 DEF CallInv
<1>3. pc[d] \notin {"working", "zombie"}
  BY <1>1, <1>2 DEF OneInside, Inside
<1>4. step[d] # "chained" /\ step[d] # "read"
  BY <1>1, <1>3 DEF CallInv
<1>5. CASE c \in Creates \/ d \in Creates
  BY <1>1, <1>4, <1>5 DEF RecordInv
<1>6. CASE c \in Flushes /\ d \in Flushes
  <2>1. pc[d] # "waiting"
    <3>1. pc[d] = "waiting" => flushing = d
      BY <1>1, <1>6 DEF CallInv
    <3>2. flushing \in {c, None}
      BY <1>1, <1>2, <1>6 DEF CallInv
    <3>3. d # None
      BY LockAssumption
    <3> QED
      BY <3>1, <3>2, <3>3
  <2>2. pc[d] = "idle" /\ step[d] = "none"
    BY <1>1, <1>3, <1>4, <1>6, <2>1 DEF CallInv, Flushes, Base, ChainTypes, Steps
  <2>3. batch[d] = << >>
    BY <1>1, <2>2 DEF CallInv
  <2> QED
    BY <1>4, <2>3 DEF ToSet
<1> QED
  BY <1>5, <1>6 DEF Flushes

\* A step that leaves the chain undisturbed keeps its sequence, or appends one batch
\* to it: a flush when its records are stored, a create when it leaves the section.
LEMMA WholeStays ==
    ASSUME Base, RegimeInv, [ChainNext]_allVars, Undisturbed', NEW T, Whole(T)
    PROVE  \E U \in Seq(Records) : Whole(U)' /\ \E t \in Seq(Records) : U = T \o t
<1>r. RedisReady = {FALSE} /\ ~RedisConfigured
  BY DEF Base, RedisReady
<1> USE <1>r
<1>0. /\ ChainTypes /\ CallInv /\ TypeOK /\ OneInside /\ ZombieFenced /\ RecordInv /\ Creates \subseteq Calls
      /\ pc \in [Calls -> States] /\ step \in [Calls -> Steps] /\ batch \in [Calls -> Seq(Records)]
      /\ start \in [Calls -> Seq(Records)] /\ frozen \in BOOLEAN /\ chainTailLoaded \in BOOLEAN
  BY ChainAssumption DEF Base, LockInv, ChainTypes, TypeOK
<1>00. /\ Undisturbed /\ kinds \subseteq kinds' /\ RegimeInv' /\ Base'
  BY <1>0, KindsGrow, RegimeStays, TypesStep, CallStays, RecordsStay, LockStep DEF Base
<1>01. /\ T \in Seq(Records) /\ Distinct(T) /\ db \cup Inserts = HashesOf(T)
       /\ (~frozen /\ chainTailLoaded => chainTail = T)
       /\ (\A c \in Calls : step[c] = "chained" => start[c] = T)
       /\ ((\E c \in Calls : step[c] = "read") \/ ~chainTailLoaded => Inserts = {})
       /\ ToSet(buffer) \cap ToSet(T) = {}
       /\ (\A c \in Calls : step[c] # "insert" => ToSet(batch[c]) \cap ToSet(T) = {})
       /\ T = T \o << >> /\ << >> \in Seq(Records)
  BY DEF Whole
<1>02. SUFFICES ASSUME ~Whole(T)' PROVE \E U \in Seq(Records) : Whole(U)' /\ \E t \in Seq(Records) : U = T \o t
  BY <1>01
<1>03. ASSUME ~(kinds' \subseteq {"create"}) PROVE Inserts' = {}
  BY <1>00, <1>03, NoInserts DEF Base, RegimeInv, Undisturbed, Inserts, Inserting
<1>04. ASSUME NEW kind \in {"timeout", "reject", "partial", "lostAck", "crash"}, Fault(kind)
       PROVE  Inserts' = {} /\ kind \in {"timeout", "reject"} /\ "create" \notin kinds'
  BY <1>00, <1>03, <1>04 DEF Undisturbed, Fault
<1>05. ToSet(T) \subseteq Created /\ Stored \subseteq ToSet(T)
  BY RecordsOfWhole
<1>1. CASE UNCHANGED allVars
  <2>1. Whole(T)'
    BY <1>01, <1>1 DEF allVars, vars, chainVars, callVars, flushVars, Whole, Inserts, Inserting
  <2> QED
    BY <1>02, <2>1
<1>2. CASE Push
  <2>1. /\ nextRecord' = nextRecord + 1 /\ nextRecord <= MaxRecords /\ buffer' = Append(buffer, nextRecord)
        /\ UNCHANGED <<pc, batch, step, start, db, frozen, chainTail, chainTailLoaded>>
    BY <1>2 DEF Push, vars, callVars
  <2>2. ToSet(buffer') = ToSet(buffer) \cup {nextRecord} /\ nextRecord \notin Created
    <3>1. buffer' = buffer \o <<nextRecord>> /\ buffer \in Seq(Records)
      BY <1>0, <2>1 DEF ChainTypes
    <3>2. ToSet(<<nextRecord>>) = {nextRecord} /\ <<nextRecord>> \in Seq(Records) /\ nextRecord \notin Created
      BY <1>0, <2>1, FreshRecord
    <3> QED
      BY <3>1, <3>2, ConcatRecords
  <2>3. ToSet(buffer') \cap ToSet(T) = {}
    BY <1>01, <1>05, <2>2
  <2>4. Inserts' = Inserts
    BY <2>1 DEF Inserts, Inserting
  <2>5. Whole(T)'
    BY <1>01, <2>1, <2>3, <2>4 DEF Whole
  <2> QED
    BY <1>02, <2>5
<1>3. CASE Crash
  BY <1>3, <1>04 DEF Crash
<1>4. ASSUME NEW c \in Calls, FlushBegin(c) PROVE FALSE
  <2>1. PICK taken \in Seq(Records), rest \in Seq(Records) :
             /\ ToSet(taken) \cup ToSet(rest) \subseteq ToSet(buffer)
             /\ batch' = [batch EXCEPT ![c] = taken] /\ buffer' = rest
    BY <1>0, <1>4, FlushBeginEffect DEF RecordInv
  <2>2. /\ c \in Flushes /\ UNCHANGED <<step, start, db, frozen, chainTail, chainTailLoaded>>
    BY <1>4 DEF FlushBegin, Call, tailVars
  <2>3. Inserts' = Inserts
    <3>1. \A d \in Creates : batch'[d] = batch[d]
      BY <1>0, <2>1, <2>2 DEF Flushes
    <3> QED
      BY <2>2, <3>1 DEF Inserts, Inserting
  <2>4. \A d \in Calls : step'[d] # "insert" => ToSet(batch'[d]) \cap ToSet(T) = {}
    BY <1>0, <1>01, <2>1, <2>2
  <2>5. ToSet(buffer') \cap ToSet(T) = {}
    BY <1>01, <2>1
  <2>6. Whole(T)'
    BY <1>01, <2>2, <2>3, <2>4, <2>5 DEF Whole
  <2> QED
    BY <1>02, <2>6
<1>5. ASSUME NEW c \in Calls, CreateBegin(c) PROVE FALSE
  <2>1. /\ c \in Creates /\ nextRecord <= MaxRecords /\ nextRecord' = nextRecord + 1 /\ step[c] = "none"
        /\ batch' = [batch EXCEPT ![c] = <<nextRecord>>]
        /\ UNCHANGED <<buffer, step, start, db, frozen, chainTail, chainTailLoaded>>
    BY <1>5 DEF CreateBegin, flushVars, Call, tailVars
  <2>2. ToSet(<<nextRecord>>) = {nextRecord} /\ nextRecord \notin Created
    BY <1>0, <2>1, FreshRecord
  <2>3. Inserts' = Inserts
    <3>1. Inserting' = Inserting /\ \A d \in Inserting : batch'[d] = batch[d] /\ start'[d] = start[d]
      BY <1>0, <2>1 DEF Inserting
    <3> QED
      BY <3>1 DEF Inserts
  <2>4. \A d \in Calls : step'[d] # "insert" => ToSet(batch'[d]) \cap ToSet(T) = {}
    BY <1>0, <1>01, <1>05, <2>1, <2>2
  <2>5. Whole(T)'
    BY <1>01, <2>1, <2>3, <2>4 DEF Whole
  <2> QED
    BY <1>02, <2>5
<1>6. ASSUME NEW c \in Calls, LockRejects(c) \/ Abandoned(c) PROVE FALSE
  <2>1. /\ step[c] # "insert" /\ UNCHANGED <<start, db, step>> /\ frozen' = TRUE
        /\ batch' = batch \/ batch' = [batch EXCEPT ![c] = << >>]
        /\ buffer' = buffer \/ buffer' = batch[c] \o buffer
    <3>1. (\E abandoned \in BOOLEAN : Rejected(c, abandoned)) /\ UNCHANGED <<start, db>>
          /\ pc[c] \in {"waiting", "working"}
      BY <1>6 DEF LockRejects, Abandoned, WaitTimeout, TurnedAway, HoldTimeout
    <3>2. frozen' = TRUE
      BY <1>0, <1>6 DEF LockRejects, Abandoned, WaitTimeout, TurnedAway, HoldTimeout, FenceCheck
    <3>3. step[c] # "insert"
      BY <1>0, <3>1 DEF CallInv
    <3> QED
      BY <3>1, <3>2, <3>3 DEF Rejected, flushVars
  <2>2. Inserts = {} /\ Inserts' = {}
    <3>1. Inserting' = {}
      BY <1>00, <2>1, NoInserts DEF RegimeInv, Undisturbed, Inserting
    <3> QED
      BY <2>1, <3>1 DEF Inserts, Inserting
  <2>3. \A d \in Calls : step'[d] # "insert" => ToSet(batch'[d]) \cap ToSet(T) = {}
    <3>1. ToSet(<< >>) = {}
      BY DEF ToSet
    <3> QED
      BY <1>0, <1>01, <2>1, <3>1
  <2>4. ToSet(buffer') \cap ToSet(T) = {}
    <3>1. ToSet(batch[c] \o buffer) = ToSet(batch[c]) \cup ToSet(buffer)
      BY <1>0, ConcatRecords DEF ChainTypes
    <3> QED
      BY <1>01, <2>1, <3>1
  <2>5. Whole(T)'
    BY <1>01, <2>1, <2>2, <2>3, <2>4 DEF Whole
  <2> QED
    BY <1>02, <2>5
<1>7. ASSUME NEW c \in Calls, FnStarts(c) PROVE FALSE
  <2>1. /\ step' = [step EXCEPT ![c] = IF chainTailLoaded THEN "chained" ELSE "read"]
        /\ start' = [start EXCEPT ![c] = IF chainTailLoaded THEN chainTail ELSE << >>]
        /\ UNCHANGED <<buffer, batch, db, frozen, chainTail, chainTailLoaded>> /\ ~frozen
        /\ pc[c] = "waiting"
    BY <1>7 DEF FnStarts, Enter, flushVars, tailVars, FenceCheck
  <2>2. step[c] = "none"
    BY <1>0, <2>1 DEF CallInv, Steps
  <2>3. Inserts' = Inserts
    <3>1. Inserting' = Inserting /\ \A d \in Inserting : batch'[d] = batch[d] /\ start'[d] = start[d]
      BY <1>0, <2>1, <2>2 DEF Inserting
    <3> QED
      BY <3>1 DEF Inserts
  <2>4. \A d \in Calls : step'[d] = "chained" => start'[d] = T
    BY <1>0, <1>01, <2>1
  <2>5. (\E d \in Calls : step'[d] = "read") \/ ~chainTailLoaded' => Inserts = {}
    BY <1>0, <1>01, <2>1
  <2>6. \A d \in Calls : step'[d] # "insert" => step[d] # "insert"
    BY <1>0, <2>1, <2>2
  <2>7. Whole(T)'
    BY <1>01, <2>1, <2>3, <2>4, <2>5, <2>6 DEF Whole
  <2> QED
    BY <1>02, <2>7
<1>8. ASSUME NEW c \in Calls, TailRead(c) PROVE FALSE
  <2>1. /\ step[c] = "read" /\ step' = [step EXCEPT ![c] = "chained"] /\ start' = [start EXCEPT ![c] = LatestHash]
        /\ chainTail' = LatestHash /\ UNCHANGED <<buffer, batch, db, frozen>> /\ chainTailLoaded' = TRUE
        /\ pc[c] \in {"working", "zombie"}
    BY <1>8 DEF TailRead, LoadTail, flushVars
  <2>2. Inserts = {} /\ db = HashesOf(T)
    BY <1>01, <2>1
  <2>3. LatestHash = T
    BY <1>01, <2>2, LatestIsLast
  <2>4. Inserts' = Inserts
    <3>1. Inserting' = Inserting /\ \A d \in Inserting : batch'[d] = batch[d] /\ start'[d] = start[d]
      BY <1>0, <2>1 DEF Inserting
    <3> QED
      BY <3>1 DEF Inserts
  <2>5. \A d \in Calls : step'[d] = "chained" => start'[d] = T
    BY <1>0, <1>01, <2>1, <2>3
  <2>6. \A d \in Calls : step'[d] # "insert" => step[d] # "insert"
    BY <1>0, <2>1
  <2>7. Whole(T)'
    BY <1>01, <2>1, <2>2, <2>3, <2>4, <2>5, <2>6 DEF Whole
  <2> QED
    BY <1>02, <2>7
<1>9. ASSUME NEW c \in Calls, FlushStored(c)
      PROVE  \E U \in Seq(Records) : Whole(U)' /\ \E t \in Seq(Records) : U = T \o t
  <2>0. PICK t \in Seq(Records) : t = batch[c]
    BY <1>0
  <2> DEFINE W == T \o t
  <2>1. /\ c \in Flushes /\ step[c] = "chained" /\ db' = db \cup ChainedFrom(start[c], batch[c])
        /\ FlushEnds(c, ToSet(batch[c])) /\ (pc[c] # "zombie" => LeaveFn(c)) /\ UNCHANGED start
        /\ (pc[c] # "zombie" => AdvanceChainTail(c) /\ UNCHANGED chainTailLoaded)
    BY <1>9 DEF FlushStored, tailVars
  <2>2. /\ step' = [step EXCEPT ![c] = "none"] /\ batch' = [batch EXCEPT ![c] = << >>]
        /\ frozen' = (frozen /\ pc[c] # "zombie")
        /\ ToSet(buffer') \subseteq (ToSet(buffer) \cup ToSet(batch[c])) \ ToSet(batch[c])
    BY <2>1, FlushEffect
  <2>3. /\ W \in Seq(Records) /\ Distinct(W) /\ ToSet(W) = ToSet(T) \cup ToSet(batch[c])
        /\ HashesOf(W) = HashesOf(T) \cup ChainedFrom(start[c], batch[c]) /\ start[c] = T
    BY <2>0, <2>1, BatchFollows
  <2> HIDE DEF W
  <2>4. Inserts' = Inserts
    <3>1. Inserting' = Inserting /\ \A d \in Inserting : batch'[d] = batch[d] /\ start'[d] = start[d]
      BY <1>0, <2>1, <2>2 DEF Inserting, Flushes
    <3> QED
      BY <3>1 DEF Inserts
  <2>5. \A d \in Calls : step'[d] # "chained" /\ (step'[d] = "read" => step[d] = "read")
    BY <1>0, <2>1, <2>2, OthersHoldOthers
  <2>6. pc[c] = "zombie" => Inserts = {} /\ ~chainTailLoaded'
    <3>1. pc[c] = "zombie" => frozen
      BY <1>0 DEF ZombieFenced
    <3>2. pc[c] = "zombie" => ~chainTailLoaded'
      BY <2>1 DEF FlushEnds, ZombieSettles, ResyncChainTail
    <3> QED
      BY <1>00, <3>1, <3>2, NoInserts DEF Inserts
  <2>7. ~frozen' /\ chainTailLoaded' => chainTail' = W
    <3>1. CASE pc[c] = "zombie"
      BY <2>6, <3>1
    <3>2. CASE pc[c] # "zombie" /\ c \in stale
      <4>1. frozen
        BY <1>0, <2>1, <3>2 DEF CallInv
      <4> QED
        BY <2>2, <3>2, <4>1
    <3>3. CASE pc[c] # "zombie" /\ c \notin stale
      BY <2>0, <2>1, <2>3, <3>3 DEF AdvanceChainTail, W
    <3> QED
      BY <3>1, <3>2, <3>3
  <2>8. (\E d \in Calls : step'[d] = "read") \/ ~chainTailLoaded' => Inserts = {}
    BY <1>01, <2>1, <2>5, <2>6
  <2>9. ToSet(buffer') \cap ToSet(W) = {}
    BY <1>01, <2>2, <2>3
  <2>10. ASSUME NEW d \in Calls, step'[d] # "insert" PROVE ToSet(batch'[d]) \cap ToSet(W) = {}
    <3>1. CASE d = c
      <4>1. batch'[d] = << >>
        BY <1>0, <2>2, <3>1
      <4> QED
        BY <4>1 DEF ToSet
    <3>2. CASE d # c
      <4>1. batch'[d] = batch[d] /\ step'[d] = step[d]
        BY <1>0, <2>2, <3>2
      <4>2. ToSet(batch[d]) \cap ToSet(batch[c]) = {}
        BY <2>1, <3>2, OthersHoldOthers
      <4> QED
        BY <1>01, <2>3, <2>10, <4>1, <4>2
    <3> QED
      BY <3>1, <3>2
  <2>11. db' \cup Inserts' = HashesOf(W)
    BY <1>01, <2>1, <2>3, <2>4
  <2>12. Whole(W)'
    BY <2>3, <2>4, <2>5, <2>7, <2>8, <2>9, <2>10, <2>11 DEF Whole
  <2> QED
    BY <2>12, <2>0, <2>3 DEF W
<1>10. ASSUME NEW c \in Calls, FlushFails(c) PROVE FALSE
  <2>1. PICK landed \in SUBSET (ToSet(batch[c]) \ Stored), stored \in SUBSET ToSet(batch[c]) :
             /\ FlushEnds(c, stored) /\ (pc[c] # "zombie" => LeaveFn(c))
             /\ db' = db \cup {h \in ChainedFrom(start[c], batch[c]) : Last(h) \in landed}
             /\ \/ UNCHANGED upsets /\ ToSet(batch[c]) \cap Stored # {}
                \/ Fault("lostAck") \/ Fault("partial")
                \/ Fault("reject") /\ stored = {} /\ landed = {}
             /\ \/ stored = {} /\ pc[c] # "zombie" /\ UNCHANGED <<chainTail, chainTailLoaded>>
                \/ chainTail' = << >> /\ ~chainTailLoaded'
             /\ c \in Flushes /\ step[c] = "chained"
             /\ UNCHANGED <<nextRecord, start>>
    BY <1>10, FlushFailsEffect
  <2>2. ToSet(batch[c]) \cap Stored = {}
    BY <1>01, <1>05, <2>1
  <2>3. Fault("reject") /\ stored = {} /\ landed = {} /\ Inserts' = {}
    BY <1>04, <2>1, <2>2
  <2>4. db' = db
    BY <2>1, <2>3
  <2>5. /\ step' = [step EXCEPT ![c] = "none"] /\ batch' = [batch EXCEPT ![c] = << >>]
        /\ frozen' = (frozen /\ pc[c] # "zombie")
        /\ ToSet(buffer') \subseteq ToSet(buffer) \cup ToSet(batch[c])
    BY <2>1, FlushEffect
  <2>6. Inserts' = Inserts
    <3>1. Inserting' = Inserting /\ \A d \in Inserting : batch'[d] = batch[d] /\ start'[d] = start[d]
      BY <1>0, <2>1, <2>5 DEF Inserting, Flushes
    <3> QED
      BY <3>1 DEF Inserts
  <2>7. \A d \in Calls : step'[d] # "chained"
    BY <1>0, <2>1, <2>5, OthersHoldOthers
  <2>8. ~frozen' /\ chainTailLoaded' => chainTail' = T
    BY <1>01, <2>1, <2>5
  <2>9. ToSet(buffer') \cap ToSet(T) = {}
    BY <1>01, <2>1, <2>5
  <2>10. ASSUME NEW d \in Calls, step'[d] # "insert" PROVE ToSet(batch'[d]) \cap ToSet(T) = {}
    <3>1. CASE d = c
      <4>1. batch'[d] = << >>
        BY <1>0, <2>5, <3>1
      <4> QED
        BY <4>1 DEF ToSet
    <3>2. CASE d # c
      <4>1. batch'[d] = batch[d] /\ step'[d] = step[d]
        BY <1>0, <2>5, <3>2
      <4> QED
        BY <1>01, <2>10, <4>1
    <3> QED
      BY <3>1, <3>2
  <2>11. Whole(T)'
    BY <1>01, <2>3, <2>4, <2>6, <2>7, <2>8, <2>9, <2>10 DEF Whole
  <2> QED
    BY <1>02, <2>11
<1>11. ASSUME NEW c \in Calls, CreateLeaves(c)
       PROVE  \E U \in Seq(Records) : Whole(U)' /\ \E t \in Seq(Records) : U = T \o t
  <2>0. PICK t \in Seq(Records) : t = batch[c]
    BY <1>0
  <2> DEFINE W == T \o t
  <2>1. /\ c \in Creates /\ step[c] = "chained" /\ pc[c] = "working" /\ AdvanceChainTail(c)
        /\ step' = [step EXCEPT ![c] = "insert"]
        /\ UNCHANGED <<chainTailLoaded, buffer, batch, start, db, frozen>>
    BY <1>11 DEF CreateLeaves, LeaveFn, tailVars, flushVars
  <2>2. ~frozen /\ stale = {} /\ chainTailLoaded
    <3>1. ~frozen /\ stale = {} /\ kinds \subseteq {"create"}
      BY <1>00, <2>1, NoInserts
    <3> QED
      BY <2>1, <3>1 DEF RegimeInv
  <2>3. /\ W \in Seq(Records) /\ Distinct(W) /\ ToSet(W) = ToSet(T) \cup ToSet(batch[c])
        /\ HashesOf(W) = HashesOf(T) \cup ChainedFrom(start[c], batch[c]) /\ start[c] = T
    BY <2>0, <2>1, BatchFollows
  <2>4. ChainedFrom(start[c], batch[c]) = {start[c] \o batch[c]}
    <3>1. batch[c] \in Seq(Records) /\ batch[c] # << >> /\ Len(batch[c]) <= 1 /\ start[c] \in Seq(Records)
      BY <1>0, <2>1 DEF CallInv, RecordInv
    <3>2. Len(batch[c]) = 1
      BY <3>1, SomeRecord, OneAtMost
    <3> QED
      BY <3>1, <3>2, ChainedFacts
  <2>5. Inserts' = Inserts \cup {start[c] \o batch[c]}
    <3>1. Inserting' = Inserting \cup {c}
      BY <1>0, <2>1 DEF Inserting
    <3> QED
      BY <2>1, <3>1 DEF Inserts
  <2>6. chainTail' = W
    BY <2>0, <2>1, <2>2, <2>3 DEF AdvanceChainTail
  <2> HIDE DEF W
  <2>7. \A d \in Calls : step'[d] # "chained" /\ step'[d] # "read"
    BY <1>0, <2>1, OthersHoldOthers
  <2>8. ToSet(buffer') \cap ToSet(W) = {}
    BY <1>0, <1>01, <2>1, <2>3 DEF RecordInv
  <2>9. ASSUME NEW d \in Calls, step'[d] # "insert" PROVE ToSet(batch'[d]) \cap ToSet(W) = {}
    <3>1. d # c /\ batch'[d] = batch[d] /\ step'[d] = step[d]
      BY <1>0, <2>1, <2>9
    <3>2. ToSet(batch[d]) \cap ToSet(batch[c]) = {}
      BY <2>1, <3>1, OthersHoldOthers
    <3> QED
      BY <1>01, <2>3, <2>9, <3>1, <3>2
  <2>10. db' \cup Inserts' = HashesOf(W)
    BY <1>01, <2>1, <2>3, <2>4, <2>5
  <2>11. Whole(W)'
    BY <2>1, <2>2, <2>3, <2>6, <2>7, <2>8, <2>9, <2>10 DEF Whole
  <2> QED
    BY <2>11, <2>0, <2>3 DEF W
<1>12. ASSUME NEW c \in Calls, ZombieCreateEnds(c) PROVE FALSE
  <2>1. c \in Creates /\ pc[c] = "zombie"
    BY <1>12 DEF ZombieCreateEnds
  <2> QED
    BY <1>0, <1>00, <2>1, NoInserts DEF ZombieFenced
<1>13. ASSUME NEW c \in Calls, CreateStored(c) PROVE FALSE
  <2>1. /\ c \in Creates /\ step[c] = "insert" /\ step' = [step EXCEPT ![c] = "none"]
        /\ batch' = [batch EXCEPT ![c] = << >>] /\ db' = db \cup {start[c] \o batch[c]}
        /\ UNCHANGED <<chainTailLoaded, chainTail, buffer, start, frozen>>
    BY <1>13 DEF CreateStored, CreateEnds, vars, flushVars
  <2>2. Inserting' = Inserting \ {c} /\ c \in Inserting
    BY <1>0, <2>1 DEF Inserting
  <2>3. \A d \in Inserting \ {c} : batch'[d] = batch[d]
    BY <1>0, <2>1 DEF Inserting
  <2>4. Inserts' = {start[d] \o batch[d] : d \in Inserting \ {c}}
    BY <2>1, <2>2, <2>3 DEF Inserts
  <2>5. db' \cup Inserts' = db \cup Inserts /\ Inserts' \subseteq Inserts /\ Inserts # {}
    BY <2>1, <2>2, <2>4 DEF Inserts
  <2>6. \A d \in Calls : step'[d] \in {step[d], "none"}
    BY <1>0, <2>1
  <2>7. ASSUME NEW d \in Calls, step'[d] # "insert" PROVE ToSet(batch'[d]) \cap ToSet(T) = {}
    <3>1. CASE d = c
      <4>1. batch'[d] = << >>
        BY <1>0, <2>1, <3>1
      <4> QED
        BY <4>1 DEF ToSet
    <3>2. CASE d # c
      <4>1. batch'[d] = batch[d] /\ step'[d] = step[d]
        BY <1>0, <2>1, <3>2
      <4> QED
        BY <1>01, <2>7, <4>1
    <3> QED
      BY <3>1, <3>2
  <2>8. (\E d \in Calls : step'[d] = "read") \/ ~chainTailLoaded' => Inserts' = {}
    BY <1>01, <2>1, <2>5, <2>6
  <2>9. Whole(T)'
    BY <1>01, <2>1, <2>5, <2>6, <2>7, <2>8 DEF Whole
  <2> QED
    BY <1>02, <2>9
<1>14. ASSUME NEW c \in Calls, CreateFails(c) PROVE FALSE
  <2>1. c \in Creates /\ step[c] = "insert" /\ \E kind \in {"reject", "lostAck"} : Fault(kind)
    BY <1>14 DEF CreateFails, CreateEnds
  <2>2. "create" \in kinds
    BY <1>00, <2>1, NoInserts
  <2> QED
    BY <1>00, <1>04, <2>1, <2>2
<1> QED
  BY <1>1, <1>2, <1>3, <1>4, <1>5, <1>6, <1>7, <1>8, <1>9, <1>10, <1>11, <1>12, <1>13, <1>14 DEF ChainNext

-----------------------------------------------------------------------------
(* The theorems about the chain *)

\* The inductive invariant.
ChainInv ==
    /\ Base
    /\ RegimeInv
    /\ Undisturbed => \E T \in Seq(Records) : Whole(T)

\* It holds of an empty chain,
LEMMA InitChainInv == ChainInit => ChainInv
<1> SUFFICES ASSUME ChainInit PROVE ChainInv
  OBVIOUS
<1>1. ~RedisConfigured /\ LockInv
  BY InitLockInv DEF ChainInit
<1>2. /\ pc = [c \in Calls |-> "idle"] /\ step = [c \in Calls |-> "none"]
      /\ batch = [c \in Calls |-> << >>] /\ start = [c \in Calls |-> << >>]
      /\ nextRecord = 1 /\ buffer = << >> /\ flushing = None /\ chainTail = << >> /\ db = {}
      /\ faults = 0 /\ kinds = {} /\ frozen = FALSE /\ stale = {} /\ chainTailLoaded = FALSE
  BY DEF ChainInit, Init
<1>3. ToSet(<< >>) = {} /\ Distinct(<< >>) /\ Len(<< >>) = 0 /\ << >> \in Seq(Records)
      /\ HashesOf(<< >>) = {}
  BY DEF ToSet, Distinct, HashesOf
<1>4. ChainTypes
  BY <1>2, <1>3, ChainAssumption DEF ChainTypes, Steps
<1>5. CallInv
  BY <1>2 DEF CallInv
<1>6. RecordInv
  <2>1. Created = {} /\ Stored = {} /\ StoredOnce
    BY <1>2 DEF Created, Stored, StoredOnce
  <2> QED
    BY <1>2, <1>3, <2>1, ChainAssumption DEF RecordInv, Flushes
<1>7. RegimeInv
  BY <1>2, ChainAssumption DEF RegimeInv
<1>8. Whole(<< >>)
  <2>1. Inserts = {}
    BY <1>2, ChainAssumption DEF Inserts, Inserting
  <2> QED
    BY <1>2, <1>3, <2>1 DEF Whole
<1> QED
  BY <1>1, <1>3, <1>4, <1>5, <1>6, <1>7, <1>8 DEF ChainInv, Base

\* and every step keeps it.
LEMMA NextChainInv == ChainInv /\ [ChainNext]_allVars => ChainInv'
<1> SUFFICES ASSUME ChainInv, [ChainNext]_allVars PROVE ChainInv'
  OBVIOUS
<1>1. Base /\ RegimeInv /\ ChainTypes
  BY DEF ChainInv, Base
<1>2. Base' /\ RegimeInv'
  BY <1>1, LockStep, TypesStep, CallStays, RecordsStay, RegimeStays DEF Base
<1>3. ASSUME Undisturbed' PROVE \E U \in Seq(Records) : Whole(U)'
  <2>1. PICK T \in Seq(Records) : Whole(T)
    BY <1>1, <1>3, KindsGrow DEF ChainInv
  <2> QED
    BY <1>1, <1>3, <2>1, WholeStays
<1> QED
  BY <1>2, <1>3 DEF ChainInv

\* Whatever the writers do, fail to do or are interrupted in, the invariant holds.
THEOREM ChainInvariant == ChainSpec => []ChainInv
<1>1. ChainInit => ChainInv
  BY InitChainInv
<1>2. ChainInv /\ [ChainNext]_allVars => ChainInv'
  BY NextChainInv
<1> QED
  BY <1>1, <1>2, PTL DEF ChainSpec

\* The state is well formed: a flush under way is the one `flushing` names, and its
\* batch and the buffer share no record.
THEOREM ChainTypesCorrect == ChainSpec => []ChainTypeOK
<1>1. ChainInv => ChainTypeOK
  <2> SUFFICES ASSUME ChainInv PROVE ChainTypeOK
    OBVIOUS
  <2>1. TypeOK /\ ChainTypes /\ CallInv /\ RecordInv
    BY DEF ChainInv, Base, LockInv
  <2>2. Cardinality(ToSet(buffer)) = Len(buffer)
    BY <2>1, SizeOfDistinct DEF ChainTypes, RecordInv
  <2>3. \A c \in Flushes : pc[c] \in {"waiting", "working"} =>
          flushing = c /\ ToSet(batch[c]) \cap ToSet(buffer) = {}
    BY <2>1 DEF CallInv, RecordInv, Flushes
  <2> QED
    BY <2>1, <2>2, <2>3 DEF ChainTypeOK, ChainTypes
<1> QED
  BY <1>1, ChainInvariant, PTL

\* The lock excludes and fences also when its callers are the writers, which leave it
\* in every way they have, and when the process starts again.
THEOREM ChainIsExclusive == ChainSpec => [](OneInside /\ ZombieFenced)
<1>1. ChainInv => OneInside /\ ZombieFenced
  BY DEF ChainInv, Base, LockInv
<1> QED
  BY <1>1, ChainInvariant, PTL

\* No record is stored a second time, whatever is retried after whatever failed.
THEOREM RecordsAreStoredOnce == ChainSpec => []StoredOnce
<1>1. ChainInv => StoredOnce
  BY DEF ChainInv, Base, RecordInv
<1> QED
  BY <1>1, ChainInvariant, PTL

\* As long as the chain is undisturbed it does not fork and has no gap but those of
\* insertions under way.
THEOREM ChainStaysWhole == ChainSpec => []ChainIsWhole
<1>1. ASSUME ChainInv, Undisturbed PROVE NoFork /\ NoPhantom
  <2>1. PICK T \in Seq(Records) : Whole(T)
    BY <1>1 DEF ChainInv
  <2>2. db \cup Inserts = HashesOf(T)
    BY <2>1 DEF Whole
  <2>3. NoFork
    <3>1. ASSUME NEW g \in db, NEW h \in db, Parent(g) = Parent(h) PROVE g = h
      <4>1. g \in HashesOf(T) /\ h \in HashesOf(T)
        BY <2>2
      <4>2. /\ Len(g) \in 1..Len(T) /\ Len(h) \in 1..Len(T)
            /\ Parent(g) = SubSeq(T, 1, Len(g) - 1) /\ Parent(h) = SubSeq(T, 1, Len(h) - 1)
        BY <4>1, PrefixFacts
      <4>3. Len(g) - 1 = Len(h) - 1
        <5>1. \A n \in 1..Len(T) : Len(SubSeq(T, 1, n - 1)) = n - 1
          OBVIOUS
        <5> QED
          BY <3>1, <4>2, <5>1
      <4> QED
        BY <4>1, <4>2, <4>3, OneOfEachLength
    <3> QED
      BY <3>1 DEF NoFork
  <2>4. Inserts \subseteq Flying
    <3>1. ASSUME NEW c \in Inserting PROVE start[c] \o batch[c] \in ChainedFrom(start[c], batch[c]) /\ c \in Calls
      <4>1. /\ c \in Calls /\ batch[c] \in Seq(Records) /\ start[c] \in Seq(Records)
            /\ batch[c] # << >> /\ Len(batch[c]) <= 1
        BY <1>1, <3>1, ChainAssumption DEF ChainInv, Base, ChainTypes, CallInv, RecordInv, Inserting
      <4>2. Len(batch[c]) = 1
        BY <4>1, SomeRecord, OneAtMost
      <4>3. ChainedFrom(start[c], batch[c]) = {start[c] \o batch[c]}
        BY <4>1, <4>2, ChainedFacts
      <4> QED
        BY <4>1, <4>3
    <3> QED
      BY <3>1 DEF Inserts, Inserting, Flying
  <2>5. ASSUME NEW h \in db PROVE Parent(h) \in db \cup Flying \cup {<< >>}
    <3>1. Len(h) \in 1..Len(T) /\ Parent(h) = SubSeq(T, 1, Len(h) - 1)
      BY <2>2, PrefixFacts
    <3>2. CASE Len(h) = 1
      BY <3>1, <3>2
    <3>3. CASE Len(h) # 1
      <4>1. Len(h) - 1 \in 1..Len(T)
        <5>1. \A n \in Nat : \A k \in 1..n : k # 1 => k - 1 \in 1..n
          OBVIOUS
        <5>2. Len(h) \in 1..Len(T) /\ Len(T) \in Nat
          BY <3>1
        <5> QED
          BY <3>3, <5>1, <5>2
      <4>2. Parent(h) \in HashesOf(T)
        BY <3>1, <4>1 DEF HashesOf
      <4> QED
        BY <2>2, <2>4, <4>2
    <3> QED
      BY <3>2, <3>3
  <2> QED
    BY <2>3, <2>5 DEF NoPhantom
<1>2. ChainInv => ChainIsWhole
  BY <1>1 DEF ChainIsWhole
<1> QED
  BY <1>2, ChainInvariant, PTL

-----------------------------------------------------------------------------
(* The chain implements the ledger *)

\* The longest of some hashes.
LongestOf(D) == IF D = {} THEN << >> ELSE CHOOSE h \in D : \A g \in D : Len(g) <= Len(h)

\* The longest of some prefixes is a prefix, at least as long as each of them.
LEMMA LongestPrefix ==
    ASSUME NEW T \in Seq(Records), Distinct(T), NEW D \in SUBSET HashesOf(T)
    PROVE  /\ \E n \in 0..Len(T) : LongestOf(D) = SubSeq(T, 1, n)
           /\ Distinct(LongestOf(D))
           /\ \A h \in D : Len(h) <= Len(LongestOf(D))
           /\ LongestOf(D) \in D \/ LongestOf(D) = << >>
<1> DEFINE L == LongestOf(D)
<1>0. ASSUME NEW n \in 0..Len(T) PROVE Distinct(SubSeq(T, 1, n))
  <2>1. \A i \in DOMAIN SubSeq(T, 1, n) : i \in DOMAIN T /\ SubSeq(T, 1, n)[i] = T[i]
    OBVIOUS
  <2> QED
    BY <2>1 DEF Distinct
<1>1. CASE D = {}
  <2>1. L = << >> /\ L = SubSeq(T, 1, 0) /\ 0 \in 0..Len(T)
    BY <1>1 DEF LongestOf
  <2> QED
    BY <1>0, <1>1, <2>1
<1>2. CASE D # {}
  <2>1. L \in D /\ \A g \in D : Len(g) <= Len(L)
    BY <1>2, LedgerIsLongest DEF LongestOf
  <2> HIDE DEF L
  <2>2. PICK n \in 0..Len(T) : L = SubSeq(T, 1, n)
    BY <2>1 DEF HashesOf
  <2>3. Distinct(L)
    BY <1>0, <2>2
  <2> QED
    BY <2>1, <2>2, <2>3 DEF L
<1> QED
  BY <1>1, <1>2

\* Nothing is ever removed from the chain.
LEMMA DatabaseGrows ==
    ASSUME [ChainNext]_allVars
    PROVE  db \subseteq db'
<1>1. CASE UNCHANGED allVars \/ Push
  BY <1>1 DEF allVars, chainVars, Push
<1>2. CASE Crash
  BY <1>2 DEF Crash
<1>3. ASSUME NEW c \in Calls, FlushBegin(c) \/ CreateBegin(c) \/ LockRejects(c) \/ Abandoned(c)
                              \/ FnStarts(c) \/ TailRead(c) \/ CreateLeaves(c) \/ ZombieCreateEnds(c)
      PROVE  db \subseteq db'
  BY <1>3 DEF FlushBegin, CreateBegin, LockRejects, Abandoned, FnStarts, TailRead, CreateLeaves, ZombieCreateEnds
<1>4. ASSUME NEW c \in Calls, FlushStored(c) \/ FlushFails(c) \/ CreateStored(c) \/ CreateFails(c)
      PROVE  db \subseteq db'
  BY <1>4 DEF FlushStored, FlushFails, CreateStored, CreateFails
<1> QED
  BY <1>1, <1>2, <1>3, <1>4 DEF ChainNext

\* A step of the chain extends the ledger, leaves it alone or ends the promise.
LEMMA LedgerStep ==
    ASSUME ChainInv, [ChainNext]_allVars
    PROVE  [Promised!Extend \/ Promised!Breaks]_<<Ledger, Undisturbed>>
<1>1. CASE ~Undisturbed'
  BY <1>1 DEF Promised!Breaks
<1>2. CASE Undisturbed'
  <2>1. Base /\ RegimeInv /\ Undisturbed
    BY <1>2, KindsGrow DEF ChainInv, Base
  <2>2. PICK T \in Seq(Records) : Whole(T)
    BY <2>1 DEF ChainInv
  <2>3. PICK U \in Seq(Records) : Whole(U)' /\ \E t \in Seq(Records) : U = T \o t
    BY <1>2, <2>1, <2>2, WholeStays
  <2>4. PICK t \in Seq(Records) : U = T \o t
    BY <2>3
  <2>5. db \subseteq HashesOf(U) /\ db' \subseteq HashesOf(U) /\ Distinct(U)
    <3>1. db \subseteq HashesOf(T)
      BY <2>2 DEF Whole
    <3>2. HashesOf(U) = HashesOf(T) \cup ChainedFrom(T, t)
      BY <2>4, PrefixesExtend
    <3>3. db' \subseteq HashesOf(U) /\ Distinct(U)
      BY <2>3 DEF Whole
    <3> QED
      BY <3>1, <3>2, <3>3
  <2>6. Ledger = LongestOf(db) /\ Ledger' = LongestOf(db')
    BY DEF Ledger, LongestOf
  <2>7. /\ \E n \in 0..Len(U) : Ledger = SubSeq(U, 1, n)
        /\ Ledger \in db \/ Ledger = << >>
    BY <2>5, <2>6, LongestPrefix
  <2>8. /\ \E n \in 0..Len(U) : Ledger' = SubSeq(U, 1, n)
        /\ Distinct(Ledger') /\ \A h \in db' : Len(h) <= Len(Ledger')
    BY <2>5, <2>6, LongestPrefix
  <2>9. PICK m \in 0..Len(U) : Ledger = SubSeq(U, 1, m)
    BY <2>7
  <2>10. PICK n \in 0..Len(U) : Ledger' = SubSeq(U, 1, n)
    BY <2>8
  <2>11. Len(Ledger) = m /\ Len(Ledger') = n /\ Ledger' \in Seq(Records)
    BY <2>9, <2>10
  <2>12. m <= n
    <3>1. CASE Ledger \in db
      BY <2>8, <2>11, <3>1, DatabaseGrows
    <3>2. CASE Ledger = << >>
      BY <2>11, <3>2
    <3> QED
      BY <2>7, <3>1, <3>2
  <2>13. CASE m = n
    <3>1. Ledger' = Ledger
      BY <2>9, <2>10, <2>13
    <3> QED
      BY <1>2, <2>1, <3>1 DEF Undisturbed
  <2>14. CASE m < n
    <3>1. Ledger = SubSeq(Ledger', 1, Len(Ledger))
      BY <2>9, <2>10, <2>11, <2>14
    <3>2. \A i, j \in 1..Len(Ledger') : Ledger'[i] = Ledger'[j] => i = j
      <4>1. DOMAIN Ledger' = 1..Len(Ledger')
        BY <2>11
      <4> QED
        BY <2>8, <4>1 DEF Distinct
    <3>3. Undisturbed' <=> Undisturbed
      BY <1>2, <2>1
    <3>4. Promised!Extend
      BY <2>1, <2>11, <2>14, <3>1, <3>2, <3>3 DEF Promised!Extend, Undisturbed
    <3> QED
      BY <3>4
  <2> QED
    BY <2>12, <2>13, <2>14
<1> QED
  BY <1>1, <1>2

\* The chain is an append-only ledger for as long as it is undisturbed.
THEOREM ChainImplementsLedger == ChainSpec => ImplementsLedger
<1>1. ChainInit => Promised!Init
  BY DEF ChainInit, Promised!Init, Ledger, Undisturbed
<1>2. ChainInv /\ [ChainNext]_allVars => [Promised!Extend \/ Promised!Breaks]_<<Ledger, Undisturbed>>
  BY LedgerStep
<1> QED
  BY <1>1, <1>2, ChainInvariant, PTL DEF ChainSpec, ImplementsLedger, Promised!Spec
=============================================================================
