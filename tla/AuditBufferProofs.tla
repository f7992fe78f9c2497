-------------------------- MODULE AuditBufferProofs --------------------------
(***************************************************************************)
(* Theorems about AuditBuffer, for any records, limits and faults.         *)
(*                                                                         *)
(* An operation waits in walChain while the state moves on.  What makes it *)
(* harmless when its turn comes is that what it was asked for cannot       *)
(* become wrong: stored records stay stored, and judged ones judged        *)
(* (QueueInv).  From there: no line is removed too early, and what has     *)
(* been acknowledged survives.  And the other way round, a line that is no *)
(* longer needed is on its way out (LeavesInv), so that a shutdown which   *)
(* waits for the operations under way leaves none behind.                  *)
(***************************************************************************)
EXTENDS AuditBuffer, TLAPS

\* An operation may be done whatever happens before its turn.
Harmless(op, stored, givenUp) ==
    /\ op.kind = "trim" => op.recs \subseteq stored
    /\ op.kind = "discard" => op.recs \subseteq givenUp
    /\ op.kind = "durable" => op.recs \subseteq Sensitive

HarmlessQueue(queue, stored, givenUp) ==
    /\ queue \in Seq(Operations)
    /\ \A i \in 1..Len(queue) : Harmless(queue[i], stored, givenUp)

Held == {buffer, flight, zombie, wal}

QueueInv ==
    /\ \A s \in Held : s \subseteq Records
    /\ HarmlessQueue(walChain, db, judged)

-----------------------------------------------------------------------------
\* A queue stays harmless when more is stored and given up, and when harmless
\* operations are added to it.
LEMMA QueueGrows ==
    ASSUME NEW q, NEW more, NEW s1, NEW s2, NEW g1, NEW g2,
           HarmlessQueue(q, s1, g1), HarmlessQueue(more, s2, g2),
           s1 \subseteq s2, g1 \subseteq g2
    PROVE  HarmlessQueue(q \o more, s2, g2)
<1>1. q \o more \in Seq(Operations)
  BY DEF HarmlessQueue
<1>2. ASSUME NEW i \in 1..Len(q \o more)
      PROVE  Harmless((q \o more)[i], s2, g2)
  <2>1. CASE i <= Len(q)
    <3>1. (q \o more)[i] = q[i] /\ i \in 1..Len(q)
      BY <2>1, <1>2 DEF HarmlessQueue
    <3> QED
      BY <3>1 DEF HarmlessQueue, Harmless
  <2>2. CASE i > Len(q)
    <3>1. (q \o more)[i] = more[i - Len(q)] /\ i - Len(q) \in 1..Len(more)
      BY <2>2, <1>2 DEF HarmlessQueue
    <3> QED
      BY <3>1 DEF HarmlessQueue
  <2> QED
    BY <2>1, <2>2, <1>2 DEF HarmlessQueue
<1> QED
  BY <1>1, <1>2 DEF HarmlessQueue

\* What is left of a harmless queue is harmless.
LEMMA QueueShrinks ==
    ASSUME NEW q, NEW s, NEW g, HarmlessQueue(q, s, g), q # << >>
    PROVE  HarmlessQueue(Tail(q), s, g) /\ Harmless(Head(q), s, g) /\ Head(q) \in Operations
<1>1. Tail(q) \in Seq(Operations) /\ Len(Tail(q)) = Len(q) - 1
  BY DEF HarmlessQueue
<1>2. ASSUME NEW i \in 1..Len(Tail(q))
      PROVE  Tail(q)[i] = q[i + 1] /\ i + 1 \in 1..Len(q)
  BY <1>1 DEF HarmlessQueue
<1>3. Head(q) = q[1] /\ 1 \in 1..Len(q) /\ q[1] \in Operations
  BY DEF HarmlessQueue
<1> QED
  BY <1>1, <1>2, <1>3 DEF HarmlessQueue

\* One operation is a queue.
LEMMA QueueOfOne ==
    ASSUME NEW kind \in {"append", "durable", "cap", "trim", "discard", "replay"},
           NEW recs \in SUBSET Records, NEW s, NEW g,
           Harmless(Op(kind, recs), s, g)
    PROVE  HarmlessQueue(<<Op(kind, recs)>>, s, g)
BY DEF HarmlessQueue, Op, Operations

\* Nothing waits in an empty queue.
LEMMA EmptyQueue == ASSUME NEW s, NEW g PROVE HarmlessQueue(<< >>, s, g)
BY DEF HarmlessQueue

\* Asking for a harmless operation leaves the queue harmless.
LEMMA AskHarmless ==
    ASSUME NEW kind \in {"append", "durable", "cap", "trim", "discard", "replay"},
           NEW recs \in SUBSET Records,
           HarmlessQueue(walChain, db, judged),
           db \subseteq db', judged \subseteq judged',
           Harmless(Op(kind, recs), db', judged'),
           Ask(kind, recs)
    PROVE  HarmlessQueue(walChain', db', judged')
<1>1. HarmlessQueue(<<Op(kind, recs)>>, db', judged')
  BY QueueOfOne
<1>2. HarmlessQueue(walChain \o <<Op(kind, recs)>>, db', judged')
  BY <1>1, QueueGrows
<1>3. HarmlessQueue(walChain \o << >>, db', judged')
  BY EmptyQueue, QueueGrows
<1>4. walChain \o << >> = walChain /\
      Append(walChain, Op(kind, recs)) = walChain \o <<Op(kind, recs)>>
  BY DEF HarmlessQueue, Op, Operations
<1> QED
  BY <1>2, <1>3, <1>4 DEF Ask

\* A queue nobody adds to stays harmless while more is stored and given up.
LEMMA QueueStays ==
    ASSUME HarmlessQueue(walChain, db, judged),
           db \subseteq db', judged \subseteq judged', walChain' = walChain
    PROVE  HarmlessQueue(walChain', db', judged')
BY DEF HarmlessQueue, Harmless

-----------------------------------------------------------------------------
\* An operation that is done leaves a harmless queue, whether or not the limit of
\* the log is checked after it.
LEMMA DoneHarmless ==
    ASSUME HarmlessQueue(walChain, db, judged), walChain # << >>,
           db' = db, judged' = judged, OpDone \/ OpCaps
    PROVE  HarmlessQueue(walChain', db', judged')
<1>1. HarmlessQueue(Tail(walChain), db, judged)
  BY QueueShrinks
<1>2. HarmlessQueue(<<Op("cap", {})>>, db, judged)
  BY QueueOfOne DEF Harmless, Op
<1>3. HarmlessQueue(<<Op("cap", {})>> \o Tail(walChain), db, judged)
  BY <1>1, <1>2, QueueGrows
<1> QED
  BY <1>1, <1>3 DEF OpDone, OpCaps

\* Every record the queue is asked to trim is stored when it is asked for.
LEMMA SettlesHarmless ==
    ASSUME QueueInv, NEW kind, NEW stored, NEW back,
           stored \subseteq flight, back \subseteq flight,
           stored \subseteq db', db \subseteq db', FlushSettles(kind, stored, back)
    PROVE  QueueInv'
<1> DEFINE doomed == Doomed(kind, back)
           trims == IF stored = {} THEN << >> ELSE <<Op("trim", Trimmed(stored, flight))>>
           discards == IF doomed = {} THEN << >> ELSE <<Op("discard", doomed)>>
<1>1. doomed \subseteq back
  BY DEF Doomed
<1>2. judged' = judged \cup doomed /\ walChain' = walChain \o trims \o discards
  BY DEF FlushSettles
<1>3. HarmlessQueue(trims, db', judged')
  <2>1. CASE stored = {}
    BY <2>1, EmptyQueue
  <2>2. CASE stored # {}
    <3>1. stored \subseteq Records
      BY DEF QueueInv, Held
    <3>2. Harmless(Op("trim", stored), db', judged')
      BY DEF Harmless, Op
    <3> QED
      BY <2>2, <3>1, <3>2, QueueOfOne DEF Trimmed
  <2> QED
    BY <2>1, <2>2
<1>4. HarmlessQueue(discards, db', judged')
  <2>1. CASE doomed = {}
    BY <2>1, EmptyQueue
  <2>2. CASE doomed # {}
    <3>1. doomed \subseteq Records
      BY <1>1 DEF QueueInv, Held
    <3>2. Harmless(Op("discard", doomed), db', judged')
      BY <1>2 DEF Harmless, Op
    <3> QED
      BY <2>2, <3>1, <3>2, QueueOfOne
  <2> QED
    BY <2>1, <2>2
<1>5. HarmlessQueue(walChain', db', judged')
  <2>1. HarmlessQueue(walChain \o trims, db', judged')
    BY <1>2, <1>3, QueueGrows DEF QueueInv
  <2> HIDE DEF trims, discards
  <2> QED
    BY <2>1, <1>2, <1>4, QueueGrows
<1>6. buffer' \subseteq Records
  BY <1>1 DEF FlushSettles, PutBack, EnforceBufferLimit, QueueInv, Held
<1>7. flight' \subseteq Records /\ zombie' \subseteq Records /\ wal' \subseteq Records
  BY DEF FlushSettles, FlushEnds, fileVars, QueueInv, Held
<1> QED
  BY <1>5, <1>6, <1>7 DEF QueueInv, Held

\* The operations of the log keep the invariant.
LEMMA LogHarmless == ASSUME QueueInv, WalStep PROVE QueueInv'
<1>1. walChain # << >> /\ HarmlessQueue(walChain, db, judged) /\ Target \in SUBSET Records
  BY QueueShrinks DEF QueueInv, WalStep, WalAppend, WalAppendDurable, WalCap, WalTrim,
     WalDiscard, WalReplay, HeadIs, Target, Operations
<1>2. db' = db /\ judged' = judged /\ flight' = flight /\ zombie' = zombie
  BY DEF WalStep, WalAppend, WalAppendDurable, WalCap, WalTrim, WalDiscard, WalReplay,
     flushVars
<1>3. OpDone \/ OpCaps
  BY DEF WalStep, WalAppend, WalAppendDurable, WalCap, WalTrim, WalDiscard, WalReplay
<1>4. HarmlessQueue(walChain', db', judged')
  BY <1>1, <1>2, <1>3, DoneHarmless
<1>5. wal' \subseteq Records
  BY <1>1 DEF WalStep, WalAppend, WalAppendDurable, WalCap, WalTrim, WalDiscard, WalReplay,
     LineWritten, LineFails, LinesRemoved, QueueInv, Held
<1>6. buffer' \subseteq Records
  BY DEF WalStep, WalAppend, WalAppendDurable, WalCap, WalTrim, WalDiscard, WalReplay,
     Replayed, EnforceBufferLimit, QueueInv, Held
<1> QED
  BY <1>2, <1>4, <1>5, <1>6 DEF QueueInv, Held

\* The steps that only change who may start an fn.
SectionStep == FlushEnters \/ WaitTimeout \/ CreateAbandoned \/ FenceOpens

AllButSection ==
    <<seen, buffer, taken, overflowed, flushing, flight, zombie, strikes, spoolVars,
      stopVars, enabled, chainVars, fileVars, db, acked, judged>>

LEMMA SectionStepKeeps == SectionStep => UNCHANGED AllButSection
BY DEF SectionStep, AllButSection, FlushEnters, WaitTimeout, CreateAbandoned, FenceOpens,
   AllButFence

\* Every other step keeps it: records are only added to what is stored and judged.
LEMMA StepHarmless == QueueInv /\ [Next]_vars => QueueInv'
<1> SUFFICES ASSUME QueueInv, [Next]_vars PROVE QueueInv'
  OBVIOUS
<1> USE DEF QueueInv, Held
<1>1. ASSUME NEW r \in Records, Push(r) PROVE QueueInv'
  <2>1. CASE enabled
    <3>1. Harmless(Op("append", {r}), db', judged')
      BY DEF Harmless, Op
    <3>2. Ask("append", {r}) /\ db' = db /\ judged' = judged
      BY <1>1, <2>1 DEF Push
    <3>3. HarmlessQueue(walChain', db', judged')
      BY <3>1, <3>2, AskHarmless
    <3> QED
      BY <1>1, <3>3 DEF Push, EnforceBufferLimit, flushVars, fileVars
  <2>2. CASE ~enabled
    BY <1>1, <2>2, QueueStays DEF Push, EnforceBufferLimit, flushVars, fileVars
  <2> QED
    BY <2>1, <2>2
<1>2. ASSUME NEW r \in Records, CreateStored(r) PROVE QueueInv'
  BY <1>2, QueueStays DEF CreateStored, flushVars, fileVars, chainVars
<1>3. ASSUME NEW r \in Records, CreateFails(r) PROVE QueueInv'
  <2>1. CASE r \notin Malformed /\ enabled
    <3>1. Harmless(Op("durable", {r}), db', judged')
      BY <1>3 DEF Harmless, Op, CreateFails
    <3>2. Ask("durable", {r}) /\ db' = db /\ judged' = judged
      BY <1>3, <2>1 DEF CreateFails
    <3>3. HarmlessQueue(walChain', db', judged')
      BY <3>1, <3>2, AskHarmless
    <3> QED
      BY <1>3, <3>3 DEF CreateFails, flushVars, fileVars
  <2>2. CASE ~(r \notin Malformed /\ enabled)
    BY <1>3, <2>2, QueueStays DEF CreateFails, flushVars, fileVars
  <2> QED
    BY <2>1, <2>2
<1>4. ASSUME NEW r \in Records, SpoolReturns(r) PROVE QueueInv'
  BY <1>4, QueueStays DEF SpoolReturns, EnforceBufferLimit, flushVars, fileVars, chainVars
<1>5. ASSUME FlushBegin PROVE QueueInv'
  <2>1. PICK batch \in SUBSET buffer :
            /\ buffer' = buffer \ batch
            /\ flight' = batch \ Malformed
            /\ judged' = judged \cup (batch \cap Malformed)
            /\ Ask("discard", batch \cap Malformed)
    BY <1>5 DEF FlushBegin
  <2>2. Harmless(Op("discard", batch \cap Malformed), db', judged')
    BY <2>1 DEF Harmless, Op
  <2>3. HarmlessQueue(walChain', db', judged')
    BY <2>1, <2>2, <1>5, AskHarmless DEF FlushBegin
  <2> QED
    BY <1>5, <2>1, <2>3 DEF FlushBegin, fileVars
<1>6. ASSUME FlushDone PROVE QueueInv'
  BY <1>6, SettlesHarmless DEF FlushDone
<1>7. ASSUME FlushBroken PROVE QueueInv'
  <2>1. PICK landed \in SUBSET (flight \ Refused), told \in BOOLEAN :
            LET stored == IF told THEN (flight \cap db) \cup landed ELSE {}
            IN  db' = db \cup landed /\ FlushSettles("infra", stored, flight \ stored)
    BY <1>7 DEF FlushBroken
  <2> QED
    BY <2>1, SettlesHarmless
<1>8. ASSUME FlushAbandoned PROVE QueueInv'
  BY <1>8, QueueStays
     DEF FlushAbandoned, PutBack, EnforceBufferLimit, FlushEnds, fileVars, chainVars
<1>9. ASSUME ZombieEnds PROVE QueueInv'
  <2>1. PICK landed \in SUBSET (zombie \ Refused), told \in BOOLEAN :
            LET stored == IF told THEN (zombie \cap db) \cup landed ELSE {}
            IN  /\ db' = db \cup landed
                /\ buffer' = buffer \ stored
                /\ Ask("trim", Trimmed(stored, zombie))
    BY <1>9 DEF ZombieEnds
  <2> DEFINE stored == IF told THEN (zombie \cap db) \cup landed ELSE {}
  <2>2. stored \subseteq Records /\ stored \subseteq db' /\ Ask("trim", stored)
    BY <2>1 DEF Trimmed
  <2>3. Harmless(Op("trim", stored), db', judged')
    BY <2>2 DEF Harmless, Op
  <2>4. db \subseteq db' /\ judged' = judged
    BY <1>9, <2>1 DEF ZombieEnds
  <2>5. HarmlessQueue(walChain', db', judged')
    <3> HIDE DEF stored
    <3> QED
      BY <2>2, <2>3, <2>4, AskHarmless
  <2> QED
    BY <1>9, <2>1, <2>5 DEF ZombieEnds, fileVars
<1>10. ASSUME WalStep PROVE QueueInv'
  BY <1>10, LogHarmless
<1>11. ASSUME Start PROVE QueueInv'
  <2>1. Harmless(Op("replay", {}), db', judged')
    BY DEF Harmless, Op
  <2>2. HarmlessQueue(<<Op("replay", {})>>, db', judged')
    BY <2>1, QueueOfOne
  <2> QED
    BY <1>11, <2>2 DEF Start, flushVars, fileVars
<1>12. ASSUME StopBegins \/ DrainEnds \/ Stop PROVE QueueInv'
  BY <1>12, QueueStays DEF StopBegins, DrainEnds, Stop, flushVars, fileVars, chainVars
<1>13. ASSUME Die PROVE QueueInv'
  BY <1>13, EmptyQueue DEF Die, FlushEnds, fileVars
<1>14. ASSUME SectionStep \/ UNCHANGED vars PROVE QueueInv'
  BY <1>14, SectionStepKeeps, QueueStays
     DEF AllButSection, vars, flushVars, fileVars, chainVars
<1>15. ASSUME FlushTurnedAway PROVE QueueInv'
  BY <1>15, QueueStays
     DEF FlushTurnedAway, PutBack, EnforceBufferLimit, FlushEnds, fileVars, chainVars
<1> QED
  BY <1>1, <1>2, <1>3, <1>4, <1>5, <1>6, <1>7, <1>8, <1>9, <1>10, <1>11, <1>12, <1>13,
     <1>14, <1>15 DEF Next, SectionStep

\* Every operation that waits for its turn is harmless: the records to trim are
\* stored, those to archive are given up.
THEOREM QueueInvariant == Spec => []QueueInv
<1>1. Init => QueueInv
  BY EmptyQueue DEF Init, QueueInv, Held
<1> QED
  BY <1>1, StepHarmless, PTL DEF Spec

-----------------------------------------------------------------------------
(* Lines of the log, when no write is cut off in the middle *)

NoTear == openEnd = None

\* Without torn writes every line ends with a newline, so that no line is ever
\* written behind the rest of another.
LEMMA NoTearStep == "torn" \notin FaultKinds /\ NoTear /\ [Next]_vars => NoTear'
BY DEF NoTear, Next, vars, Push, CreateStored, CreateFails, SpoolReturns, FlushBegin,
   FlushDone, FlushBroken, FlushSettles, FlushEnters, FlushTurnedAway, FlushAbandoned,
   ZombieEnds, WaitTimeout, CreateAbandoned, FenceOpens, AllButFence, WalStep, WalAppend,
   WalAppendDurable, WalCap, WalTrim, WalDiscard, WalReplay, LineWritten, LineFails,
   LinesRemoved, Fault, MayFail, Start, StopBegins, DrainEnds, Stop, Die, fileVars

\* What the next operation of the log is asked for is harmless.
LEMMA TargetHarmless ==
    ASSUME QueueInv, walChain # << >>
    PROVE  Harmless(Head(walChain), db, judged)
BY QueueShrinks DEF QueueInv

\* A line that leaves the log is stored or archived.
LEMMA LineLeaves ==
    ASSUME QueueInv, NoTear, [Next]_vars
    PROVE  wal \ wal' \subseteq db \cup discarded'
<1>1. CASE WalTrim
  <2>1. Target \subseteq db
    BY <1>1, TargetHarmless DEF WalTrim, HeadIs, Target, Harmless
  <2> QED
    BY <1>1, <2>1 DEF WalTrim, LinesRemoved
<1>2. CASE WalDiscard
  BY <1>2 DEF WalDiscard, LinesRemoved
<1>3. CASE WalCap
  BY <1>3 DEF WalCap
<1>4. CASE WalAppend \/ WalAppendDurable
  BY <1>4, BufferAssumption
     DEF WalAppend, WalAppendDurable, LineWritten, LineFails, NoTear, QueueInv, Held
<1>5. CASE ~(WalTrim \/ WalDiscard \/ WalCap \/ WalAppend \/ WalAppendDurable)
  BY <1>5 DEF Next, vars, Push, CreateStored, CreateFails, SpoolReturns, FlushBegin,
     FlushDone, FlushBroken, FlushSettles, FlushEnters, FlushTurnedAway, FlushAbandoned,
     ZombieEnds, WaitTimeout, CreateAbandoned, FenceOpens, AllButFence, WalStep, WalReplay,
     Start, StopBegins, DrainEnds, Stop, Die, fileVars
<1> QED
  BY <1>1, <1>2, <1>3, <1>4, <1>5

\* removeWalLinesBySeqs, enforceWalLimit: a line leaves the log only when its
\* record is stored or archived, if no write is cut off in the middle.
THEOREM LinesAreKept == ASSUME "torn" \notin FaultKinds PROVE Spec => NoLineLost
<1>1. Init => NoTear
  BY DEF Init, NoTear
<1>2. NoTear /\ [Next]_vars => NoTear'
  BY NoTearStep
<1>3. Spec => []NoTear
  BY <1>1, <1>2, PTL DEF Spec
<1>4. QueueInv /\ NoTear /\ [Next]_vars => [wal \ wal' \subseteq db \cup discarded']_vars
  BY LineLeaves
<1> QED
  BY <1>3, <1>4, QueueInvariant, PTL DEF Spec, NoLineLost

-----------------------------------------------------------------------------
(* The promise of recordDurably *)

Safe(r) == r \in db \cup judged \/ (r \in wal /\ r \notin discarded)

PromiseInv ==
    /\ acked \cup written \subseteq Sensitive
    /\ discarded \subseteq judged \cup Ordinary
    /\ \A r \in acked \cup written : Safe(r)

\* No step takes back what recordDurably has promised.
LEMMA PromiseStep ==
    ASSUME ~AllowDurableTrim, QueueInv, NoTear, PromiseInv, [Next]_vars
    PROVE  PromiseInv'
<1>1. CASE WalTrim
  <2>1. Target \subseteq db
    BY <1>1, TargetHarmless DEF WalTrim, HeadIs, Target, Harmless
  <2> QED
    BY <1>1, <2>1 DEF WalTrim, LinesRemoved, PromiseInv, Safe, spoolVars
<1>2. CASE WalDiscard
  <2>1. Target \subseteq judged
    BY <1>2, TargetHarmless DEF WalDiscard, HeadIs, Target, Harmless
  <2>2. wal \ wal' \subseteq judged /\ discarded' \subseteq discarded \cup judged
    BY <1>2, <2>1 DEF WalDiscard, LinesRemoved
  <2> QED
    BY <1>2, <2>2 DEF WalDiscard, PromiseInv, Safe, spoolVars
<1>3. CASE WalCap
  <2>1. wal \ wal' \subseteq Ordinary /\ discarded' \subseteq discarded \cup Ordinary
    BY <1>3 DEF WalCap
  <2> QED
    BY <1>3, <2>1 DEF WalCap, PromiseInv, Safe, Ordinary, spoolVars
<1>4. CASE WalAppend
  <2>1. wal \subseteq wal'
    BY <1>4, BufferAssumption DEF WalAppend, LineWritten, LineFails, NoTear, QueueInv, Held
  <2> QED
    BY <1>4, <2>1 DEF WalAppend, PromiseInv, Safe, spoolVars
<1>5. CASE WalAppendDurable
  <2>1. Target \subseteq Sensitive
    BY <1>5, TargetHarmless DEF WalAppendDurable, HeadIs, Target, Harmless
  <2>2. wal \subseteq wal' /\ written' \subseteq written \cup (Target \cap wal')
    BY <1>5, BufferAssumption
       DEF WalAppendDurable, LineWritten, LineFails, NoTear, QueueInv, Held
  <2> QED
    BY <1>5, <2>1, <2>2 DEF WalAppendDurable, PromiseInv, Safe, Ordinary
<1>6. CASE \E r \in Records : CreateStored(r) \/ SpoolReturns(r)
  BY <1>6 DEF CreateStored, SpoolReturns, PromiseInv, Safe, spoolVars, fileVars
<1>7. CASE FlushDone \/ FlushBroken
  <2>1. db \subseteq db' /\ judged \subseteq judged'
    BY <1>7 DEF FlushDone, FlushBroken, FlushSettles
  <2>2. UNCHANGED <<acked, written, wal, discarded>>
    BY <1>7 DEF FlushDone, FlushBroken, FlushSettles, fileVars, spoolVars
  <2> QED
    BY <2>1, <2>2 DEF PromiseInv, Safe
<1>8. CASE FlushBegin \/ ZombieEnds \/ FlushAbandoned \/ FlushTurnedAway
  <2>1. db \subseteq db' /\ judged \subseteq judged'
    BY <1>8 DEF FlushBegin, ZombieEnds, FlushAbandoned, FlushTurnedAway
  <2>2. UNCHANGED <<acked, written, wal, discarded>>
    BY <1>8 DEF FlushBegin, ZombieEnds, FlushAbandoned, FlushTurnedAway, fileVars, spoolVars
  <2> QED
    BY <2>1, <2>2 DEF PromiseInv, Safe
<1>9. CASE Die
  BY <1>9 DEF Die, PromiseInv, Safe, fileVars
<1>10. CASE \/ \E r \in Records : Push(r) \/ CreateFails(r)
            \/ WalReplay \/ Start \/ StopBegins \/ DrainEnds \/ Stop
            \/ SectionStep \/ UNCHANGED vars
  <2>1. UNCHANGED <<acked, written, wal, discarded, db, judged>>
    BY <1>10, SectionStepKeeps DEF Push, CreateFails, WalReplay, Start, StopBegins, DrainEnds,
       Stop, AllButSection, vars, fileVars, spoolVars
  <2> QED
    BY <2>1 DEF PromiseInv, Safe
<1> QED
  BY <1>1, <1>2, <1>3, <1>4, <1>5, <1>6, <1>7, <1>8, <1>9, <1>10
     DEF Next, WalStep, SectionStep

\* recordDurably: what has been acknowledged survives every crash, timeout, partial
\* insertion and failed file operation, if no write is cut off in the middle and
\* AUDIT_WAL_ALLOW_DURABLE_TRIM is not set.
THEOREM AckedRecordsSurvive ==
    ASSUME "torn" \notin FaultKinds, ~AllowDurableTrim
    PROVE  Spec => []AckedSurvives
<1>1. Init => NoTear /\ PromiseInv
  BY DEF Init, NoTear, PromiseInv
<1>2. NoTear /\ [Next]_vars => NoTear'
  BY NoTearStep
<1>3. QueueInv /\ NoTear /\ PromiseInv /\ [Next]_vars => PromiseInv'
  BY PromiseStep
<1>4. PromiseInv => AckedSurvives
  BY DEF PromiseInv, AckedSurvives, Safe
<1> QED
  BY <1>1, <1>2, <1>3, <1>4, QueueInvariant, PTL DEF Spec

-----------------------------------------------------------------------------
(* Memory *)

MemoryInv ==
    /\ NothingForgotten
    /\ ~Up => taken = {}
    /\ flushing \/ flight = {}
    /\ judged \subseteq Malformed \cup Refused

\* The end of a flush loses none of its records.
LEMMA SettlesForgetsNothing ==
    ASSUME Up, MemoryInv, NEW kind, NEW stored, NEW back,
           flight \subseteq stored \cup back, stored \subseteq db', db \subseteq db',
           kind = "refused" => back \subseteq Refused,
           FlushSettles(kind, stored, back)
    PROVE  MemoryInv'
<1>1. Doomed(kind, back) \subseteq back \cap Refused
  BY DEF Doomed, IsContentFault
<1>2. judged' = judged \cup Doomed(kind, back)
  BY DEF FlushSettles
<1>3. buffer \cup back \subseteq buffer' \cup overflowed' \cup judged'
  BY <1>2 DEF FlushSettles, PutBack, EnforceBufferLimit
<1>4. overflowed \subseteq overflowed' /\ taken' = taken /\ Up' /\ flight' = {}
  BY DEF FlushSettles, PutBack, EnforceBufferLimit, FlushEnds, stopVars, Up
<1> QED
  BY <1>1, <1>2, <1>3, <1>4 DEF MemoryInv, NothingForgotten

\* No step forgets a record, or gives up a good one.
LEMMA MemoryStep == MemoryInv /\ [Next]_vars => MemoryInv'
<1> SUFFICES ASSUME MemoryInv, [Next]_vars PROVE MemoryInv'
  OBVIOUS
<1>1. CASE \/ \E r \in Records : Push(r) \/ SpoolReturns(r)
           \/ WalReplay
  <2>1. /\ UNCHANGED <<flight, flushing, db, judged, phase>> /\ Up
        /\ overflowed \subseteq overflowed'
        /\ (taken' \ taken) \cup buffer \subseteq buffer' \cup overflowed'
    BY <1>1 DEF Push, SpoolReturns, WalReplay, HeadIs, EnforceBufferLimit, flushVars, stopVars
  <2> QED
    BY <2>1 DEF MemoryInv, NothingForgotten, Up
<1>2. CASE FlushBegin
  BY <1>2 DEF FlushBegin, MemoryInv, NothingForgotten, stopVars, Up
<1>3. CASE FlushDone
  BY <1>3, SettlesForgetsNothing DEF FlushDone
<1>4. CASE FlushBroken
  <2>1. PICK landed \in SUBSET (flight \ Refused), told \in BOOLEAN :
            LET stored == IF told THEN (flight \cap db) \cup landed ELSE {}
            IN  db' = db \cup landed /\ FlushSettles("infra", stored, flight \ stored)
    BY <1>4 DEF FlushBroken
  <2> QED
    BY <1>4, <2>1, SettlesForgetsNothing DEF FlushBroken
<1>5. CASE FlushAbandoned \/ FlushTurnedAway
  BY <1>5 DEF FlushAbandoned, FlushTurnedAway, PutBack, EnforceBufferLimit, FlushEnds,
     MemoryInv, NothingForgotten, stopVars, Up
<1>6. CASE ZombieEnds
  BY <1>6 DEF ZombieEnds, MemoryInv, NothingForgotten, stopVars, Up
<1>7. CASE Die
  BY <1>7 DEF Die, FlushEnds, MemoryInv, NothingForgotten, Up
<1>8. CASE Start
  BY <1>8 DEF Start, MemoryInv, NothingForgotten, flushVars, Up
<1>9. CASE \/ \E r \in Records : CreateStored(r) \/ CreateFails(r)
           \/ WalAppend \/ WalAppendDurable \/ WalCap \/ WalTrim \/ WalDiscard
           \/ StopBegins \/ DrainEnds \/ Stop \/ SectionStep \/ UNCHANGED vars
  <2>1. /\ UNCHANGED <<buffer, flight, flushing, taken, overflowed, judged>>
        /\ db \subseteq db' /\ (Up <=> Up')
    BY <1>9, SectionStepKeeps
       DEF CreateStored, CreateFails, WalAppend, WalAppendDurable, WalCap, WalTrim,
       WalDiscard, StopBegins, DrainEnds, Stop, AllButSection, vars, flushVars, stopVars,
       HeadIs, Up
  <2> QED
    BY <2>1 DEF MemoryInv, NothingForgotten
<1> QED
  BY <1>1, <1>2, <1>3, <1>4, <1>5, <1>6, <1>7, <1>8, <1>9 DEF Next, WalStep, SectionStep

\* flush, retractDurable and enforceBufferLimit forget no record that has entered
\* the buffer, whatever fails or times out.
THEOREM NothingIsForgotten == Spec => []NothingForgotten
<1>1. Init => MemoryInv
  BY DEF Init, MemoryInv, NothingForgotten, Up
<1>2. MemoryInv => NothingForgotten
  BY DEF MemoryInv
<1> QED
  BY <1>1, <1>2, MemoryStep, PTL DEF Spec

\* settleContentFaultStrikes gives up no record for a failure of the connection.
THEOREM GoodRecordsStay == Spec => []OnlyBadRecordsJudged
<1>1. Init => MemoryInv
  BY DEF Init, MemoryInv, NothingForgotten, Up
<1>2. MemoryInv => OnlyBadRecordsJudged
  BY DEF MemoryInv, OnlyBadRecordsJudged
<1> QED
  BY <1>1, <1>2, MemoryStep, PTL DEF Spec

\* flushAndStop reports the buffer drained only when it is: a batch in flight, or
\* one that a timeout has put back, counts.
THEOREM ReportsAreTrue == Spec => []ReportIsTrue
<1>1. Init => MemoryInv /\ ReportIsTrue
  BY DEF Init, MemoryInv, NothingForgotten, ReportIsTrue, Up
<1>2. ASSUME MemoryInv, ReportIsTrue, [Next]_vars PROVE ReportIsTrue'
  <2>1. CASE DrainEnds
    <3>1. Drained => taken \ (overflowed \cup judged) \subseteq db
      BY <1>2, <2>1 DEF Drained, DrainEnds, MemoryInv, NothingForgotten, Up
    <3> QED
      BY <2>1, <3>1 DEF DrainEnds, ReportIsTrue
  <2>2. CASE Die
    BY <2>2 DEF Die, ReportIsTrue
  <2>3. CASE ~(DrainEnds \/ Die)
    <3>1. reported' = reported /\ db \subseteq db'
      BY <1>2, <2>3 DEF Next, vars, Push, CreateStored, CreateFails, SpoolReturns, FlushBegin,
         FlushDone, FlushBroken, FlushSettles, FlushEnters, FlushTurnedAway, FlushAbandoned,
         ZombieEnds, WaitTimeout, CreateAbandoned, FenceOpens, AllButFence, WalStep, WalAppend,
         WalAppendDurable, WalCap, WalTrim, WalDiscard, WalReplay, Start, StopBegins, Stop,
         stopVars
    <3> QED
      BY <1>2, <3>1 DEF ReportIsTrue
  <2> QED
    BY <2>1, <2>2, <2>3
<1> QED
  BY <1>1, <1>2, MemoryStep, PTL DEF Spec

-----------------------------------------------------------------------------
(* A shutdown that has reported success *)

\* Sequences of operations: what is appended, what is left, what a cap replaces.
LEMMA Joined ==
    ASSUME NEW q \in Seq(Operations), NEW more \in Seq(Operations)
    PROVE  /\ q \o more \in Seq(Operations)
           /\ Len(q \o more) = Len(q) + Len(more)
           /\ \A i \in 1..Len(q) : (q \o more)[i] = q[i]
           /\ \A i \in 1..Len(q \o more) : i > Len(q) =>
                 i - Len(q) \in 1..Len(more) /\ (q \o more)[i] = more[i - Len(q)]
           /\ \A i \in 1..Len(more) :
                 Len(q) + i \in 1..Len(q \o more) /\ (q \o more)[Len(q) + i] = more[i]
OBVIOUS

LEMMA Rest ==
    ASSUME NEW q \in Seq(Operations), q # << >>
    PROVE  /\ Tail(q) \in Seq(Operations) /\ Len(q) \in Nat \ {0}
           /\ Len(Tail(q)) = Len(q) - 1
           /\ Head(q) = q[1]
           /\ \A i \in 1..Len(Tail(q)) : Tail(q)[i] = q[i + 1]
OBVIOUS

LEMMA Capped ==
    ASSUME NEW q \in Seq(Operations), q # << >>
    PROVE  LET c == <<Op("cap", {})>> \o Tail(q)
           IN  /\ c \in Seq(Operations) /\ Len(c) = Len(q) /\ c[1] = Op("cap", {})
               /\ \A i \in 1..Len(q) : i > 1 => c[i] = q[i]
<1> DEFINE one == <<Op("cap", {})>>
<1>1. one \in Seq(Operations) /\ Len(one) = 1 /\ one[1] = Op("cap", {})
  BY DEF Op, Operations
<1> HIDE DEF one
<1>2. /\ Tail(q) \in Seq(Operations) /\ Len(q) \in Nat \ {0}
      /\ Len(Tail(q)) = Len(q) - 1
      /\ \A i \in 1..Len(Tail(q)) : Tail(q)[i] = q[i + 1]
  BY Rest
<1>3. /\ one \o Tail(q) \in Seq(Operations) /\ Len(one \o Tail(q)) = Len(q)
      /\ (one \o Tail(q))[1] = Op("cap", {})
  <2>1. /\ one \o Tail(q) \in Seq(Operations)
        /\ Len(one \o Tail(q)) = Len(one) + Len(Tail(q))
        /\ \A i \in 1..Len(one) : (one \o Tail(q))[i] = one[i]
    BY <1>1, <1>2, Joined
  <2>2. 1 \in 1..Len(one)
    BY <1>1
  <2> QED
    BY <1>1, <1>2, <2>1, <2>2
<1>4. ASSUME NEW i \in 1..Len(q), i > 1
      PROVE  (one \o Tail(q))[i] = q[i]
  <2>1. i - 1 \in 1..Len(Tail(q)) /\ (one \o Tail(q))[i] = Tail(q)[i - 1]
    BY <1>1, <1>2, <1>3, <1>4, Joined
  <2>2. Tail(q)[i - 1] = q[(i - 1) + 1]
    BY <1>2, <2>1
  <2>3. (i - 1) + 1 = i
    BY <1>2
  <2> QED
    BY <2>1, <2>2, <2>3
<1> QED
  BY <1>3, <1>4 DEF one

LEMMA OneOp ==
    ASSUME NEW kind \in {"append", "durable", "cap", "trim", "discard", "replay"},
           NEW recs \in SUBSET Records
    PROVE  /\ <<Op(kind, recs)>> \in Seq(Operations)
           /\ \A i \in 1..Len(<<Op(kind, recs)>>) : <<Op(kind, recs)>>[i] = Op(kind, recs)
<1>1. Op(kind, recs) \in Operations
  BY DEF Op, Operations
<1> QED
  BY <1>1

\* Operations that write a line of r, and operations that remove it.
Writes(op, r) == op.kind \in {"append", "durable"} /\ r \in op.recs
Trims(op, r)  == op.kind = "trim" /\ r \in op.recs

\* r has no line and gets none, or one of the first d operations removes its line
\* and nothing writes it again.
Leaves(q, d, r, inLog) ==
    \/ ~inLog /\ \A i \in 1..Len(q) : ~Writes(q[i], r)
    \/ \E j \in 1..d : /\ Trims(q[j], r)
                       /\ \A i \in 1..Len(q) : i > j => ~Writes(q[i], r)

\* It stays so when what is added does not write r; a removal among that is enough.
LEMMA LeavesJoined ==
    ASSUME NEW q \in Seq(Operations), NEW more \in Seq(Operations), NEW r, NEW inLog \in BOOLEAN,
           NEW d \in 0..Len(q), NEW e \in d..Len(q \o more),
           \A i \in 1..Len(more) : ~Writes(more[i], r),
           \/ Leaves(q, d, r, inLog)
           \/ e = Len(q \o more) /\ \E i \in 1..Len(more) : Trims(more[i], r)
    PROVE  Leaves(q \o more, e, r, inLog)
<1>1. /\ q \o more \in Seq(Operations) /\ Len(q \o more) = Len(q) + Len(more)
      /\ Len(q) \in Nat /\ Len(more) \in Nat
      /\ \A i \in 1..Len(q) : (q \o more)[i] = q[i]
      /\ \A i \in 1..Len(more) :
            Len(q) + i \in 1..Len(q \o more) /\ (q \o more)[Len(q) + i] = more[i]
  BY Joined
<1>2. \A i \in 1..Len(q \o more) : i > Len(q) => ~Writes((q \o more)[i], r)
  BY Joined
<1> DEFINE joined == q \o more
<1> HIDE DEF joined
<1>3. CASE Leaves(q, d, r, inLog)
  <2>1. CASE ~inLog /\ \A i \in 1..Len(q) : ~Writes(q[i], r)
    <3>1. \A i \in 1..Len(joined) : ~Writes(joined[i], r)
      BY <1>1, <1>2, <2>1 DEF joined
    <3> QED
      BY <2>1, <3>1 DEF Leaves, joined
  <2>2. ASSUME NEW j \in 1..d, Trims(q[j], r),
               \A i \in 1..Len(q) : i > j => ~Writes(q[i], r)
        PROVE  Leaves(q \o more, e, r, inLog)
    <3>1. j \in 1..e /\ j \in 1..Len(q) /\ Trims(joined[j], r)
      BY <1>1, <2>2 DEF joined
    <3>2. \A i \in 1..Len(joined) : i > j => ~Writes(joined[i], r)
      BY <1>1, <1>2, <2>2 DEF joined
    <3> QED
      BY <3>1, <3>2 DEF Leaves, joined
  <2> QED
    BY <1>3, <2>1, <2>2 DEF Leaves
<1>4. ASSUME e = Len(q \o more), NEW k \in 1..Len(more), Trims(more[k], r)
      PROVE  Leaves(q \o more, e, r, inLog)
  <2>1. Len(q) + k \in 1..e /\ Trims(joined[Len(q) + k], r)
    BY <1>1, <1>4 DEF joined
  <2>2. \A i \in 1..Len(joined) : i > Len(q) + k => ~Writes(joined[i], r)
    BY <1>1, <1>2, <1>4 DEF joined
  <2> QED
    BY <2>1, <2>2 DEF Leaves, joined
<1> QED
  BY <1>3, <1>4

\* It stays so when the first operation has done what it says.
LEMMA LeavesDone ==
    ASSUME NEW q \in Seq(Operations), q # << >>, NEW r, NEW d \in 0..Len(q),
           NEW before \in BOOLEAN, NEW after \in BOOLEAN,
           Leaves(q, d, r, before),
           after => before \/ Writes(Head(q), r),
           Trims(Head(q), r) => ~after
    PROVE  Leaves(Tail(q), IF d > 0 THEN d - 1 ELSE 0, r, after)
<1>1. /\ Tail(q) \in Seq(Operations) /\ Len(q) \in Nat \ {0}
      /\ Len(Tail(q)) = Len(q) - 1 /\ Head(q) = q[1]
      /\ \A i \in 1..Len(Tail(q)) : Tail(q)[i] = q[i + 1]
  BY Rest
<1> DEFINE rest == Tail(q)
<1> HIDE DEF rest
<1>2. CASE ~before /\ \A i \in 1..Len(q) : ~Writes(q[i], r)
  <2>1. \A i \in 1..Len(rest) : ~Writes(rest[i], r)
    BY <1>1, <1>2 DEF rest
  <2>2. ~after
    BY <1>1, <1>2
  <2> QED
    BY <2>1, <2>2 DEF Leaves, rest
<1>3. ASSUME NEW j \in 1..d, Trims(q[j], r),
             \A i \in 1..Len(q) : i > j => ~Writes(q[i], r)
      PROVE  Leaves(Tail(q), IF d > 0 THEN d - 1 ELSE 0, r, after)
  <2>1. \A i \in 1..Len(rest) : i > j - 1 => ~Writes(rest[i], r)
    BY <1>1, <1>3 DEF rest
  <2>2. CASE j = 1
    <3>1. ~after /\ \A i \in 1..Len(rest) : ~Writes(rest[i], r)
      BY <1>1, <1>3, <2>1, <2>2
    <3> QED
      BY <3>1 DEF Leaves, rest
  <2>3. CASE j # 1
    <3>1. j - 1 \in 1..(d - 1) /\ d > 0 /\ Trims(rest[j - 1], r)
      <4>1. j - 1 \in 1..Len(rest) /\ (j - 1) + 1 = j
        BY <1>1, <2>3 DEF rest
      <4>2. rest[j - 1] = q[j]
        BY <1>1, <4>1 DEF rest
      <4> QED
        BY <1>3, <2>3, <4>2
    <3> QED
      BY <2>1, <3>1 DEF Leaves, rest
  <2> QED
    BY <2>2, <2>3
<1> QED
  BY <1>2, <1>3 DEF Leaves

\* It stays so when a cap takes the place of the first operation, a write.
LEMMA LeavesCapped ==
    ASSUME NEW q \in Seq(Operations), q # << >>, NEW r, NEW d \in 0..Len(q),
           NEW before \in BOOLEAN, NEW after \in BOOLEAN,
           Leaves(q, d, r, before), Head(q).kind # "trim",
           after => before \/ Writes(Head(q), r)
    PROVE  Leaves(<<Op("cap", {})>> \o Tail(q), d, r, after)
<1> DEFINE c == <<Op("cap", {})>> \o Tail(q)
<1>1. /\ Len(q) \in Nat \ {0} /\ Head(q) = q[1]
      /\ Len(c) = Len(q) /\ c[1] = Op("cap", {})
      /\ \A i \in 1..Len(q) : i > 1 => c[i] = q[i]
  BY Rest, Capped
<1> HIDE DEF c
<1>2. ~Writes(c[1], r)
  BY <1>1 DEF Writes, Op
<1>3. CASE ~before /\ \A i \in 1..Len(q) : ~Writes(q[i], r)
  <2>1. ~after /\ \A i \in 1..Len(c) : ~Writes(c[i], r)
    BY <1>1, <1>2, <1>3
  <2> QED
    BY <2>1 DEF Leaves, c
<1>4. ASSUME NEW j \in 1..d, Trims(q[j], r),
             \A i \in 1..Len(q) : i > j => ~Writes(q[i], r)
      PROVE  Leaves(<<Op("cap", {})>> \o Tail(q), d, r, after)
  <2>1. j # 1
    BY <1>1, <1>4 DEF Trims
  <2>2. Trims(c[j], r) /\ \A i \in 1..Len(c) : i > j => ~Writes(c[i], r)
    BY <1>1, <1>4, <2>1
  <2> QED
    BY <2>2 DEF Leaves, c
<1> QED
  BY <1>3, <1>4 DEF Leaves

\* Nothing has gone wrong with the files so far.
NoFileFault == faults.kinds \cap {"wal", "torn"} = {}

\* Only records that were seen are anywhere; a record gets its line by being seen.
SeenInv ==
    /\ taken \cup wal \cup written \cup reported \subseteq seen
    /\ \A i \in 1..Len(walChain), r \in Records : Writes(walChain[i], r) => r \in seen

StopInv ==
    /\ ~Up => taken = {} /\ reported = {} /\ drainOps = 0
    /\ drainOps \in 0..Len(walChain)
    /\ phase = "stopped" => drainOps = 0

\* Who has entered the buffer and is neither there nor in a flush has no line that
\* stays; what has been reported has none that outlasts the operations the
\* shutdown waits for.
LeavesInv ==
    NoFileFault =>
      /\ \A r \in taken \ (overflowed \cup judged) :
            r \in buffer \cup flight \/ Leaves(walChain, Len(walChain), r, r \in wal)
      /\ \A r \in reported : Leaves(walChain, drainOps, r, r \in wal)

\* What a step does to the queue: it adds operations that write only records nobody
\* has seen before, or does the first one.
LEMMA QueueMoves ==
    ASSUME QueueInv, [Next]_vars
    PROVE  \/ \E more \in Seq(Operations) :
                /\ walChain' = walChain \o more
                /\ \A i \in 1..Len(more), r \in Records :
                      Writes(more[i], r) => r \in seen' \ seen
           \/ WalStep
           \/ Start \/ Die
<1> DEFINE Adds(more) == /\ more \in Seq(Operations)
                         /\ walChain' = walChain \o more
                         /\ \A i \in 1..Len(more), r \in Records :
                               Writes(more[i], r) => r \in seen' \ seen
<1>1. walChain \in Seq(Operations)
  BY DEF QueueInv, HarmlessQueue
<1>2. ASSUME walChain' = walChain
      PROVE  Adds(<< >>)
  BY <1>1, <1>2
<1>3. ASSUME NEW kind \in {"append", "durable", "cap", "trim", "discard", "replay"},
             NEW recs \in SUBSET Records, Ask(kind, recs),
             kind \in {"append", "durable"} => recs \subseteq seen' \ seen
      PROVE  Adds(<< >>) \/ Adds(<<Op(kind, recs)>>)
  <2>1. CASE recs = {}
    BY <1>2, <1>3, <2>1 DEF Ask
  <2>2. CASE recs # {}
    <3>1. /\ <<Op(kind, recs)>> \in Seq(Operations)
          /\ \A i \in 1..Len(<<Op(kind, recs)>>) : <<Op(kind, recs)>>[i] = Op(kind, recs)
      BY OneOp
    <3>2. walChain' = walChain \o <<Op(kind, recs)>>
      BY <1>1, <1>3, <2>2, <3>1 DEF Ask
    <3>3. \A r \in Records : Writes(Op(kind, recs), r) => r \in seen' \ seen
      BY <1>3 DEF Writes, Op
    <3> QED
      BY <3>1, <3>2, <3>3
  <2> QED
    BY <2>1, <2>2
<1>4. ASSUME NEW kind, NEW stored, NEW back, stored \subseteq flight, back \subseteq flight,
             FlushSettles(kind, stored, back)
      PROVE  \E more : Adds(more)
  <2> DEFINE doomed == Doomed(kind, back)
             trims == IF stored = {} THEN << >> ELSE <<Op("trim", Trimmed(stored, flight))>>
             discards == IF doomed = {} THEN << >> ELSE <<Op("discard", doomed)>>
  <2>1. stored \subseteq Records /\ doomed \subseteq Records
    BY <1>4 DEF QueueInv, Held, Doomed
  <2>2. trims \in Seq(Operations) /\ \A i \in 1..Len(trims) : trims[i].kind = "trim"
    <3>1. CASE stored = {}
      BY <3>1
    <3>2. CASE stored # {}
      <4>1. /\ <<Op("trim", stored)>> \in Seq(Operations)
            /\ \A i \in 1..Len(<<Op("trim", stored)>>) :
                  <<Op("trim", stored)>>[i] = Op("trim", stored)
        BY <2>1, OneOp
      <4>2. trims = <<Op("trim", stored)>> /\ Op("trim", stored).kind = "trim"
        BY <3>2 DEF Op, Trimmed
      <4> QED
        BY <4>1, <4>2
    <3> QED
      BY <3>1, <3>2
  <2>3. discards \in Seq(Operations) /\ \A i \in 1..Len(discards) : discards[i].kind = "discard"
    <3>1. CASE doomed = {}
      BY <3>1
    <3>2. CASE doomed # {}
      <4>1. /\ <<Op("discard", doomed)>> \in Seq(Operations)
            /\ \A i \in 1..Len(<<Op("discard", doomed)>>) :
                  <<Op("discard", doomed)>>[i] = Op("discard", doomed)
        <5> HIDE DEF doomed
        <5> QED
          BY <2>1, OneOp
      <4>2. discards = <<Op("discard", doomed)>> /\ Op("discard", doomed).kind = "discard"
        BY <3>2 DEF Op
      <4> QED
        BY <4>1, <4>2
    <3> QED
      BY <3>1, <3>2
  <2>4. walChain' = walChain \o trims \o discards
    BY <1>4 DEF FlushSettles
  <2> HIDE DEF trims, discards
  <2>5. walChain' = walChain \o (trims \o discards) /\ trims \o discards \in Seq(Operations)
    BY <1>1, <2>2, <2>3, <2>4
  <2>6. \A i \in 1..Len(trims \o discards) : (trims \o discards)[i].kind \in {"trim", "discard"}
    BY <2>2, <2>3
  <2>7. \A i \in 1..Len(trims \o discards), r \in Records : ~Writes((trims \o discards)[i], r)
    BY <2>6 DEF Writes
  <2>8. Adds(trims \o discards)
    BY <2>5, <2>7
  <2> QED
    BY <2>8
<1>5. ASSUME NEW r \in Records, Push(r) PROVE \E more : Adds(more)
  <2>1. CASE enabled
    <3>1. Ask("append", {r}) /\ {r} \subseteq seen' \ seen
      BY <1>5, <2>1 DEF Push
    <3> QED
      BY <1>3, <3>1
  <2>2. CASE ~enabled
    BY <1>2, <1>5, <2>2 DEF Push
  <2> QED
    BY <2>1, <2>2
<1>6. ASSUME NEW r \in Records, CreateFails(r) PROVE \E more : Adds(more)
  <2>1. CASE r \notin Malformed /\ enabled
    <3>1. Ask("durable", {r}) /\ {r} \subseteq seen' \ seen
      BY <1>6, <2>1 DEF CreateFails
    <3> QED
      BY <1>3, <3>1
  <2>2. CASE ~(r \notin Malformed /\ enabled)
    BY <1>2, <1>6, <2>2 DEF CreateFails
  <2> QED
    BY <2>1, <2>2
<1>7. ASSUME FlushBegin PROVE \E more : Adds(more)
  <2>1. PICK batch \in SUBSET buffer : Ask("discard", batch \cap Malformed)
    BY <1>7 DEF FlushBegin
  <2>2. batch \cap Malformed \in SUBSET Records
    BY DEF QueueInv, Held
  <2> QED
    BY <1>3, <2>1, <2>2
<1>8. ASSUME FlushDone \/ FlushBroken PROVE \E more : Adds(more)
  <2>1. \E kind, stored, back : /\ stored \subseteq flight /\ back \subseteq flight
                                /\ FlushSettles(kind, stored, back)
    <3>1. CASE FlushDone
      <4>1. FlushSettles("refused", flight \ (flight \cap Refused), flight \cap Refused)
        BY <3>1 DEF FlushDone
      <4>2. /\ flight \ (flight \cap Refused) \subseteq flight
            /\ flight \cap Refused \subseteq flight
        OBVIOUS
      <4> QED
        BY <4>1, <4>2
    <3>2. CASE FlushBroken
      <4>1. PICK landed \in SUBSET (flight \ Refused), told \in BOOLEAN :
               LET stored == IF told THEN (flight \cap db) \cup landed ELSE {}
               IN  FlushSettles("infra", stored, flight \ stored)
        BY <3>2 DEF FlushBroken
      <4> DEFINE stored == IF told THEN (flight \cap db) \cup landed ELSE {}
      <4>2. stored \subseteq flight /\ flight \ stored \subseteq flight
        OBVIOUS
      <4> QED
        BY <4>1, <4>2
    <3> QED
      BY <1>8, <3>1, <3>2
  <2> QED
    BY <1>4, <2>1
<1>9. ASSUME ZombieEnds PROVE \E more : Adds(more)
  <2>1. PICK landed \in SUBSET (zombie \ Refused), told \in BOOLEAN :
            Ask("trim", Trimmed(IF told THEN (zombie \cap db) \cup landed ELSE {}, zombie))
    BY <1>9 DEF ZombieEnds
  <2> DEFINE stored == IF told THEN (zombie \cap db) \cup landed ELSE {}
  <2>2. stored \in SUBSET Records
    BY DEF QueueInv, Held
  <2>3. Ask("trim", stored)
    BY <2>1 DEF Trimmed
  <2> HIDE DEF stored
  <2> QED
    BY <1>3, <2>2, <2>3
<1>10. CASE \/ \E r \in Records : CreateStored(r) \/ SpoolReturns(r)
            \/ FlushAbandoned \/ FlushTurnedAway \/ StopBegins \/ DrainEnds \/ Stop
            \/ SectionStep \/ UNCHANGED vars
  <2>1. walChain' = walChain
    BY <1>10, SectionStepKeeps DEF CreateStored, SpoolReturns, FlushAbandoned,
       FlushTurnedAway, StopBegins, DrainEnds, Stop, AllButSection, vars, chainVars
  <2> QED
    BY <1>2, <2>1
<1> QED
  BY <1>5, <1>6, <1>7, <1>8, <1>9, <1>10 DEF Next, SectionStep

\* Records are seen before anything else happens to them.
LEMMA SeenStep ==
    ASSUME QueueInv, SeenInv, StopInv, [Next]_vars
    PROVE  SeenInv'
<1>1. seen \subseteq seen'
  BY DEF Next, vars, Push, CreateStored, CreateFails, SpoolReturns, FlushBegin,
     FlushDone, FlushBroken, FlushSettles, FlushEnters, FlushTurnedAway, FlushAbandoned,
     ZombieEnds, WaitTimeout, CreateAbandoned, FenceOpens, AllButFence, WalStep, WalAppend,
     WalAppendDurable, WalCap, WalTrim, WalDiscard, WalReplay, Start, StopBegins, DrainEnds,
     Stop, Die
<1>2. walChain \in Seq(Operations)
  BY DEF QueueInv, HarmlessQueue
<1>3. ASSUME WalStep
      PROVE  /\ walChain # << >> /\ Target \subseteq Records
             /\ Head(walChain).kind \in {"append", "durable"} => Target \subseteq seen
  <2>1. walChain # << >>
    BY <1>3 DEF WalStep, WalAppend, WalAppendDurable, WalCap, WalTrim, WalDiscard,
       WalReplay, HeadIs
  <2>2. Head(walChain) = walChain[1] /\ 1 \in 1..Len(walChain) /\ walChain[1] \in Operations
    BY <1>2, <2>1
  <2>3. Target \subseteq Records
    BY <2>2 DEF Target, Operations
  <2> QED
    BY <2>1, <2>2, <2>3 DEF Target, SeenInv, Writes
<1>4. taken' \cup wal' \cup written' \cup reported' \subseteq seen'
  <2>1. CASE WalStep
    <3>1. taken' \cup wal' \cup written' \subseteq taken \cup wal \cup written \cup
             (IF Head(walChain).kind \in {"append", "durable"} THEN Target ELSE {})
      BY <2>1, BufferAssumption
         DEF WalStep, WalAppend, WalAppendDurable, WalCap, WalTrim, WalDiscard,
         WalReplay, HeadIs, LineWritten, LineFails, LinesRemoved, Replayed, spoolVars,
         QueueInv, Held
    <3>2. reported' = reported
      BY <2>1 DEF WalStep, WalAppend, WalAppendDurable, WalCap, WalTrim, WalDiscard,
         WalReplay, stopVars
    <3> QED
      BY <1>1, <1>3, <2>1, <3>1, <3>2 DEF SeenInv
  <2>2. CASE ~WalStep
    <3>1. /\ wal' = wal /\ written' \subseteq written
          /\ taken' \subseteq taken \cup written \cup (seen' \ seen)
          /\ reported' \subseteq reported \cup taken
      BY <2>2 DEF Next, vars, Push, CreateStored, CreateFails, SpoolReturns, FlushBegin,
         FlushDone, FlushBroken, FlushSettles, FlushEnters, FlushTurnedAway, FlushAbandoned,
         ZombieEnds, WaitTimeout, CreateAbandoned, FenceOpens, AllButFence, Start, StopBegins,
         DrainEnds, Stop, Die, fileVars, spoolVars, stopVars
    <3> QED
      BY <1>1, <3>1 DEF SeenInv
  <2> QED
    BY <2>1, <2>2
<1>5. \A i \in 1..Len(walChain'), r \in Records : Writes(walChain'[i], r) => r \in seen'
  <2>1. ASSUME NEW more \in Seq(Operations), walChain' = walChain \o more,
               \A i \in 1..Len(more), r \in Records : Writes(more[i], r) => r \in seen' \ seen
        PROVE  \A i \in 1..Len(walChain'), r \in Records : Writes(walChain'[i], r) => r \in seen'
    <3> SUFFICES ASSUME NEW i \in 1..Len(walChain'), NEW r \in Records, Writes(walChain'[i], r)
                 PROVE  r \in seen'
      OBVIOUS
    <3>1. CASE i <= Len(walChain)
      <4>1. i \in 1..Len(walChain) /\ walChain'[i] = walChain[i]
        BY <1>2, <2>1, <3>1, Joined
      <4> QED
        BY <1>1, <4>1 DEF SeenInv
    <3>2. CASE i > Len(walChain)
      <4>1. i - Len(walChain) \in 1..Len(more) /\ walChain'[i] = more[i - Len(walChain)]
        BY <1>2, <2>1, <3>2, Joined
      <4> QED
        BY <2>1, <4>1
    <3> QED
      BY <1>2, <3>1, <3>2
  <2>2. CASE WalStep
    <3>1. OpDone \/ OpCaps
      BY <2>2 DEF WalStep, WalAppend, WalAppendDurable, WalCap, WalTrim, WalDiscard, WalReplay
    <3>2. CASE walChain' = Tail(walChain)
      <4>1. \A i \in 1..Len(walChain') : i + 1 \in 1..Len(walChain)
                                         /\ walChain'[i] = walChain[i + 1]
        BY <1>2, <1>3, <2>2, <3>2, Rest
      <4> QED
        BY <1>1, <4>1 DEF SeenInv
    <3>3. CASE walChain' = <<Op("cap", {})>> \o Tail(walChain)
      <4>1. \A i \in 1..Len(walChain') :
               /\ i \in 1..Len(walChain)
               /\ walChain'[i] = Op("cap", {}) \/ walChain'[i] = walChain[i]
        <5>1. /\ Len(walChain') = Len(walChain) /\ walChain'[1] = Op("cap", {})
              /\ \A i \in 1..Len(walChain) : i > 1 => walChain'[i] = walChain[i]
          BY <1>2, <1>3, <2>2, <3>3, Capped
        <5> QED
          BY <5>1
      <4>2. \A r \in Records : ~Writes(Op("cap", {}), r)
        BY DEF Writes, Op
      <4> QED
        BY <1>1, <4>1, <4>2 DEF SeenInv
    <3> QED
      BY <3>1, <3>2, <3>3 DEF OpDone, OpCaps
  <2>3. CASE Start \/ Die
    <3>1. walChain' = << >> \/ walChain' = <<Op("replay", {})>>
      BY <2>3 DEF Start, Die
    <3>2. \A i \in 1..Len(walChain'), r \in Records : ~Writes(walChain'[i], r)
      BY <3>1 DEF Writes, Op
    <3> QED
      BY <3>2
  <2> QED
    BY <2>1, <2>2, <2>3, QueueMoves
<1> QED
  BY <1>4, <1>5 DEF SeenInv

\* What the shutdown waits for is in the queue.
LEMMA StopStep ==
    ASSUME QueueInv, StopInv, [Next]_vars
    PROVE  StopInv'
<1>1. walChain \in Seq(Operations) /\ Len(walChain) \in Nat /\ drainOps \in Nat
  BY DEF QueueInv, HarmlessQueue, StopInv
<1>2. drainOps' \in 0..Len(walChain')
  <2>1. CASE WalStep
    <3>1. walChain # << >> /\ (OpDone \/ OpCaps)
      BY <2>1 DEF WalStep, WalAppend, WalAppendDurable, WalCap, WalTrim, WalDiscard,
         WalReplay, HeadIs
    <3>2. CASE OpDone
      <4>1. Len(walChain') = Len(walChain) - 1
        BY <1>1, <3>1, <3>2, Rest DEF OpDone
      <4>2. drainOps' = IF drainOps > 0 THEN drainOps - 1 ELSE 0
        BY <3>2 DEF OpDone, Waited
      <4>3. Len(walChain) > 0
        BY <1>1, <3>1
      <4> QED
        BY <1>1, <4>1, <4>2, <4>3 DEF StopInv
    <3>3. CASE walChain' = <<Op("cap", {})>> \o Tail(walChain) /\ UNCHANGED drainOps
      <4>1. Len(walChain') = Len(walChain)
        BY <1>1, <3>1, <3>3, Capped
      <4> QED
        BY <3>3, <4>1 DEF StopInv
    <3> QED
      BY <3>1, <3>2, <3>3 DEF OpCaps
  <2>2. CASE Start
    <3>1. walChain' = <<Op("replay", {})>> /\ drainOps' = drainOps /\ phase = "down"
      BY <2>2 DEF Start
    <3> QED
      BY <3>1 DEF StopInv, Up
  <2>3. CASE Die
    BY <2>3 DEF Die
  <2>4. ASSUME NEW more \in Seq(Operations), walChain' = walChain \o more, ~WalStep, ~Start, ~Die
        PROVE  drainOps' \in 0..Len(walChain')
    <3>1. Len(walChain') >= Len(walChain) /\ Len(walChain') \in Nat
      BY <1>1, <2>4
    <3>2. drainOps' = drainOps \/ (drainOps' = Len(walChain) /\ walChain' = walChain)
      BY <2>4 DEF Next, vars, Push, CreateStored, CreateFails, SpoolReturns, FlushBegin,
         FlushDone, FlushBroken, FlushSettles, FlushEnters, FlushTurnedAway, FlushAbandoned,
         ZombieEnds, WaitTimeout, CreateAbandoned, FenceOpens, AllButFence, StopBegins,
         DrainEnds, Stop, chainVars
    <3> QED
      BY <1>1, <3>1, <3>2 DEF StopInv
  <2> QED
    BY <2>1, <2>2, <2>3, <2>4, QueueMoves
<1>3. ~Up' => taken' = {} /\ reported' = {} /\ drainOps' = 0
  BY DEF Next, vars, Push, CreateStored, CreateFails, SpoolReturns, FlushBegin,
     FlushDone, FlushBroken, FlushSettles, FlushEnters, FlushTurnedAway, FlushAbandoned,
     ZombieEnds, WaitTimeout, CreateAbandoned, FenceOpens, AllButFence, WalStep, WalAppend,
     WalAppendDurable, WalCap, WalTrim, WalDiscard, WalReplay, Start, StopBegins, DrainEnds,
     Stop, Die, HeadIs, Up, stopVars, chainVars, StopInv
<1>4. phase' = "stopped" => drainOps' = 0
  <2>1. CASE phase = "stopped" /\ phase' = "stopped"
    <3>1. drainOps = 0
      BY <2>1 DEF StopInv
    <3>2. drainOps' = drainOps \/ drainOps' = Waited \/ drainOps' = 0
      BY <2>1 DEF Next, vars, Push, CreateStored, CreateFails, SpoolReturns, FlushBegin,
         FlushDone, FlushBroken, FlushSettles, FlushEnters, FlushTurnedAway, FlushAbandoned,
         ZombieEnds, WaitTimeout, CreateAbandoned, FenceOpens, AllButFence, WalStep, WalAppend,
         WalAppendDurable, WalCap, WalTrim, WalDiscard, WalReplay, OpDone, OpCaps, Start,
         StopBegins, DrainEnds, Stop, Die, chainVars
    <3> QED
      BY <3>1, <3>2 DEF Waited
  <2>2. CASE phase # "stopped"
    BY <2>2 DEF Next, vars, Push, CreateStored, CreateFails, SpoolReturns, FlushBegin,
       FlushDone, FlushBroken, FlushSettles, FlushEnters, FlushTurnedAway, FlushAbandoned,
       ZombieEnds, WaitTimeout, CreateAbandoned, FenceOpens, AllButFence, WalStep, WalAppend,
       WalAppendDurable, WalCap, WalTrim, WalDiscard, WalReplay, Start, StopBegins, DrainEnds,
       Stop, Die, WalDrained, chainVars, stopVars
  <2> QED
    BY <2>1, <2>2
<1> QED
  BY <1>2, <1>3, <1>4 DEF StopInv

\* A fault of the files is never forgotten.
LEMMA FaultsStay ==
    ASSUME [Next]_vars
    PROVE  faults.kinds \subseteq faults'.kinds
<1>1. \A kind : Fault(kind) => faults.kinds \subseteq faults'.kinds
  BY DEF Fault
<1> QED
  BY <1>1 DEF Next, vars, Push, CreateStored, CreateFails, SpoolReturns, FlushBegin,
     FlushDone, FlushBroken, FlushSettles, FlushEnters, FlushTurnedAway, FlushAbandoned,
     ZombieEnds, WaitTimeout, CreateAbandoned, FenceOpens, AllButFence, WalStep, WalAppend,
     WalAppendDurable, WalCap, WalTrim, WalDiscard, WalReplay, LineFails, Start, StopBegins,
     DrainEnds, Stop, Die

\* A stored record's line is on its way out from the end of its flush on, and what
\* the shutdown waits for includes it.
LEMMA LeavesStep ==
    ASSUME QueueInv, MemoryInv, SeenInv, StopInv, LeavesInv, [Next]_vars
    PROVE  LeavesInv'
<1> SUFFICES ASSUME NoFileFault'
             PROVE  /\ \A r \in taken' \ (overflowed' \cup judged') :
                         \/ r \in buffer' \cup flight'
                         \/ Leaves(walChain', Len(walChain'), r, r \in wal')
                    /\ \A r \in reported' : Leaves(walChain', drainOps', r, r \in wal')
  BY DEF LeavesInv
<1> DEFINE Goal == /\ \A r \in taken' \ (overflowed' \cup judged') :
                        \/ r \in buffer' \cup flight'
                        \/ Leaves(walChain', Len(walChain'), r, r \in wal')
                   /\ \A r \in reported' : Leaves(walChain', drainOps', r, r \in wal')
           Out == taken \ (overflowed \cup judged \cup buffer \cup flight)
<1>1. NoFileFault /\ ~Fault("wal") /\ ~Fault("torn")
  <2>1. NoFileFault
    BY FaultsStay DEF NoFileFault
  <2>2. \A kind : Fault(kind) => kind \in faults'.kinds
    BY DEF Fault
  <2> QED
    BY <2>1, <2>2 DEF NoFileFault
<1>2. /\ \A r \in Out : Leaves(walChain, Len(walChain), r, r \in wal)
      /\ \A r \in reported : Leaves(walChain, drainOps, r, r \in wal)
  BY <1>1 DEF LeavesInv
<1>3. /\ walChain \in Seq(Operations) /\ Len(walChain) \in Nat
      /\ drainOps \in 0..Len(walChain)
      /\ Out \cup reported \subseteq seen
  BY DEF QueueInv, HarmlessQueue, StopInv, SeenInv
<1> HIDE DEF Goal
\* A step that adds operations to the queue.
<1>4. ASSUME NEW more \in Seq(Operations), walChain' = walChain \o more,
             UNCHANGED <<wal, drainOps, reported>>,
             \A i \in 1..Len(more), r \in seen : ~Writes(more[i], r),
             \A r \in taken' \ (overflowed' \cup judged') :
                \/ r \in buffer' \cup flight'
                \/ r \in Out
                \/ r \in seen /\ \E i \in 1..Len(more) : Trims(more[i], r)
      PROVE  Goal
  <2>1. Len(walChain) \in 0..Len(walChain) /\ Len(walChain') \in Len(walChain)..Len(walChain')
    BY <1>3, <1>4, Joined
  <2>2. ASSUME NEW r \in seen,
               \/ Leaves(walChain, Len(walChain), r, r \in wal)
               \/ \E i \in 1..Len(more) : Trims(more[i], r)
        PROVE  Leaves(walChain', Len(walChain'), r, r \in wal')
    <3>1. (r \in wal) \in BOOLEAN /\ (r \in wal') = (r \in wal)
      BY <1>4
    <3>2. \A i \in 1..Len(more) : ~Writes(more[i], r)
      BY <1>4
    <3> QED
      BY <1>3, <1>4, <2>1, <2>2, <3>1, <3>2, LeavesJoined
  <2>3. ASSUME NEW r \in reported
        PROVE  Leaves(walChain', drainOps', r, r \in wal')
    <3>1. Leaves(walChain, drainOps, r, r \in wal) /\ r \in seen
      BY <1>2, <1>3
    <3>2. drainOps \in drainOps..Len(walChain')
      BY <1>3, <2>1
    <3>3. (r \in wal) \in BOOLEAN /\ (r \in wal') = (r \in wal)
      BY <1>4
    <3>4. \A i \in 1..Len(more) : ~Writes(more[i], r)
      BY <1>4, <3>1
    <3> QED
      BY <1>3, <1>4, <3>1, <3>2, <3>3, <3>4, LeavesJoined
  <2> QED
    BY <1>2, <1>3, <1>4, <2>2, <2>3 DEF Goal
\* A step that leaves the queue alone.
<1>5. ASSUME UNCHANGED <<walChain, wal, drainOps, reported>>,
             \A r \in taken' \ (overflowed' \cup judged') :
                r \in buffer' \cup flight' \/ r \in Out
      PROVE  Goal
  BY <1>2, <1>5 DEF Goal
\* A step that asks for one operation.
<1>6. ASSUME NEW kind \in {"append", "durable", "cap", "trim", "discard", "replay"},
             NEW recs \in SUBSET Records, Ask(kind, recs),
             UNCHANGED <<wal, drainOps, reported>>,
             kind \in {"append", "durable"} => recs \cap seen = {},
             \A r \in taken' \ (overflowed' \cup judged') :
                \/ r \in buffer' \cup flight'
                \/ r \in Out
                \/ r \in seen /\ kind = "trim" /\ r \in recs
      PROVE  Goal
  <2>1. CASE recs = {}
    BY <1>5, <1>6, <2>1 DEF Ask
  <2>2. CASE recs # {}
    <3> DEFINE more == <<Op(kind, recs)>>
    <3>1. more \in Seq(Operations) /\ \A i \in 1..Len(more) : more[i] = Op(kind, recs)
      BY OneOp
    <3>2. walChain' = walChain \o more /\ 1 \in 1..Len(more)
      BY <1>3, <1>6, <2>2, <3>1 DEF Ask
    <3>3. \A r \in seen : ~Writes(Op(kind, recs), r)
      BY <1>6 DEF Writes, Op
    <3>4. \A r \in recs : kind = "trim" => Trims(Op(kind, recs), r)
      BY DEF Trims, Op
    <3> HIDE DEF more
    <3> QED
      BY <1>4, <1>6, <3>1, <3>2, <3>3, <3>4
  <2> QED
    BY <2>1, <2>2
\* A step that does the first operation.
<1>7. ASSUME walChain # << >>, UNCHANGED reported,
             OpDone \/ (OpCaps /\ Head(walChain).kind # "trim"),
             \A r \in wal' : r \in wal \/ Writes(Head(walChain), r),
             \A r : Trims(Head(walChain), r) => r \notin wal',
             \A r \in taken' \ (overflowed' \cup judged') :
                r \in buffer' \cup flight' \/ r \in Out
      PROVE  Goal
  <2>1. ASSUME NEW r, NEW d \in 0..Len(walChain), Leaves(walChain, d, r, r \in wal)
        PROVE  /\ Leaves(Tail(walChain), IF d > 0 THEN d - 1 ELSE 0, r, r \in wal')
               /\ Head(walChain).kind # "trim" =>
                     Leaves(<<Op("cap", {})>> \o Tail(walChain), d, r, r \in wal')
    <3> DEFINE before == r \in wal
               after  == r \in wal'
    <3>1. /\ before \in BOOLEAN /\ after \in BOOLEAN
          /\ after => before \/ Writes(Head(walChain), r)
          /\ Trims(Head(walChain), r) => ~after
          /\ Leaves(walChain, d, r, before)
      BY <1>7, <2>1
    <3> HIDE DEF before, after
    <3>2. Leaves(Tail(walChain), IF d > 0 THEN d - 1 ELSE 0, r, after)
      BY <1>3, <1>7, <2>1, <3>1, LeavesDone
    <3>3. Head(walChain).kind # "trim" =>
             Leaves(<<Op("cap", {})>> \o Tail(walChain), d, r, after)
      BY <1>3, <1>7, <2>1, <3>1, LeavesCapped
    <3> QED
      BY <3>2, <3>3 DEF after
  <2>2. CASE OpDone
    <3>1. /\ walChain' = Tail(walChain)
          /\ drainOps' = IF drainOps > 0 THEN drainOps - 1 ELSE 0
          /\ Len(walChain') = IF Len(walChain) > 0 THEN Len(walChain) - 1 ELSE 0
          /\ Len(walChain) \in 0..Len(walChain)
      BY <1>3, <1>7, <2>2, Rest DEF OpDone, Waited
    <3>2. \A r \in Out : Leaves(walChain', Len(walChain'), r, r \in wal')
      BY <1>2, <2>1, <3>1
    <3>3. \A r \in reported : Leaves(walChain', drainOps', r, r \in wal')
      BY <1>2, <1>3, <2>1, <3>1
    <3> QED
      BY <1>7, <3>2, <3>3 DEF Goal
  <2>3. CASE /\ walChain' = <<Op("cap", {})>> \o Tail(walChain) /\ UNCHANGED drainOps
             /\ Head(walChain).kind # "trim"
    <3>1. Len(walChain') = Len(walChain) /\ Len(walChain) \in 0..Len(walChain)
      BY <1>3, <1>7, <2>3, Capped
    <3>2. \A r \in Out : Leaves(walChain', Len(walChain'), r, r \in wal')
      BY <1>2, <2>1, <2>3, <3>1
    <3>3. \A r \in reported : Leaves(walChain', drainOps', r, r \in wal')
      BY <1>2, <1>3, <2>1, <2>3
    <3> QED
      BY <1>7, <3>2, <3>3 DEF Goal
  <2> QED
    BY <1>7, <2>2, <2>3 DEF OpCaps
\* The end of a flush.
<1>8. ASSUME NEW kind, NEW stored, NEW back, stored \subseteq flight, back \subseteq flight,
             flight \subseteq stored \cup back, FlushSettles(kind, stored, back)
      PROVE  Goal
  <2> DEFINE doomed == Doomed(kind, back)
             trims == IF stored = {} THEN << >> ELSE <<Op("trim", stored)>>
             discards == IF doomed = {} THEN << >> ELSE <<Op("discard", doomed)>>
             more == trims \o discards
  <2>1. stored \subseteq Records /\ doomed \subseteq Records /\ doomed \subseteq back
    BY <1>8 DEF QueueInv, Held, Doomed
  <2>2. walChain' = walChain \o trims \o discards /\ judged' = judged \cup doomed
    BY <1>8 DEF FlushSettles, Trimmed
  <2>3. /\ UNCHANGED <<wal, drainOps, reported, taken>> /\ flight' = {}
        /\ overflowed \subseteq overflowed'
        /\ buffer \cup (back \ doomed) \subseteq buffer' \cup overflowed'
    BY <1>8 DEF FlushSettles, FlushEnds, PutBack, EnforceBufferLimit, fileVars, stopVars
  <2> HIDE DEF doomed
  <2>4. /\ trims \in Seq(Operations)
        /\ \A i \in 1..Len(trims) : trims[i] = Op("trim", stored)
        /\ stored # {} => 1 \in 1..Len(trims)
    BY <2>1, OneOp
  <2>5. /\ discards \in Seq(Operations)
        /\ \A i \in 1..Len(discards) : discards[i] = Op("discard", doomed)
    BY <2>1, OneOp
  <2> HIDE DEF trims, discards
  <2>6. more \in Seq(Operations) /\ walChain' = walChain \o more
    BY <1>3, <2>2, <2>4, <2>5
  <2>7. \A i \in 1..Len(more) : more[i] = Op("trim", stored) \/ more[i] = Op("discard", doomed)
    BY <2>4, <2>5
  <2>8. \A i \in 1..Len(more), r \in seen : ~Writes(more[i], r)
    BY <2>7 DEF Writes, Op
  <2>9. \A r \in stored : \E i \in 1..Len(more) : Trims(more[i], r)
    <3>1. stored # {} => 1 \in 1..Len(more) /\ more[1] = Op("trim", stored)
      BY <2>4, <2>5
    <3> QED
      BY <3>1 DEF Trims, Op
  <2>10. \A r \in taken' \ (overflowed' \cup judged') :
            \/ r \in buffer' \cup flight'
            \/ r \in Out
            \/ r \in seen /\ \E i \in 1..Len(more) : Trims(more[i], r)
    BY <1>8, <2>2, <2>3, <2>9 DEF SeenInv
  <2> HIDE DEF more
  <2> QED
    BY <1>4, <2>3, <2>6, <2>8, <2>10
<1>9. ASSUME NEW r \in Records, Push(r) PROVE Goal
  <2>1. /\ UNCHANGED <<wal, drainOps, reported, flight, judged>> /\ r \notin seen
        /\ taken' = taken \cup {r}
        /\ overflowed \subseteq overflowed' /\ buffer \cup {r} \subseteq buffer' \cup overflowed'
    BY <1>9 DEF Push, EnforceBufferLimit, fileVars, stopVars, flushVars
  <2>2. CASE enabled
    <3>1. Ask("append", {r}) /\ {r} \cap seen = {}
      BY <1>9, <2>1, <2>2 DEF Push
    <3> QED
      BY <1>6, <2>1, <3>1
  <2>3. CASE ~enabled
    <3>1. walChain' = walChain
      BY <1>9, <2>3 DEF Push
    <3> QED
      BY <1>5, <2>1, <3>1
  <2> QED
    BY <2>2, <2>3
<1>10. ASSUME NEW r \in Records, CreateFails(r) PROVE Goal
  <2>1. /\ UNCHANGED <<wal, drainOps, reported, flight, judged, taken, overflowed, buffer>>
        /\ r \notin seen
    BY <1>10 DEF CreateFails, fileVars, stopVars, flushVars
  <2>2. CASE r \notin Malformed /\ enabled
    <3>1. Ask("durable", {r}) /\ {r} \cap seen = {}
      BY <1>10, <2>1, <2>2 DEF CreateFails
    <3> QED
      BY <1>6, <2>1, <3>1
  <2>3. CASE ~(r \notin Malformed /\ enabled)
    <3>1. walChain' = walChain
      BY <1>10, <2>3 DEF CreateFails
    <3> QED
      BY <1>5, <2>1, <3>1
  <2> QED
    BY <2>2, <2>3
<1>11. ASSUME NEW r \in Records, CreateStored(r) \/ SpoolReturns(r) PROVE Goal
  <2>1. /\ UNCHANGED <<wal, drainOps, reported, walChain, flight, judged>>
        /\ overflowed \subseteq overflowed'
        /\ (taken' \ taken) \cup buffer \subseteq buffer' \cup overflowed'
    BY <1>11 DEF CreateStored, SpoolReturns, EnforceBufferLimit, fileVars, stopVars, flushVars,
       chainVars
  <2> QED
    BY <1>5, <2>1
<1>12. ASSUME FlushBegin PROVE Goal
  <2>1. PICK batch \in SUBSET buffer : /\ buffer' = buffer \ batch
                                       /\ flight' = batch \ Malformed
                                       /\ judged' = judged \cup (batch \cap Malformed)
                                       /\ Ask("discard", batch \cap Malformed)
    BY <1>12 DEF FlushBegin
  <2>2. UNCHANGED <<wal, drainOps, reported, taken, overflowed>> /\ flight = {}
    BY <1>12 DEF FlushBegin, MemoryInv, fileVars, stopVars
  <2>3. batch \cap Malformed \in SUBSET Records
    BY DEF QueueInv, Held
  <2>4. \A r \in taken' \ (overflowed' \cup judged') : r \in buffer' \cup flight' \/ r \in Out
    BY <2>1, <2>2
  <2> QED
    BY <1>6, <2>1, <2>2, <2>3, <2>4
<1>13. ASSUME FlushDone PROVE Goal
  <2>1. FlushSettles("refused", flight \ (flight \cap Refused), flight \cap Refused)
    BY <1>13 DEF FlushDone
  <2>2. flight \subseteq (flight \ (flight \cap Refused)) \cup (flight \cap Refused)
    OBVIOUS
  <2>3. flight \ (flight \cap Refused) \subseteq flight /\ flight \cap Refused \subseteq flight
    OBVIOUS
  <2> QED
    BY <1>8, <2>1, <2>2, <2>3
<1>14. ASSUME FlushBroken PROVE Goal
  <2>1. PICK landed \in SUBSET (flight \ Refused), told \in BOOLEAN :
           LET stored == IF told THEN (flight \cap db) \cup landed ELSE {}
           IN  FlushSettles("infra", stored, flight \ stored)
    BY <1>14 DEF FlushBroken
  <2> DEFINE stored == IF told THEN (flight \cap db) \cup landed ELSE {}
  <2>2. /\ stored \subseteq flight /\ flight \ stored \subseteq flight
        /\ flight \subseteq stored \cup (flight \ stored)
    OBVIOUS
  <2>3. FlushSettles("infra", stored, flight \ stored)
    BY <2>1
  <2> HIDE DEF stored
  <2> QED
    BY <1>8, <2>2, <2>3
<1>15. ASSUME FlushAbandoned \/ FlushTurnedAway PROVE Goal
  <2>1. /\ UNCHANGED <<wal, drainOps, reported, walChain, taken, judged>>
        /\ overflowed \subseteq overflowed'
        /\ buffer \cup flight \subseteq buffer' \cup overflowed'
    BY <1>15 DEF FlushAbandoned, FlushTurnedAway, PutBack, EnforceBufferLimit, fileVars,
       stopVars, chainVars
  <2> QED
    BY <1>5, <2>1
<1>16. ASSUME ZombieEnds PROVE Goal
  <2>1. PICK landed \in SUBSET (zombie \ Refused), told \in BOOLEAN :
           LET stored == IF told THEN (zombie \cap db) \cup landed ELSE {}
           IN  buffer' = buffer \ stored /\ Ask("trim", Trimmed(stored, zombie))
    BY <1>16 DEF ZombieEnds
  <2> DEFINE stored == IF told THEN (zombie \cap db) \cup landed ELSE {}
  <2>2. stored \in SUBSET Records
    BY DEF QueueInv, Held
  <2>3. buffer' = buffer \ stored /\ Ask("trim", stored)
    BY <2>1 DEF Trimmed
  <2> HIDE DEF stored
  <2>4. UNCHANGED <<wal, drainOps, reported, taken, overflowed, judged, flight>>
    BY <1>16 DEF ZombieEnds, fileVars, stopVars
  <2>5. \A r \in taken' \ (overflowed' \cup judged') :
           \/ r \in buffer' \cup flight'
           \/ r \in Out
           \/ r \in seen /\ "trim" = "trim" /\ r \in stored
    BY <2>3, <2>4 DEF SeenInv
  <2> QED
    BY <1>6, <2>2, <2>3, <2>4, <2>5
<1>17. ASSUME WalStep PROVE Goal
  <2>1. /\ walChain # << >> /\ UNCHANGED <<reported, flight, judged>>
        /\ overflowed \subseteq overflowed'
        /\ (taken' \ taken) \cup buffer \subseteq buffer' \cup overflowed'
    BY <1>17 DEF WalStep, WalAppend, WalAppendDurable, WalCap, WalTrim, WalDiscard,
       WalReplay, HeadIs, EnforceBufferLimit, stopVars, flushVars
  <2>2. \A r \in taken' \ (overflowed' \cup judged') : r \in buffer' \cup flight' \/ r \in Out
    BY <2>1
  <2>3. OpDone \/ (OpCaps /\ Head(walChain).kind # "trim")
    BY <1>17 DEF WalStep, WalAppend, WalAppendDurable, WalCap, WalTrim, WalDiscard,
       WalReplay, HeadIs
  <2>4. \A r \in wal' : r \in wal \/ Writes(Head(walChain), r)
    BY <1>1, <1>17 DEF WalStep, WalAppend, WalAppendDurable, WalCap, WalTrim, WalDiscard,
       WalReplay, HeadIs, LineWritten, LineFails, LinesRemoved, Target, Writes
  <2>5. \A r : Trims(Head(walChain), r) => r \notin wal'
    BY <1>1, <1>17 DEF WalStep, WalAppend, WalAppendDurable, WalCap, WalTrim, WalDiscard,
       WalReplay, HeadIs, LinesRemoved, Target, Trims
  <2> QED
    BY <1>7, <2>1, <2>2, <2>3, <2>4, <2>5
<1>18. ASSUME Start \/ Die PROVE Goal
  <2>1. taken' = {} /\ reported' = {}
    BY <1>18 DEF Start, Die, StopInv, Up
  <2> QED
    BY <2>1 DEF Goal
<1>19. ASSUME DrainEnds PROVE Goal
  <2>1. /\ UNCHANGED <<wal, walChain, taken, judged, overflowed, buffer, flight>>
        /\ drainOps' = Len(walChain) /\ reported' \subseteq Out
    BY <1>19 DEF DrainEnds, Drained, MemoryInv, fileVars, flushVars
  <2> QED
    BY <1>2, <2>1 DEF Goal
<1>20. ASSUME StopBegins \/ Stop \/ SectionStep \/ UNCHANGED vars PROVE Goal
  <2>1. UNCHANGED <<wal, walChain, drainOps, reported, taken, judged, overflowed, buffer, flight>>
    BY <1>20, SectionStepKeeps
       DEF StopBegins, Stop, AllButSection, vars, fileVars, flushVars, chainVars, stopVars
  <2> QED
    BY <1>5, <2>1
<1> QED
  BY <1>9, <1>10, <1>11, <1>12, <1>13, <1>14, <1>15, <1>16, <1>17, <1>18, <1>19, <1>20
     DEF Next, Goal, SectionStep

\* flushAndStop: when it has reported the buffer drained, and has waited for the
\* log, no line of a record it reported is left to be replayed, unless an operation
\* on the files has failed.
THEOREM StopsAreClean == Spec => []CleanStop
<1>1. Init => MemoryInv /\ SeenInv /\ StopInv /\ LeavesInv
  BY DEF Init, MemoryInv, NothingForgotten, SeenInv, StopInv, LeavesInv, Up
<1>2. ASSUME StopInv, LeavesInv PROVE CleanStop
  <2> SUFFICES ASSUME phase = "stopped", NoFileFault, NEW r \in reported
               PROVE  r \notin wal
    BY DEF CleanStop, NoFileFault
  <2>1. Leaves(walChain, 0, r, r \in wal)
    BY <1>2 DEF StopInv, LeavesInv
  <2> QED
    BY <2>1 DEF Leaves
<1> QED
  BY <1>1, <1>2, QueueInvariant, MemoryStep, SeenStep, StopStep, LeavesStep, PTL DEF Spec
=============================================================================
