----------------------------- MODULE AuditBuffer -----------------------------
(***************************************************************************)
(* Durability of audit records in one server process: the buffer with its  *)
(* batch flush (services/auditBuffer.js), the write-ahead log              *)
(* (services/auditBufferWal.js, auditWalCap.js) and the outbox of          *)
(* sensitive operations (services/auditOutbox.js), over crashes, restarts  *)
(* and the shutdown.                                                       *)
(*                                                                         *)
(* An ordinary record is pushed; a sensitive one is acknowledged to the    *)
(* caller when it is stored or when its line is in the write-ahead log.    *)
(* Every operation on the log waits for the one before it (walChain): the  *)
(* operations that have been asked for are lost when the process dies.     *)
(*                                                                         *)
(* The order of the buffer decides which records go first and which are    *)
(* the oldest; here a batch, and what an overflow drops, is any subset of  *)
(* the right size.  The queue of withChainLock and the hash chain are the  *)
(* business of AuditChainLock and AuditChain: of them there is the fence,  *)
(* which a hold timer or a wait timer closes, of a flush or of any create  *)
(* of the process, and which opens only behind an abandoned fn.            *)
(***************************************************************************)
EXTENDS Integers, Sequences, FiniteSets, FiniteSetsExt

CONSTANTS
    Records,    \* audit records, identified by their _id
    Sensitive,  \* those written by recordDurably; the others are pushed
    Malformed,  \* those that precastBatch rejects
    Refused,    \* those the server refuses for their content
    BatchLimit, \* flushBatchLimit()
    HardLimit,  \* BUFFER_HARD_LIMIT
    MaxBatchRetry, \* MAX_BATCH_RETRY
    WalLimit,   \* lines that fit into AUDIT_WAL_MAX_BYTES
    AllowDurableTrim, \* AUDIT_WAL_ALLOW_DURABLE_TRIM
    MaxFaults,  \* bound: things that go wrong in a behaviour
    FaultKinds, \* which: "infra", "hold", "wait", "wal", "torn", "crash", "stop"
    None, Torn  \* no line, a line that cannot be parsed

ASSUME BufferAssumption ==
    /\ IsFiniteSet(Records) /\ Sensitive \subseteq Records
    /\ {None, Torn} \cap Records = {} /\ None # Torn
    /\ BatchLimit \in Nat \ {0} /\ MaxBatchRetry \in Nat \ {0}
    /\ HardLimit \in Nat /\ WalLimit \in Nat /\ MaxFaults \in Nat
    /\ AllowDurableTrim \in BOOLEAN

VARIABLES
    phase,      \* "down", "running", or where flushAndStop is
    seen,       \* records that have been created
    \* memory
    buffer,     \* records waiting for a flush
    flushing,   \* a flush is under way
    inside,     \* it has passed the fence and runs its fn
    flight,     \* the records it has taken
    zombie,     \* the records of an abandoned flush that still runs
    strikes,    \* flushStrikes: refusals of each record
    frozen,     \* auditChainFence: no fn may start
    awaited,    \* waitForZombie awaits an abandoned fn, and will open the fence
    taken,      \* records that have entered the buffer since the start
    overflowed, \* of these, the ones enforceBufferLimit has dropped
    spooling,   \* sensitive records whose line is being written
    written,    \* those whose line has been written and synchronised
    enabled,    \* walEnabled
    walChain,   \* operations on the log that have not been done yet
    drainOps,   \* how many of them flushAndStop waits for
    reported,   \* the records flushAndStop has reported to be stored
    \* files and database
    wal,        \* records that have a readable line
    openEnd,    \* the last line, when it has no newline
    discarded,  \* records with a line in the archive
    db,         \* stored records
    \* history
    acked,      \* sensitive records whose operation has been reported done
    judged,     \* records given up for their content
    faults      \* how many things went wrong so far, and of which kinds

fenceVars == <<frozen, awaited>>
flushVars == <<flushing, inside, flight, zombie, strikes, fenceVars>>
spoolVars == <<spooling, written>>
stopVars  == <<phase, reported>>
chainVars == <<walChain, drainOps>>
fileVars  == <<wal, openEnd, discarded>>
vars == <<seen, buffer, taken, overflowed, flushVars, spoolVars, stopVars,
          enabled, chainVars, fileVars, db, acked, judged, faults>>

Up == phase # "down"
Ordinary == Records \ Sensitive

Operations == [kind : {"append", "durable", "cap", "trim", "discard", "replay"},
               recs : SUBSET Records]
Op(kind, recs) == [kind |-> kind, recs |-> recs]

MayFail(kind) == kind \in FaultKinds /\ faults.number < MaxFaults
Fault(kind) ==
    /\ MayFail(kind)
    /\ faults' = [number |-> faults.number + 1, kinds |-> faults.kinds \cup {kind}]

\* An operation takes its place at the end of walChain.
Ask(kind, recs) ==
    walChain' = IF recs = {} THEN walChain ELSE Append(walChain, Op(kind, recs))

\* enforceBufferLimit: what is left of `held`.
EnforceBufferLimit(held) ==
    \E lost \in SUBSET held :
        /\ Cardinality(lost) = Max({0, Cardinality(held) - HardLimit})
        /\ buffer' = held \ lost
        /\ overflowed' = overflowed \cup lost

-----------------------------------------------------------------------------
Init ==
    /\ phase = "down"
    /\ seen = {} /\ acked = {} /\ judged = {}
    /\ buffer = {} /\ flushing = FALSE /\ inside = FALSE /\ flight = {} /\ zombie = {}
    /\ frozen = FALSE /\ awaited = FALSE
    /\ strikes = [r \in Records |-> 0]
    /\ taken = {} /\ overflowed = {}
    /\ spooling = {} /\ written = {}
    /\ enabled = FALSE /\ walChain = << >> /\ drainOps = 0 /\ reported = {}
    /\ wal = {} /\ openEnd = None /\ discarded = {}
    /\ db = {}
    /\ faults = [number |-> 0, kinds |-> {}]

-----------------------------------------------------------------------------
(* The buffer and its flush *)

\* push(doc)
Push(r) ==
    /\ Up /\ r \in Ordinary \ seen
    /\ seen' = seen \cup {r}
    /\ taken' = taken \cup {r}
    /\ EnforceBufferLimit(buffer \cup {r})
    /\ IF enabled THEN Ask("append", {r}) ELSE UNCHANGED walChain
    /\ UNCHANGED <<flushVars, spoolVars, stopVars, enabled, drainOps, fileVars,
                   db, acked, judged, faults>>

\* flush: a batch leaves the buffer; precastBatch gives up malformed records; the
\* rest waits in the queue of withChainLock.
FlushBegin ==
    /\ Up /\ ~flushing /\ buffer # {} /\ ~frozen
    /\ \E batch \in SUBSET buffer :
          /\ Cardinality(batch) = Min({BatchLimit, Cardinality(buffer)})
          /\ buffer' = buffer \ batch
          /\ flight' = batch \ Malformed
          /\ judged' = judged \cup (batch \cap Malformed)
          /\ Ask("discard", batch \cap Malformed)
    /\ flushing' = TRUE
    /\ UNCHANGED <<seen, taken, overflowed, inside, zombie, strikes, fenceVars,
                   spoolVars, stopVars, enabled, drainOps, fileVars, db, acked, faults>>

\* Its turn has come and fence.check() lets it in.
FlushEnters ==
    /\ Up /\ flushing /\ ~inside /\ ~frozen
    /\ inside' = TRUE
    /\ UNCHANGED <<seen, buffer, taken, overflowed, flushing, flight, zombie, strikes,
                   fenceVars, spoolVars, stopVars, enabled, chainVars, fileVars, db,
                   acked, judged, faults>>

FlushEnds == flushing' = FALSE /\ inside' = FALSE /\ flight' = {}

\* The lines to trim when of `batch` those in `stored` are known to be stored.
TrimWholeBatch(stored, batch) == batch
Trimmed(stored, batch) == stored

\* isContentAttributableFailure: a refusal of single records, and nothing that
\* points to the connection or the topology.
AnyFailureIsContent(kind) == TRUE
IsContentFault(kind) == kind = "refused"

\* The records of `back` that have been refused too often (settleContentFaultStrikes).
Doomed(kind, back) ==
    IF IsContentFault(kind)
    THEN {r \in back : strikes[r] + 1 >= MaxBatchRetry} ELSE {}

\* handleFlushFailure puts `back` into the buffer again, without the doomed.
PutBackForgotten(held) == buffer' = buffer /\ UNCHANGED overflowed
PutBack(held) == EnforceBufferLimit(buffer \cup held)

\* The end of a flush: `stored` are known to be stored, `back` are not.
FlushSettles(kind, stored, back) ==
    LET doomed == Doomed(kind, back)
    IN  /\ strikes' = [r \in Records |->
             IF r \in doomed \/ (r \in stored /\ back = {}) THEN 0
             ELSE IF r \in back /\ IsContentFault(kind) THEN strikes[r] + 1
             ELSE strikes[r]]
        /\ judged' = judged \cup doomed
        /\ PutBack(back \ doomed)
        /\ walChain' = walChain
             \o (IF stored = {} THEN << >>
                 ELSE <<Op("trim", Trimmed(stored, flight))>>)
             \o (IF doomed = {} THEN << >> ELSE <<Op("discard", doomed)>>)
        /\ FlushEnds
        /\ UNCHANGED <<seen, taken, zombie, fenceVars, spoolVars, stopVars, enabled,
                       drainOps, fileVars, acked>>

\* insertMany has reached the server: every record is stored, known to be stored
\* already (E11000), or refused.
FlushDone ==
    /\ Up /\ inside
    /\ LET refused == flight \cap Refused
       IN  /\ db' = db \cup (flight \ refused)
           /\ FlushSettles("refused", flight \ refused, refused)
    /\ UNCHANGED faults

\* The connection fails, or the distributed lock cannot be had: some records may
\* have been stored; which, and which were stored before, the error may tell.
FlushBroken ==
    /\ Up /\ inside /\ Fault("infra")
    /\ \E landed \in SUBSET (flight \ Refused), told \in BOOLEAN :
          LET stored == IF told THEN (flight \cap db) \cup landed ELSE {}
          IN  /\ db' = db \cup landed
              /\ FlushSettles("infra", stored, flight \ stored)

\* The fence has closed while the flush was waiting: the batch goes back.
FlushTurnedAway ==
    /\ Up /\ flushing /\ ~inside /\ frozen
    /\ PutBack(flight)
    /\ FlushEnds
    /\ UNCHANGED <<seen, taken, zombie, strikes, fenceVars, spoolVars, stopVars,
                   enabled, chainVars, fileVars, db, acked, judged, faults>>

\* The hold timer of withChainLock: the batch goes back into the buffer, its
\* insertion is still under way, and the fence is closed until it ends.
FlushAbandoned ==
    /\ Up /\ inside /\ flight # {} /\ Fault("hold")
    /\ PutBack(flight)
    /\ zombie' = flight
    /\ frozen' = TRUE /\ awaited' = TRUE
    /\ FlushEnds
    /\ UNCHANGED <<seen, taken, strikes, spoolVars, stopVars, enabled, chainVars,
                   fileVars, db, acked, judged>>

\* The abandoned insertion ends: what it knows to be stored leaves the buffer.
\* Its failure reaches nobody.
ZombieEnds ==
    /\ Up /\ zombie # {}
    /\ \E landed \in SUBSET (zombie \ Refused), told \in BOOLEAN :
          LET stored == IF told THEN (zombie \cap db) \cup landed ELSE {}
          IN  /\ IF told /\ landed \cup (zombie \cap db) = zombie \ Refused
                 THEN UNCHANGED faults ELSE Fault("infra")
              /\ db' = db \cup landed
              /\ buffer' = buffer \ stored
              /\ Ask("trim", Trimmed(stored, zombie))
    /\ zombie' = {}
    /\ UNCHANGED <<seen, taken, overflowed, flushing, inside, flight, strikes,
                   fenceVars, spoolVars, stopVars, enabled, drainOps, fileVars, acked,
                   judged>>

\* What closing and opening the fence leaves alone.
AllButFence == <<seen, buffer, taken, overflowed, flushing, inside, flight, zombie,
                 strikes, spoolVars, stopVars, enabled, chainVars, fileVars, db, acked,
                 judged>>

\* The wait timer of whoever waits for the section, a flush or a create: the fence
\* closes, which turns those who wait away.  Nobody is told to open it.
WaitTimeout ==
    /\ Up /\ Fault("wait")
    /\ frozen' = TRUE
    /\ UNCHANGED <<awaited, AllButFence>>

\* The hold timer of a create, which runs in the section alone.
CreateAbandoned ==
    /\ Up /\ ~inside /\ ~awaited /\ Fault("hold")
    /\ frozen' = TRUE /\ awaited' = TRUE
    /\ UNCHANGED AllButFence

\* Had waitForZombie no finally that opens the fence.
FenceStaysClosed ==
    /\ Up /\ awaited /\ zombie = {}
    /\ awaited' = FALSE
    /\ UNCHANGED <<frozen, AllButFence, faults>>

\* waitForZombie: the abandoned fn has ended and the tail has been thrown away.
\* Whoever closed the fence, it is open now.
FenceOpens ==
    /\ Up /\ awaited /\ zombie = {}
    /\ frozen' = FALSE /\ awaited' = FALSE
    /\ UNCHANGED <<AllButFence, faults>>

-----------------------------------------------------------------------------
(* The outbox: recordDurably *)

\* AuditLog.create stores the record.
CreateStored(r) ==
    /\ Up /\ r \in Sensitive \ seen
    /\ seen' = seen \cup {r}
    /\ db' = db \cup {r}
    /\ acked' = acked \cup {r}
    /\ UNCHANGED <<buffer, taken, overflowed, flushVars, spoolVars, stopVars,
                   enabled, chainVars, fileVars, judged, faults>>

\* AuditLog.create fails: the record is spooled, unless it is malformed or the
\* log is not enabled; then the caller sees the failure.
CreateFails(r) ==
    /\ Up /\ r \in Sensitive \ seen /\ Fault("infra")
    /\ seen' = seen \cup {r}
    /\ IF r \notin Malformed /\ enabled
       THEN /\ spooling' = spooling \cup {r}
            /\ Ask("durable", {r})
       ELSE UNCHANGED <<spooling, walChain>>
    /\ UNCHANGED <<buffer, taken, overflowed, flushVars, written, stopVars,
                   enabled, drainOps, fileVars, db, acked, judged>>

\* The line is on disk: push(doc, true), and the operation is acknowledged.
SpoolReturns(r) ==
    /\ Up /\ r \in written
    /\ spooling' = spooling \ {r} /\ written' = written \ {r}
    /\ taken' = taken \cup {r}
    /\ EnforceBufferLimit(buffer \cup {r})
    /\ acked' = acked \cup {r}
    /\ UNCHANGED <<seen, flushVars, stopVars, enabled, chainVars, fileVars, db,
                   judged, faults>>

-----------------------------------------------------------------------------
(* The write-ahead log: the operations of walChain, one after the other *)

HeadIs(kind) == Up /\ walChain # << >> /\ Head(walChain).kind = kind
Target == Head(walChain).recs

Waited == IF drainOps > 0 THEN drainOps - 1 ELSE 0
OpDone == walChain' = Tail(walChain) /\ drainOps' = Waited

\* cap.afterAppend, a part of the same operation.
OpCaps ==
    IF Cardinality(wal') > WalLimit
    THEN walChain' = <<Op("cap", {})>> \o Tail(walChain) /\ UNCHANGED drainOps
    ELSE OpDone

\* A line that goes behind an open end makes one unreadable line with it.
LineWritten(r) ==
    /\ wal' = IF openEnd = None THEN wal \cup {r} ELSE wal \ {openEnd}
    /\ openEnd' = None

\* The write fails: nothing, or a part of the line, or all but its newline.
LineFails(r) ==
    \/ /\ Fault("wal")
       /\ UNCHANGED <<wal, openEnd>>
    \/ /\ Fault("torn")
       /\ openEnd' \in IF openEnd = None THEN {Torn, r} ELSE {Torn}
       /\ wal' = (wal \cup ({openEnd'} \ {Torn})) \ {openEnd}

WalAppend ==
    /\ HeadIs("append")
    /\ \E r \in Target : \/ LineWritten(r) /\ UNCHANGED faults
                        \/ LineFails(r)
    /\ OpCaps
    /\ UNCHANGED <<seen, buffer, taken, overflowed, flushVars, spoolVars, stopVars,
                   enabled, discarded, db, acked, judged>>

\* appendLineDurable: the caller learns whether the line is on disk.
WalAppendDurable ==
    /\ HeadIs("durable")
    /\ \E r \in Target :
          \/ /\ LineWritten(r)
             /\ written' = written \cup {r}
             /\ OpCaps
             /\ UNCHANGED <<spooling, faults>>
          \/ /\ LineFails(r)
             /\ spooling' = spooling \ {r}
             /\ OpDone
             /\ UNCHANGED written
    /\ UNCHANGED <<seen, buffer, taken, overflowed, flushVars, stopVars, enabled,
                   discarded, db, acked, judged>>

\* enforceWalLimit, on every 32nd append: ordinary lines are archived, then
\* removed; durable ones only when that is allowed and no ordinary one is left.
WalCap ==
    /\ HeadIs("cap")
    /\ \E gone \in SUBSET wal :
          /\ gone \subseteq Ordinary \/ (AllowDurableTrim /\ wal \cap Ordinary \subseteq gone)
          /\ Cardinality(gone) <= Cardinality(wal) \div 2
          /\ discarded' = discarded \cup gone
          /\ \/ /\ wal' = wal \ gone
                /\ openEnd' = IF gone = {} THEN openEnd ELSE None
                /\ UNCHANGED faults
             \/ Fault("wal") /\ UNCHANGED <<wal, openEnd>>
    /\ OpDone
    /\ UNCHANGED <<seen, buffer, taken, overflowed, flushVars, spoolVars, stopVars,
                   enabled, db, acked, judged>>

\* removeWalLinesBySeqs: the file is replaced by one without the lines.
LinesRemoved(recs) ==
    /\ wal' = wal \ recs
    /\ openEnd' = IF recs \cap wal = {} THEN openEnd ELSE None

WalTrim ==
    /\ HeadIs("trim")
    /\ \/ LinesRemoved(Target) /\ UNCHANGED faults
       \/ Fault("wal") /\ UNCHANGED <<wal, openEnd>>
    /\ OpDone
    /\ UNCHANGED <<seen, buffer, taken, overflowed, flushVars, spoolVars, stopVars,
                   enabled, discarded, db, acked, judged>>

\* discardBySeqs: archived first, then removed.
WalDiscard ==
    /\ HeadIs("discard")
    /\ \/ /\ discarded' = discarded \cup (Target \cap wal)
          /\ LinesRemoved(Target)
          /\ UNCHANGED faults
       \/ /\ Fault("wal")
          /\ discarded' \in {discarded, discarded \cup (Target \cap wal)}
          /\ UNCHANGED <<wal, openEnd>>
    /\ OpDone
    /\ UNCHANGED <<seen, buffer, taken, overflowed, flushVars, spoolVars, stopVars,
                   enabled, db, acked, judged>>

\* The lines the replay brings back into the buffer.
NothingReplayed(known) == {}
Replayed(known) == wal \ known

\* The replay of start(): readable lines that are not archived enter the buffer,
\* and an open end gets its newline.
WalReplay ==
    /\ HeadIs("replay")
    /\ \/ /\ taken' = taken \cup Replayed(discarded)
          /\ EnforceBufferLimit(buffer \cup Replayed(discarded))
          /\ openEnd' = None
          /\ UNCHANGED faults
       \/ /\ Fault("wal")
          /\ \E back \in {{}, Replayed({}), Replayed(discarded)} :
                /\ taken' = taken \cup back
                /\ EnforceBufferLimit(buffer \cup back)
          /\ UNCHANGED openEnd
    /\ OpDone
    /\ UNCHANGED <<seen, flushVars, spoolVars, stopVars, enabled, wal, discarded,
                   db, acked, judged>>

WalStep ==
    WalAppend \/ WalAppendDurable \/ WalCap \/ WalTrim \/ WalDiscard \/ WalReplay

-----------------------------------------------------------------------------
(* Start, shutdown, death *)

\* start(): the log is enabled when its directory is writable.
Start ==
    /\ phase = "down"
    /\ phase' = "running"
    /\ \/ enabled' = TRUE /\ UNCHANGED faults
       \/ enabled' = FALSE /\ Fault("wal")
    /\ walChain' = <<Op("replay", {})>>
    /\ UNCHANGED <<seen, buffer, taken, overflowed, flushVars, spoolVars, reported,
                   drainOps, fileVars, db, acked, judged>>

\* flushAndStop is called.
StopBegins ==
    /\ phase = "running" /\ Fault("stop")
    /\ phase' = "draining"
    /\ UNCHANGED <<seen, buffer, taken, overflowed, flushVars, spoolVars, reported,
                   enabled, chainVars, fileVars, db, acked, judged>>

\* residual = 0: the buffer is empty and no flush has a batch in flight.
BufferEmpty == buffer = {}
Drained == buffer = {} /\ ~flushing

\* The loop of flushAndStop ends: nothing is left, or its time is up.
DrainEnds ==
    /\ phase = "draining"
    /\ phase' = "closing"
    /\ reported' = IF Drained THEN taken \ (overflowed \cup judged) ELSE {}
    /\ drainOps' = Len(walChain)
    /\ UNCHANGED <<seen, buffer, taken, overflowed, flushVars, spoolVars, enabled,
                   walChain, fileVars, db, acked, judged, faults>>

\* wal.drain() has returned: stop().
StopsAtOnce == TRUE
WalDrained == drainOps = 0

Stop ==
    /\ phase = "closing" /\ WalDrained
    /\ phase' = "stopped"
    /\ enabled' = FALSE
    /\ UNCHANGED <<seen, buffer, taken, overflowed, flushVars, spoolVars, reported,
                   chainVars, fileVars, db, acked, judged, faults>>

\* The records that a live flush is inserting.
UnderWay == IF inside THEN flight ELSE {}

\* The process ends, by its own will or not: memory is lost, an insertion under
\* way may still reach the database.
Die ==
    /\ Up
    /\ \/ phase = "stopped" /\ UNCHANGED faults
       \/ Fault("crash")
    /\ phase' = "down"
    /\ \E landed \in SUBSET ((UnderWay \cup zombie) \ Refused) : db' = db \cup landed
    /\ buffer' = {} /\ FlushEnds /\ zombie' = {}
    /\ frozen' = FALSE /\ awaited' = FALSE
    /\ strikes' = [r \in Records |-> 0]
    /\ taken' = {} /\ overflowed' = {} /\ spooling' = {} /\ written' = {}
    /\ enabled' = FALSE /\ walChain' = << >> /\ drainOps' = 0 /\ reported' = {}
    /\ UNCHANGED <<seen, fileVars, acked, judged>>

Next ==
    \/ \E r \in Records : Push(r) \/ CreateStored(r) \/ CreateFails(r) \/ SpoolReturns(r)
    \/ FlushBegin \/ FlushEnters \/ FlushTurnedAway
    \/ FlushDone \/ FlushBroken \/ FlushAbandoned \/ ZombieEnds
    \/ WaitTimeout \/ CreateAbandoned \/ FenceOpens
    \/ WalStep
    \/ Start \/ StopBegins \/ DrainEnds \/ Stop \/ Die

Spec == Init /\ [][Next]_vars

\* The timer flushes, who waits for the section is let in or turned away, insertions
\* and abandoned fns end, file operations end, a dead process is started again.
\* What goes wrong is bounded by MaxFaults.
FairSpec ==
    /\ Spec
    /\ WF_vars(FlushBegin) /\ WF_vars(FlushEnters \/ FlushTurnedAway)
    /\ WF_vars(FlushDone) /\ WF_vars(ZombieEnds) /\ WF_vars(FenceOpens)
    /\ WF_vars(WalStep) /\ \A r \in Records : WF_vars(SpoolReturns(r))
    /\ WF_vars(Start) /\ WF_vars(DrainEnds) /\ WF_vars(Stop)
    /\ WF_vars(phase = "stopped" /\ Die)

-----------------------------------------------------------------------------
(* Properties *)

\* What each variable holds; the buffer is never larger than its limit, a record
\* is not in it and in a flush at once, at most one flush, abandoned or not, has an
\* insertion under way, and the fence is closed as long as an abandoned one has.
BufferTypeOK ==
    /\ phase \in {"down", "running", "draining", "closing", "stopped"}
    /\ UNION {buffer, flight, zombie, taken, overflowed, wal, discarded, db,
              judged, reported} \subseteq Records
    /\ written \subseteq spooling /\ acked \cup spooling \subseteq Sensitive \cap seen
    /\ strikes \in [Records -> 0..(MaxBatchRetry - 1)]
    /\ walChain \in Seq(Operations)
    /\ drainOps \in 0..Len(walChain)
    /\ openEnd \in wal \cup {None, Torn}
    /\ faults.number \in 0..MaxFaults /\ faults.kinds \subseteq FaultKinds
    /\ Cardinality(buffer) <= HardLimit
    /\ buffer \cap flight = {} /\ (flushing => zombie = {}) /\ (~flushing => flight = {})
    /\ {frozen, awaited, inside} \subseteq BOOLEAN /\ (inside => flushing /\ ~awaited)
    /\ (zombie # {} => awaited) /\ (awaited => frozen)

\* While the process lives, no record that has entered the buffer is forgotten: it
\* is stored, in memory, given up for its content, or counted as an overflow. No
\* timeout, zombie or partial insertion loses one on the way.
NothingForgotten ==
    Up => taken \subseteq UNION {db, buffer, flight, judged, overflowed}

\* Only records that are themselves to blame are given up: no failure of the
\* connection, however often it is repeated, makes the server throw records away.
OnlyBadRecordsJudged == judged \subseteq Malformed \cup Refused

\* What recordDurably has promised: an acknowledged record is stored, or a restart
\* will bring it back from the log, or it has been given up for its content.
AckedSurvives ==
    \A r \in acked : r \in db \cup judged \/ (r \in wal /\ r \notin discarded)

\* A line leaves the log only when its record is stored or archived.
NoLineLost == [][wal \ wal' \subseteq db \cup discarded']_vars

\* flushAndStop reports the buffer drained only if all it took is in the database.
ReportIsTrue == reported \subseteq db

\* After a shutdown that has reported success the log holds no line of a stored
\* record (when the file operations have not failed): nothing is replayed twice.
CleanStop ==
    phase = "stopped" /\ faults.kinds \cap {"wal", "torn"} = {} => reported \cap wal = {}

\* A wait timer has closed the fence, and there is no abandoned fn behind it that
\* would open it: nothing promises that this process flushes again.
FrozenForGood == Up /\ frozen /\ ~awaited /\ "wait" \in faults.kinds

\* An acknowledged record is stored at last, over crashes, restarts, failed flushes
\* and abandoned ones, unless it is given up for its content or pushed out of a full
\* buffer, or the log cannot be read, or a wait timer has frozen the chain: then it
\* has to wait for another start, which nobody promises.
AckedIsStored ==
    \A r \in Sensitive :
        r \in acked ~> \/ r \in UNION {db, judged, overflowed}
                       \/ "wal" \in faults.kinds
                       \/ FrozenForGood
=============================================================================
