----------------------------- MODULE AuditChain -----------------------------
(***************************************************************************)
(* The audit hash chain of one server process without Redis: the two kinds *)
(* of writers that append to it, over the critical section of              *)
(* AuditChainLock.                                                         *)
(*                                                                         *)
(* - auditBuffer.flush takes a batch of buffered records and does          *)
(*   everything inside the section: read the tail, chain the batch, insert *)
(*   it, move the tail on.                                                 *)
(* - AuditLog.create (the pre('save') hook of models/auditLogHooks.js)     *)
(*   reads the tail, chains one record and moves the tail on inside the    *)
(*   section; the insertion follows when the section has been left.        *)
(*                                                                         *)
(* A record is a number, in the order of the _ids.  Its hash stands for    *)
(* everything it was computed from, the sequence of records that ends with *)
(* it: computeHash(prevHash, payload) is Append(prevHash, record), and     *)
(* prevHash is all of the hash but its last element.                       *)
(***************************************************************************)
EXTENDS AuditChainLock, Naturals, Sequences, FiniteSetsExt, SequencesExt

CONSTANTS
    Creates,    \* the calls made by AuditLog.create; the others are flushes
    MaxRecords, \* bound: records ever created
    BatchLimit, \* flushBatchLimit()
    MaxFaults,  \* bound: things that go wrong in a behaviour
    FaultKinds  \* which: "timeout", "reject", "partial", "lostAck", "crash"

ASSUME ChainAssumption ==
    /\ Creates \subseteq Calls
    /\ MaxRecords \in Nat /\ BatchLimit \in Nat \ {0} /\ MaxFaults \in Nat

VARIABLES
    nextRecord,  \* the records so far are 1 .. nextRecord - 1
    buffer,      \* auditBuffer: records waiting for a flush
    flushing,    \* the call of the flush under way, None if there is none
    step,        \* how far the fn of each call is
    batch,       \* the records each call writes
    start,       \* the prevHash the call's batch was chained to
    chainTail,   \* the in-process tail, the hash of the newest record
    db,          \* hashes of the stored records of the chain
    faults,      \* things that went wrong so far
    kinds        \* which, and "create" when there was one (history)

flushVars == <<buffer, flushing>>
callVars  == <<step, batch, start>>
upsets    == <<faults, kinds>>
chainVars == <<nextRecord, flushVars, callVars, chainTail, db, upsets>>
allVars   == <<vars, chainVars>>

Records == 1..MaxRecords
Flushes == Calls \ Creates

Steps == {"none",     \* outside fn
          "read",     \* fn awaits the tail from the database
          "chained",  \* the batch has its hashes; a flush awaits insertMany
          "insert"}   \* a create outside the section awaits its insertion

Parent(h) == Front(h)

\* Records whose _id the unique index already has.  A retry that took a new _id
\* each time would never meet one.
StoredUnderOtherIds == {}
Stored == {Last(h) : h \in db}

\* chainBatch: the i-th record of c's batch hashes over its predecessors.
ChainedFrom(tail, records) == {tail \o SubSeq(records, 1, i) : i \in DOMAIN records}

\* getLatestHash: among the stored hashes, one nobody claims as prevHash; of
\* several the one with the largest _id, of none the largest _id of all.
LatestHash ==
    LET unclaimed == {h \in db : \A g \in db : Parent(g) # h}
        newest(S) == CHOOSE h \in S : \A g \in S : Last(g) <= Last(h)
    IN  IF db = {} THEN << >>
        ELSE newest(IF unclaimed = {} THEN db ELSE unclaimed)

\* The records of S in the order of their _ids: a set of one sequence.
Sorted(S) == {s \in SetToSeqs(S) : \A i, j \in DOMAIN s : i < j => s[i] < s[j]}

\* Records a batch that was cut off may have left in the database: its first few.
Prefix(records) == {ToSet(SubSeq(records, 1, i)) : i \in 0..Len(records)}

MayFail(kind) == kind \in FaultKinds /\ faults < MaxFaults
Fault(kind)   == MayFail(kind) /\ faults' = faults + 1 /\ kinds' = kinds \cup {kind}

\* A create whose tail is known computes and leaves in one run of the event
\* loop: nothing else happens meanwhile.
Running == {c \in Creates : step[c] = "chained"}
Quiet == Running = {}

-----------------------------------------------------------------------------
\* A server without REDIS_URL: the tail is in the process and in the database only.
ChainInit ==
    /\ ~RedisConfigured
    /\ Init
    /\ nextRecord = 1
    /\ buffer = << >> /\ flushing = None
    /\ step  = [c \in Calls |-> "none"]
    /\ batch = [c \in Calls |-> << >>]
    /\ start = [c \in Calls |-> << >>]
    /\ chainTail = << >>
    /\ db = {}
    /\ faults = 0 /\ kinds = {}

\* auditBuffer.push
Push ==
    /\ nextRecord <= MaxRecords
    /\ nextRecord' = nextRecord + 1
    /\ buffer' = Append(buffer, nextRecord)
    /\ UNCHANGED <<vars, flushing, callVars, chainTail, db, upsets>>

\* The early return of flush.
MayFlush == flushing = None /\ buffer # << >> /\ ~frozen

\* flush: not while another is under way, and not while the chain is frozen.
FlushBegin(c) ==
    /\ c \in Flushes /\ step[c] = "none" /\ batch[c] = << >>
    /\ MayFlush
    /\ LET n == Min({BatchLimit, Len(buffer)})
       IN  /\ batch' = [batch EXCEPT ![c] = SubSeq(buffer, 1, n)]
           /\ buffer' = SubSeq(buffer, n + 1, Len(buffer))
    /\ flushing' = c
    /\ Call(c)
    /\ UNCHANGED <<nextRecord, step, start, chainTail, db, upsets>>

\* AuditLog.create: pre('save').
CreateBegin(c) ==
    /\ c \in Creates /\ step[c] = "none" /\ batch[c] = << >>
    /\ nextRecord <= MaxRecords
    /\ nextRecord' = nextRecord + 1
    /\ batch' = [batch EXCEPT ![c] = <<nextRecord>>]
    /\ Call(c)
    /\ kinds' = kinds \cup {"create"}
    /\ UNCHANGED <<flushVars, step, start, chainTail, db, faults>>

\* What the caller does when withChainLock rejects: a flush puts its batch back
\* at the front of the buffer, a create stores its record without a hash, out
\* of the chain.  A zombie keeps the batch it works on.
Rejected(c, abandoned) ==
    /\ batch' = IF abandoned THEN batch ELSE [batch EXCEPT ![c] = << >>]
    /\ IF c \in Flushes
       THEN /\ flushing' = None
            /\ buffer' = batch[c] \o buffer
       ELSE UNCHANGED flushVars
    /\ UNCHANGED step

LockRejects(c) ==
    /\ \/ WaitTimeout(c) /\ Fault("timeout") /\ chainTail' = << >>
       \/ TurnedAway(c) /\ UNCHANGED <<chainTail, upsets>>
    /\ Rejected(c, FALSE)
    /\ UNCHANGED <<nextRecord, start, db>>

\* HoldTimeout: the fn of c goes on as a zombie.
Abandoned(c) ==
    /\ HoldTimeout(c) /\ Fault("timeout") /\ chainTail' = << >>
    /\ Rejected(c, TRUE)
    /\ UNCHANGED <<nextRecord, start, db>>

\* fn starts; getChainTail answers at once when the tail is loaded.
FnStarts(c) ==
    /\ Enter(c)
    /\ step' = [step EXCEPT ![c] = IF chainTailLoaded THEN "chained" ELSE "read"]
    /\ start' = [start EXCEPT ![c] = IF chainTailLoaded THEN chainTail ELSE << >>]
    /\ UNCHANGED <<nextRecord, flushVars, batch, chainTail, db, upsets>>

\* getChainTail: the tail comes from the database.
TailRead(c) ==
    /\ step[c] = "read"
    /\ LoadTail(c)
    /\ chainTail' = LatestHash
    /\ start' = [start EXCEPT ![c] = LatestHash]
    /\ step' = [step EXCEPT ![c] = "chained"]
    /\ UNCHANGED <<nextRecord, flushVars, batch, db, upsets>>

\* advanceChainTail(hash, gen): not by a fn whose generation has passed.
AdvanceForgotten(c) == UNCHANGED chainTail
AdvanceChainTail(c) ==
    chainTail' = IF c \in stale THEN chainTail ELSE start[c] \o batch[c]

\* filter: what is left of s without the records of `gone`, in its order.  Each is
\* in s once, so that the set has one element.
Remains(s, gone) ==
    {t \in SetToSeqs(ToSet(s) \ gone) :
        \A i, j \in DOMAIN t : i < j =>
            \E a, b \in DOMAIN s : a < b /\ s[a] = t[i] /\ s[b] = t[j]}

\* retractDurable: records known to be stored leave the buffer.
RetractForgotten(stored) == {buffer}
Retracted(stored) == Remains(buffer, stored)

\* The end of a flush's fn: `stored` is what it knows to be in the database.
\* The caller puts the rest of its batch back into the buffer.  A zombie's batch
\* was put back long ago: what is stored leaves the buffer.
FlushEnds(c, stored) ==
    /\ step'  = [step EXCEPT ![c] = "none"]
    /\ batch' = [batch EXCEPT ![c] = << >>]
    /\ IF pc[c] = "zombie"
       THEN /\ buffer' \in Retracted(stored)
            /\ ZombieSettles(c)
            /\ UNCHANGED flushing
       ELSE /\ \E rest \in Remains(batch[c], stored) : buffer' = rest \o buffer
            /\ flushing' = None

\* insertMany has stored the whole batch: the tail moves on, unless the
\* generation has changed.
FlushStored(c) ==
    /\ c \in Flushes /\ step[c] = "chained"
    /\ ToSet(batch[c]) \cap Stored = {}
    /\ db' = db \cup ChainedFrom(start[c], batch[c])
    /\ FlushEnds(c, ToSet(batch[c]))
    /\ IF pc[c] = "zombie"
       THEN chainTail' = << >>
       ELSE /\ LeaveFn(c)
            /\ AdvanceChainTail(c)
            /\ UNCHANGED tailVars
    /\ UNCHANGED <<nextRecord, start, upsets>>

\* insertMany fails.  Some records may be stored by it, others may have been
\* stored before (E11000); the error tells all of them or, when the connection
\* broke, none.  Known stored records make the flush resynchronise the tail.
FlushFails(c) ==
    /\ c \in Flushes /\ step[c] = "chained"
    /\ LET mine == ToSet(batch[c])
           dups == mine \cap Stored
       IN  \E landed \in SUBSET (mine \ Stored), told \in BOOLEAN :
             LET stored == IF told THEN dups \cup landed ELSE {}
             IN  /\ ~told => landed \cup dups \in Prefix(batch[c])
                 /\ IF told /\ dups # {} /\ landed = mine \ dups
                    THEN UNCHANGED upsets
                    ELSE Fault(IF ~told /\ landed # {} THEN "lostAck"
                               ELSE IF stored = {} THEN "reject" ELSE "partial")
                 /\ told => landed # mine
                 /\ db' = db \cup {h \in ChainedFrom(start[c], batch[c]) :
                                     Last(h) \in landed}
                 /\ FlushEnds(c, stored)
                 /\ IF pc[c] = "zombie"
                    THEN chainTail' = << >>
                    ELSE /\ LeaveFn(c)
                         /\ IF stored = {}
                            THEN UNCHANGED <<chainTail, tailVars>>
                            ELSE /\ ResyncChainTail
                                 /\ chainTail' = << >>
                                 /\ UNCHANGED sharedTailUntrusted
    /\ UNCHANGED <<nextRecord, start>>

\* A create's fn has its hash: it moves the tail on, the section is left, and
\* only now the record is sent to the database.
CreateLeaves(c) ==
    /\ c \in Creates /\ step[c] = "chained" /\ pc[c] = "working"
    /\ LeaveFn(c)
    /\ AdvanceChainTail(c)
    /\ step' = [step EXCEPT ![c] = "insert"]
    /\ UNCHANGED <<tailVars, nextRecord, flushVars, batch, start, db, upsets>>

\* The fn of an abandoned create has its hash, which nobody waits for any more.
ZombieCreateEnds(c) ==
    /\ c \in Creates /\ step[c] = "chained" /\ pc[c] = "zombie"
    /\ ZombieSettles(c)
    /\ chainTail' = << >>
    /\ step' = [step EXCEPT ![c] = "none"]
    /\ batch' = [batch EXCEPT ![c] = << >>]
    /\ UNCHANGED <<nextRecord, flushVars, start, db, upsets>>

CreateEnds(c) ==
    /\ c \in Creates /\ step[c] = "insert"
    /\ step' = [step EXCEPT ![c] = "none"]
    /\ batch' = [batch EXCEPT ![c] = << >>]
    /\ UNCHANGED <<vars, nextRecord, flushVars, start>>

CreateStored(c) ==
    /\ CreateEnds(c)
    /\ db' = db \cup {start[c] \o batch[c]}
    /\ UNCHANGED <<chainTail, upsets>>

\* The insertion fails (or seems to): post('save') takes the tail back, if it is
\* still the record's own hash or has been invalidated (rollbackChainTail).
CreateFails(c) ==
    /\ CreateEnds(c)
    /\ \/ Fault("reject") /\ UNCHANGED db
       \/ Fault("lostAck") /\ db' = db \cup {start[c] \o batch[c]}
    /\ chainTail' = IF ~chainTailLoaded \/ chainTail = start[c] \o batch[c]
                    THEN start[c] ELSE chainTail

\* The process dies and starts again: index.js resynchronises the tail before
\* anything writes.  Insertions under way may still have reached the database;
\* the write-ahead log brings back the records that were not yet trimmed.
Crash ==
    LET flying == UNION {ChainedFrom(start[c], batch[c]) :
                            c \in {d \in Calls : step[d] \in {"chained", "insert"}}}
        cutOff(landed) == \A c \in Flushes : step[c] = "chained" =>
                             ToSet(batch[c]) \cap (Stored \cup {Last(h) : h \in landed})
                                 \in Prefix(batch[c])
        fresh  == {h \in flying : Last(h) \notin Stored}
        held   == ToSet(buffer) \cup UNION {ToSet(batch[c]) : c \in Flushes}
    IN  /\ Fault("crash")
        /\ \E landed \in SUBSET fresh : cutOff(landed) /\ db' = db \cup landed
        /\ \E kept \in SUBSET held : buffer' \in Sorted(kept)
        /\ pc' = [c \in Calls |-> "idle"]
        /\ prev' = [c \in Calls |-> None]
        /\ chainLock' = None /\ armedBefore' = {} /\ frozen' = FALSE
        /\ stale' = {} /\ chainTailLoaded' = FALSE
        /\ flushing' = None
        /\ step'  = [c \in Calls |-> "none"]
        /\ batch' = [c \in Calls |-> << >>]
        /\ chainTail' = << >>
        /\ UNCHANGED <<sharedTailUntrusted, nextRecord, start>>

ChainNext ==
    \/ Quiet /\ (Push \/ Crash)
    \/ \E c \in Calls :
        \/ CreateLeaves(c) \/ ZombieCreateEnds(c)
        \/ /\ Quiet
           /\ \/ FlushBegin(c) \/ CreateBegin(c)
              \/ LockRejects(c) \/ Abandoned(c) \/ FnStarts(c) \/ TailRead(c)
              \/ FlushStored(c) \/ FlushFails(c)
              \/ CreateStored(c) \/ CreateFails(c)

ChainSpec == ChainInit /\ [][ChainNext]_allVars

-----------------------------------------------------------------------------
(* Properties *)

\* Hashes that have been handed out and whose record is on its way.
Flying == UNION {ChainedFrom(start[c], batch[c]) :
                    c \in {d \in Calls : step[d] \in {"chained", "insert"}}}

\* What each variable holds; a flush that has not been abandoned is the one
\* `flushing` names, and a record is never in two batches, or both in a batch
\* and in the buffer, of flushes that have not been abandoned.
ChainTypeOK ==
    /\ TypeOK
    /\ nextRecord \in 1..(MaxRecords + 1)
    /\ buffer \in Seq(Records) /\ Cardinality(ToSet(buffer)) = Len(buffer)
    /\ flushing \in Flushes \cup {None}
    /\ step \in [Calls -> Steps]
    /\ batch \in [Calls -> Seq(Records)] /\ start \in [Calls -> Seq(Records)]
    /\ chainTail \in Seq(Records)
    /\ db \subseteq Seq(Records) /\ << >> \notin db
    /\ faults \in 0..MaxFaults /\ kinds \subseteq FaultKinds \cup {"create"}
    /\ \A c \in Flushes : pc[c] \in {"waiting", "working"} =>
          flushing = c /\ ToSet(batch[c]) \cap ToSet(buffer) = {}

NoFork == \A g, h \in db : Parent(g) = Parent(h) => g = h

NoPhantom == \A h \in db : Parent(h) \in db \cup Flying \cup {<< >>}

\* So far nothing has failed, or there were only flushes, whose timers ran out or
\* whose insertions were refused as a whole.
Undisturbed == kinds \subseteq {"create"} \/ kinds \subseteq {"timeout", "reject"}

\* As long as the chain is undisturbed no two records have the same parent, though a
\* create inserts its record outside the section and an abandoned flush may end at any
\* time; and the parent of every record is stored or on its way.
ChainIsWhole == Undisturbed => NoFork /\ NoPhantom

\* A stored record is never stored a second time.
StoredOnce == \A g, h \in db : Last(g) = Last(h) => g = h

\* The ledger is the longest chain of the database: the sequence of records its
\* newest hash stands for.
Ledger == IF db = {} THEN << >>
          ELSE CHOOSE h \in db : \A g \in db : Len(g) <= Len(h)

Promised == INSTANCE AuditLedger WITH ledger <- Ledger, undisturbed <- Undisturbed

\* The chain implements the append-only ledger for as long as it is undisturbed: every
\* record that is stored comes behind all records before it, and history is never
\* replaced.
ImplementsLedger == Promised!Spec
=============================================================================
