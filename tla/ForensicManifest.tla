---------------------------- MODULE ForensicManifest ----------------------------
(***************************************************************************)
(* The forensic capture: records that several processes of one host store, *)
(* and the manifest of the day, a file in which every batch that was       *)
(* stored becomes a line whose chainHash covers the line before it.        *)
(*                                                                         *)
(* A process stores a batch, then appends to the manifest: first what      *)
(* earlier failed, then the batch, each under a lock file that one process *)
(* creates and removes.  A lock file older than staleMs is taken for that  *)
(* of a dead process.  Every system call on the lock file is a step of its *)
(* own; processes die between any two, and their successors read back the  *)
(* write-ahead log, which all processes share.                             *)
(*                                                                         *)
(* A line stands for its chainHash, and a chainHash for all it was         *)
(* computed from: the batches up to and including its own.                 *)
(***************************************************************************)
EXTENDS Naturals, FiniteSets, Sequences, SequencesExt

CONSTANTS
    Procs,
    Records,    \* requests that may be captured, each once
    MaxPending, \* MAX_PENDING
    MaxFaults,  \* bound: things that go wrong in a behaviour
    Dead,       \* stands for the owner of a lock file that nobody will remove
    None

ASSUME ManifestAssumption ==
    /\ MaxPending \in Nat \ {0} /\ MaxFaults \in Nat
    /\ Dead \notin Procs /\ None \notin [owner : Procs \cup {Dead}, old : BOOLEAN]

VARIABLES
    captured,  \* the records so far
    buffer,    \* state.buffer of each process
    batch,     \* what the flush under way has taken from it
    job,       \* how far the flush is, and whether it writes an earlier batch
    pending,   \* the batches of the retry queue
    prev,      \* the chainHash the line under way follows
    lock,      \* the lock file: its owner, and whether it is older than staleMs
    lines,     \* the lines of the manifest
    tail,      \* its last line: "whole", "open" (no newline), "cut", "junk" (unparsable)
    wal,       \* records with a line in the write-ahead log
    db,        \* records that are stored
    unlisted,  \* stored records whose line has been given up (history)
    relisted,  \* records whose line is there though writing it failed (history)
    breach,    \* how somebody got past the lock (history)
    faults

memory  == <<buffer, batch, job, pending, prev>>
files   == <<lock, lines, tail, wal>>
history == <<unlisted, relisted, breach>>
vars    == <<captured, memory, files, db, history, faults>>

Idle == [step |-> "idle", early |-> FALSE, written |-> FALSE]

At(p, step) == job[p].step = step
Goes(p, step) == job' = [job EXCEPT ![p].step = step]

Fault == faults < MaxFaults /\ faults' = faults + 1

\* writeLocked: the batch a process is writing, an earlier one before its own.
Writing(p) == IF job[p].early THEN Head(pending[p]) ELSE batch[p]

-----------------------------------------------------------------------------
Init ==
    /\ captured = {} /\ db = {} /\ wal = {}
    /\ buffer = [p \in Procs |-> {}] /\ batch = [p \in Procs |-> {}]
    /\ job = [p \in Procs |-> Idle]
    /\ pending = [p \in Procs |-> << >>] /\ prev = [p \in Procs |-> << >>]
    /\ lock = None /\ lines = << >> /\ tail = "whole"
    /\ unlisted = {} /\ relisted = {} /\ breach = {} /\ faults = 0

\* record: a line in the log, which may fail to be written, and into the buffer.
Record(p) ==
    /\ ~At(p, "down")
    /\ \E r \in Records \ captured :
          /\ captured' = captured \cup {r}
          /\ buffer' = [buffer EXCEPT ![p] = @ \cup {r}]
          /\ \/ wal' = wal \cup {r} /\ UNCHANGED faults
             \/ Fault /\ UNCHANGED wal
    /\ UNCHANGED <<batch, job, pending, prev, lock, lines, tail, db, history>>

\* flush: all there is in the buffer, one flush at a time.
FlushBegins(p) ==
    /\ At(p, "idle") /\ buffer[p] # {}
    /\ batch' = [batch EXCEPT ![p] = buffer[p]] /\ buffer' = [buffer EXCEPT ![p] = {}]
    /\ Goes(p, "insert")
    /\ UNCHANGED <<captured, pending, prev, files, db, history, faults>>

\* appendBatch: what failed earlier comes first.
Listing(p) ==
    job' = [job EXCEPT ![p] = [step |-> "want", early |-> pending[p] # << >>,
                               written |-> FALSE]]

\* insertMany has stored the batch; its lines leave the log (trimBySeqs), or fail to.
Stored(p) ==
    /\ At(p, "insert") /\ batch[p] \cap db = {}
    /\ db' = db \cup batch[p]
    /\ \/ wal' = wal \ batch[p] /\ UNCHANGED faults
       \/ Fault /\ UNCHANGED wal
    /\ Listing(p)
    /\ UNCHANGED <<captured, buffer, batch, pending, prev, lock, lines, tail, history>>

\* docsNotYetStored: what goes back into the buffer, which is the whole batch when the
\* query fails.
NotYetStored(p, stored) == batch[p] \ stored

\* insertMany has failed, since the connection broke or some records were stored before;
\* others of the batch may be stored all the same, and get no line.
InsertFails(p) ==
    /\ At(p, "insert")
    /\ \E landed \in SUBSET (batch[p] \ db), failing \in BOOLEAN :
          /\ IF batch[p] \cap db # {} /\ landed = batch[p] \ db /\ ~failing
             THEN UNCHANGED faults
             ELSE Fault
          /\ db' = db \cup landed
          /\ unlisted' = unlisted \cup landed
          /\ buffer' = [buffer EXCEPT ![p] =
                            @ \cup IF failing THEN batch[p] ELSE NotYetStored(p, db')]
    /\ batch' = [batch EXCEPT ![p] = {}] /\ job' = [job EXCEPT ![p] = Idle]
    /\ UNCHANGED <<captured, pending, prev, files, relisted, breach>>

-----------------------------------------------------------------------------
(* The end of writing a batch *)

Enqueued(queue, b) ==
    Append(IF Len(queue) >= MaxPending THEN Tail(queue) ELSE queue, b)

\* enqueue drops the oldest batch when the queue is full.
Dropped(p) == IF Len(pending[p]) >= MaxPending THEN Head(pending[p]) ELSE {}

\* drain: a batch leaves the queue when it has its line; at one that fails drain stops.
\* (It would be lost if it left the queue before.)
ShiftedFirst(queue, written) == Tail(queue)
Drained(queue, written) == IF written THEN Tail(queue) ELSE queue

\* drain, and then appendBatch with the batch of the flush, which goes into the queue if
\* it fails.
Concludes(p, written) ==
    IF job[p].early
    THEN /\ pending' = [pending EXCEPT ![p] = Drained(@, written)]
         /\ job' = [job EXCEPT ![p] = [step |-> "want", written |-> FALSE,
                                       early |-> written /\ pending'[p] # << >>]]
         /\ UNCHANGED <<batch, unlisted>>
    ELSE /\ batch' = [batch EXCEPT ![p] = {}]
         /\ job' = [job EXCEPT ![p] = Idle]
         /\ IF written
            THEN UNCHANGED <<pending, unlisted>>
            ELSE /\ pending' = [pending EXCEPT ![p] = Enqueued(@, batch[p])]
                 /\ unlisted' = unlisted \cup Dropped(p)

-----------------------------------------------------------------------------
(* The lock file *)

\* tryCreate: the file is created if there is none, in one call.  (Without O_EXCL there
\* would never be any.)
FreeAlways == TRUE
Free == lock = None

TryCreate(p) ==
    /\ \/ At(p, "want") \/ At(p, "retake")
    /\ IF Free
       THEN lock' = [owner |-> p, old |-> FALSE] /\ Goes(p, "inside")
       ELSE UNCHANGED lock /\ Goes(p, IF At(p, "want") THEN "seen" ELSE "wait")
    /\ UNCHANGED <<captured, buffer, batch, pending, prev, lines, tail, wal, db, history, faults>>

\* tryTakeOverStale looks at the file that was there.  If it is gone, the caller goes on
\* as if it had created one.
Stat(p) ==
    /\ At(p, "seen")
    /\ breach' = IF Free THEN breach \cup {"vanished"} ELSE breach
    /\ Goes(p, IF Free THEN "inside" ELSE IF lock.old THEN "stale" ELSE "wait")
    /\ UNCHANGED <<captured, buffer, batch, pending, prev, files, db, unlisted, relisted, faults>>

\* tryTakeOverStale removes the file that is there by now.
TakeOver(p) ==
    /\ At(p, "stale")
    /\ breach' = IF lock # None /\ lock.owner # Dead THEN breach \cup {"removed"} ELSE breach
    /\ lock' = None
    /\ Goes(p, "retake")
    /\ UNCHANGED <<captured, buffer, batch, pending, prev, lines, tail, wal, db, unlisted,
                   relisted, faults>>

\* withLock: another try, or lock_timeout.
Wait(p) ==
    /\ At(p, "wait")
    /\ \/ Goes(p, "want") /\ UNCHANGED <<batch, pending, unlisted>>
       \/ Concludes(p, FALSE)
    /\ UNCHANGED <<captured, buffer, prev, files, db, relisted, breach, faults>>

\* The file grows older than staleMs; while its owner lives this is a fault of the disk.
Ages ==
    /\ lock # None /\ ~lock.old
    /\ lock' = [lock EXCEPT !.old = TRUE]
    /\ IF lock.owner = Dead THEN UNCHANGED faults ELSE Fault
    /\ UNCHANGED <<captured, memory, lines, tail, wal, db, history>>

-----------------------------------------------------------------------------
(* Under the lock *)

\* readLastChainHash: of the file as it is now; a line that cannot be parsed is not
\* followed by another.
LastHash(p) == IF lines = << >> THEN << >> ELSE Last(lines)

ReadLast(p) ==
    /\ At(p, "inside")
    /\ IF tail \in {"cut", "junk"}
       THEN Goes(p, "release") /\ UNCHANGED prev
       ELSE Goes(p, "append") /\ prev' = [prev EXCEPT ![p] = LastHash(p)]
    /\ UNCHANGED <<captured, buffer, batch, pending, files, db, history, faults>>

Line(p) == Append(prev[p], Writing(p))

\* appendFile: the file with the line added, up to where `end` says the write got.  What
\* comes behind a line without newline is glued to it, and neither can be parsed.
FileWith(p, end) ==
    CASE end = "none" -> UNCHANGED <<lines, tail>>
      [] end # "none" /\ tail \in {"whole", "junk"} ->
             /\ tail' = end
             /\ lines' = IF end = "cut" THEN lines ELSE Append(lines, Line(p))
      [] end # "none" /\ tail \in {"open", "cut"} ->
             /\ tail' = IF end = "whole" THEN "junk" ELSE "cut"
             /\ lines' = IF tail = "open" THEN Front(lines) ELSE lines

\* The records whose line is spoilt by that.
Glued(p) ==
    CASE tail = "open" -> Last(Last(lines)) \cup Writing(p)
      [] tail = "cut" -> Writing(p)
      [] OTHER -> {}

Appended(p) ==
    /\ At(p, "append") /\ FileWith(p, "whole")
    /\ unlisted' = unlisted \cup Glued(p)
    /\ job' = [job EXCEPT ![p].step = "release", ![p].written = TRUE]
    /\ UNCHANGED <<captured, buffer, batch, pending, prev, lock, wal, db, relisted, breach,
                   faults>>

AppendFails(p) ==
    /\ At(p, "append") /\ Fault
    /\ \E end \in {"none", "cut", "open", "whole"} :
          /\ FileWith(p, end)
          /\ relisted' = IF end \in {"open", "whole"} THEN relisted \cup Writing(p) ELSE relisted
          /\ unlisted' = IF end = "none" THEN unlisted ELSE unlisted \cup Glued(p)
    /\ Goes(p, "release")
    /\ UNCHANGED <<captured, buffer, batch, pending, prev, lock, wal, db, breach>>

\* withLock: the file is removed, whoever created it, or cannot be.
Release(p) ==
    /\ At(p, "release")
    /\ \/ lock' = None /\ UNCHANGED faults
       \/ lock # None /\ lock' = [lock EXCEPT !.owner = Dead] /\ Fault
    /\ Concludes(p, job[p].written)
    /\ UNCHANGED <<captured, buffer, prev, lines, tail, wal, db, relisted, breach>>

-----------------------------------------------------------------------------
(* Processes *)

Queued(p) == UNION Range(pending[p])

\* The records a process has still to find a line for: its queue, and the batch of a
\* flush that has stored it and has not concluded.
Lists(p) == job[p].step \notin {"idle", "insert", "down"}
ToList(p) == Queued(p) \cup IF Lists(p) THEN batch[p] ELSE {}

\* A process dies: what it was inserting may be stored, what it was writing written.
Crash(p) ==
    /\ ~At(p, "down") /\ Fault
    /\ \E landed \in SUBSET IF At(p, "insert") THEN batch[p] \ db ELSE {} :
          /\ db' = db \cup landed
          /\ unlisted' = unlisted \cup landed \cup ToList(p)
    /\ \E end \in IF At(p, "append") THEN {"none", "cut", "open", "whole"} ELSE {"none"} :
          FileWith(p, end)
    /\ lock' = IF lock # None /\ lock.owner = p THEN [lock EXCEPT !.owner = Dead] ELSE lock
    /\ buffer' = [buffer EXCEPT ![p] = {}] /\ batch' = [batch EXCEPT ![p] = {}]
    /\ pending' = [pending EXCEPT ![p] = << >>] /\ prev' = [prev EXCEPT ![p] = << >>]
    /\ job' = [job EXCEPT ![p] = [Idle EXCEPT !.step = "down"]]
    /\ UNCHANGED <<captured, wal, relisted, breach>>

\* start: the lines of the log come back into the buffer.
Start(p) ==
    /\ At(p, "down")
    /\ buffer' = [buffer EXCEPT ![p] = wal]
    /\ Goes(p, "idle")
    /\ UNCHANGED <<captured, batch, pending, prev, files, db, history, faults>>

Next ==
    \/ Ages
    \/ \E p \in Procs :
        \/ Record(p) \/ FlushBegins(p) \/ Stored(p) \/ InsertFails(p)
        \/ TryCreate(p) \/ Stat(p) \/ TakeOver(p) \/ Wait(p)
        \/ ReadLast(p) \/ Appended(p) \/ AppendFails(p) \/ Release(p)
        \/ Crash(p) \/ Start(p)

Spec == Init /\ [][Next]_vars

-----------------------------------------------------------------------------
(* Properties *)

Hashes == Seq(SUBSET Records)

\* What each variable holds.
ForensicManifestTypeOK ==
    /\ captured \subseteq Records /\ db \subseteq captured /\ wal \subseteq captured
    /\ buffer \in [Procs -> SUBSET captured] /\ batch \in [Procs -> SUBSET captured]
    /\ job \in [Procs -> [step : {"idle", "insert", "want", "seen", "wait", "stale", "retake",
                                  "inside", "append", "release", "down"},
                          early : BOOLEAN, written : BOOLEAN]]
    /\ \A p \in Procs : job[p].early => pending[p] # << >>
    /\ pending \in [Procs -> Seq(SUBSET captured)]
    /\ \A p \in Procs : Len(pending[p]) <= MaxPending
    /\ prev \in [Procs -> Hashes]
    /\ lock \in [owner : Procs \cup {Dead}, old : BOOLEAN] \cup {None}
    /\ lines \in Seq(Hashes) /\ tail \in {"whole", "open", "cut", "junk"}
    /\ unlisted \subseteq captured /\ relisted \subseteq captured
    /\ breach \subseteq {"vanished", "removed"} /\ faults \in 0..MaxFaults

\* Every line follows the line before it (else verifyManifest reports chain_broken).
Unbroken ==
    \A i \in DOMAIN lines : Front(lines[i]) = IF i = 1 THEN << >> ELSE lines[i - 1]

\* However the processes meet, the chain of lines is broken only after somebody got past
\* the lock: by taking a file that was just removed for its own, or by removing that of a
\* process that lives.
ForksNeedABreach == breach = {} => Unbroken

Listed == UNION {Last(lines[i]) : i \in DOMAIN lines}

\* A stored record has its line, or a process has still to write it, unless the process
\* died, the insertion failed half way, the queue was full or the line was spoilt.
StoredIsListed ==
    db \subseteq unlisted \cup Listed \cup UNION {ToList(p) : p \in Procs}

\* No record has two lines, unless writing the first was reported to have failed though it
\* had not.
ListedOnce ==
    \A i, j \in DOMAIN lines : i # j => Last(lines[i]) \cap Last(lines[j]) \subseteq relisted

\* The manifest accounts for the database: however the batches of the processes fail, are
\* queued, retried and replayed, each stored record is listed exactly once, which is what
\* reconcileWithDb compares.
ManifestAccounts == StoredIsListed /\ ListedOnce
=============================================================================
