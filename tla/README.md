# Verification of the Fire Safety Management System

The repository is a fire safety management system: a Node/Express back end over MongoDB with
Socket.IO and an optional Redis (`src/src/`), and a Vue front end (`src/web-admin/`). Several
server instances may run at once; they share the database and, when it is configured, Redis.

This directory holds TLA+ models of the parts of the back end whose correctness depends on the
*order* of events, the TLC instances that check them, and TLAPS proofs for any number of callers,
records, sessions and queries. Paths below are relative to the repository (`utils/x.js` is
`src/src/utils/x.js`).

Contents: [1 Inventory](#1-inventory) · [2 Modules](#2-modules) · [3 Runs](#3-runs) ·
[4 Where the code and its comments disagree](#4-where-the-code-and-its-comments-disagree) ·
[5 Proofs](#5-proofs) · [6 Not modelled](#6-what-is-not-modelled) · [7 Plan](#7-plan)

## 1 Inventory

Each JavaScript process runs one step at a time; another step may come in at every `await`, timer
and callback. That, the database calls of several processes, and failures in between are what is
hard here. Components, the state they keep, and what makes them correct:

| Component | State | Operations | Must hold |
|---|---|---|---|
| **Audit chain** (`utils/auditChain*.js`, `models/auditLogHooks.js`) | in-process tail of the hash chain, its generation, the queue of the critical section, the fence; the shared tail and the lock in Redis; the stored records | `withChainLock`, `getChainTail`, `advanceChainTail`, `resyncChainTail`, `rollbackChainTail`; the batch flush; `AuditLog.create` | at most one writer inside, abandoned ("zombie") writers included; no two records with one parent; no record over a parent that is not stored; nobody waits for ever |
| **Audit buffer** (`services/auditBuffer*.js`, `auditWalCap.js`, `auditOutbox.js`) | memory buffer, batch in flight, strikes per record, the write-ahead log with its archive, the queue of file operations | `push`, `flush` and its failures, `recordDurably`, trim, cap, archive, replay, `flushAndStop` | what has been acknowledged survives a crash; nothing is dropped except records that are themselves to blame and counted overflow; a line leaves the log only when its record is safe |
| **Login sessions** (`services/authService/`, `sessionService.js`, `sessionCap.js`, `middleware/tokenBlacklist.js`, `controllers/authController/session.js`) | `tokenVersion` of the user, `UserSession` documents, barred tokens | login, rotation of refresh tokens, replay reaction, logout, termination of devices, revocation of everything | one line of tokens per session; revocations are final; the cap on sessions |
| **User authentication cache** (`middleware/auth.js`, `userAuthCache.js`, `services/sharedCache/invalidation.js`) | entry per user with the time of load, expiry and invalidation | `loadValidUser`, `invalidateUserCacheLocal`, clean-up and eviction, broadcast | after an invalidation no old user is served, and in no case for long |
| **Request idempotency** (`middleware/idempotency.js`, `models/IdempotencyRecord.js`) | record per key: fingerprint, state, stored response, expiry | claim, conflict, two takeovers, settlement, release, TTL | one effect per key; one holder per lease; the replay is the answer to the same payload |
| **Session cache and live connections** (`services/sessionService.js`, `services/websocketService/`) | 15 s verdict per session and one generation per process; sockets with their session, room and slot; the sweep | validate, revoke here or elsewhere, handshake, join a room, disconnect, sweep | a revoked session is not cached again; no socket outlives its session for good; the books on connections agree with the connections |
| **Privilege grants and the permission cache** (`services/privilegeGrant*.js`, `userPermissionService.js`) | grant with its approvals; per process an entry per user, a generation, the state of the Redis connection | request, approve in three calls, reject, revoke, expire; query, invalidate, broadcast | a grant is active only with enough approvals of others, and is activated when it has them; what was taken away is forgotten |
| **Second factor** (`services/mfaService.js`, `controllers/mfaController.js`, `utils/totp.js`) | secret, recovery codes, watermark of used windows, failures, lock | enrol, enable, disable, verify, replace codes, lock, lazy reset | a code is used once; what is on was proved; only its own factor turns it off; enough failures lock |
| **Alarms, inspections, devices** (`services/AlarmService.js`, `InspectionService.js`, `DeviceService.js`, the release of assignments in `userService.js`) | documents with a status that refer to devices and users | conditional updates, second looks, scheduler, deletions with their clean-ups, in a transaction or not | references stay valid, nobody out of service is left with work, what is closed stays closed |
| **Forensic capture and its manifest** (`services/forensic*.js`) | buffer and retry queue per process; the log, the manifest and its lock file, shared by the processes of a host | capture, flush, list, take over, retry, replay | each line follows the line before it; each stored record is listed once |
| Shared cache and locks (`services/sharedCache/`, `sharedCacheLocks.js`) | token and TTL | acquire, renew, release | one holder while its TTL lasts |
| Rate limits and bans (`middleware/rateLimit*.js`, `services/rateLimitEscalation*.js`, `ip*.js`) | counters, lists | count, escalate, ban | tiers grow with every ban |
| Users, captcha, statistics, reports, alerts, upgrades, configuration, HTTP layer, front end | mostly single documents or pure functions | | see section 6 |

How they interact. Every request goes through the authentication cache, which trusts `tokenVersion`
and the session. Every operation worth recording goes either to `auditBuffer.push`, whose timer
flushes batches, or, when it is sensitive, to `auditOutbox.recordDurably`, which calls
`AuditLog.create` and falls back to the write-ahead log. Both ways end in `withChainLock`, the only
place where the chain grows. Account changes tell the caches of all instances through
`sharedCache/invalidation.js`; each cache (user, session, permission) has its own scheme against a
query that is under way when the entry is dropped: a mark with times in the first, a generation in
the other two. The idempotency middleware wraps handlers that create something. Work orders look up
users and devices that others remove at the same time. The forensic capture stands beside the audit
trail and shares nothing with it but the shape.

`PROJECT.json` lists every component with its sources, and under `hazards` the places where
something can go wrong that a unit test would hardly reach, each with the properties that would show
it or the reason why none does.

## 2 Modules

| Module | Models | Role |
|---|---|---|
| `AuditChainLock` | `withChainLock` and the fence | component, proved about |
| `AuditChain` | the two writers of the chain, over `AuditChainLock` | composition (EXTENDS `AuditChainLock`; every step of a writer is a step of the lock or leaves it alone), proved about |
| `AuditLedger` | an append-only ledger | abstract specification, implemented by `AuditChain` |
| `AuditBuffer` | buffer, write-ahead log, outbox, shutdown | component, proved about |
| `Sessions` | sessions and token pairs of one user | component, proved about |
| `UserAuthCache` | the cached document of one user in one instance | component, proved about |
| `Idempotency` | the record of one key | component, proved about |
| `WorkOrders` | alarms, inspections, devices and users | composition of components that meet in the database, proved about |
| `Grants` | grants of one user and the permission cache of processes | composition, proved about |
| `SecondFactor` | two-step verification of one account | component, proved about |
| `LiveSockets` | session cache, connections and sweep of one process | composition, proved about |
| `ForensicManifest` | capture, manifest and lock file of several processes | component, proved about |
| `MC...` | instances for TLC: symmetry sets | |
| `...Proofs` | theorems | |

Definitions that come just before the one they vary (`FenceCheckSkipped` before `FenceCheck`, and so
on) are no part of any specification. They are plausible mistakes: each property of a passing run
has one which, put in the place of the definition, makes TLC find the property violated
(`PROJECT.json`, `mutants`).

### AuditChainLock

One process. State: `pc` of each call of `withChainLock`; `prev`, whose promise it awaits;
`chainLock`, the end of the queue; `frozen`, the fence (`auditChainFence.js`); `stale`, the calls
whose captured `chainGeneration` has passed (so the counter need not be a number); and whether the
tail in the process and the tail in Redis are trusted.

*Time.* The wait timer and the hold timer have the same duration
(`AUDIT_CHAIN_LOCK_TIMEOUT_MS`), so they fire in the order in which they were armed.
`armedBefore` is that order and all the model needs to know of time.

*Actions.* `Call` queues and arms; `WaitTimeout` is the wait timer's callback together with the
rejection that follows it; `Enter` and `TurnedAway` are the two results of `fence.check()`;
`AcquireLock` and `AcquireTimeout` of `acquireLockBlocking`; `LoadTail` is `getChainTail` inside
`fn`; `Return`, `Leave` are the `finally`; `HoldTimeout` turns `fn` into a zombie;
`ZombieSettles`, `Unfreeze` are `waitForZombie`. Redis may come and go between any two questions
(`RedisReady`).

### AuditChain

Two kinds of callers without Redis: `auditBuffer.flush`, which inserts its batch inside the section,
and `AuditLog.create`, whose `pre('save')` hook takes a hash inside the section and inserts the
record after leaving it. A record is a number in the order of the `_id`s. A hash stands for what it
was computed from, the sequence of records up to its own: `computeHash(prevHash, payload)` is
`Append(prevHash, record)`. Two hashes are equal exactly when they cover the same history, which
is what the chain assumes of SHA-256.

`FlushStored` and `FlushFails` are the ends of an insertion: stored, refused, stored in part (the
error tells which), cut off by the connection (a prefix is stored and nothing is told), duplicates
included. `CreateLeaves`, `CreateStored`, `CreateFails` (with `rollbackChainTail`) are the steps of
a create; `Crash` ends the process with insertions in flight, and the write-ahead log brings back
any of the records that were not trimmed.

`kinds` is history: the kinds of faults there have been, and whether there was a create. The chain
is `Undisturbed` as long as nothing has gone wrong, or there were only flushes, which met timeouts
and insertions refused as a whole. Outside of that the code does not keep the chain whole
(section 4).

The refinement mapping is `Ledger`, the longest hash of the database, which stands for the whole
history, with `Undisturbed` as the condition of the promise: `ImplementsLedger` says that under it
the ledger only grows at its end and by new records.

### AuditBuffer

One process over crashes and restarts. Memory: `buffer`, `flight`, `zombie`, `strikes`; `inside`
(the flush has passed the fence), `frozen` (the fence) and `awaited` (an abandoned `fn` that will open
it); `walChain`, the file operations that have been asked for and wait for each other; files: `wal`,
`openEnd` (the last line when its newline is missing), `discarded` (the archive); the database `db`.
History: `acked` (what callers were told), `judged` (records given up for their content), `faults`.

*Actions.* `Push`; `FlushBegin` with the question `isChainFrozen` and `precastBatch`; `FlushEnters`
and `FlushTurnedAway`, the two results of `fence.check()`; `FlushDone`, `FlushBroken` (failed
connection or distributed lock, with or without knowledge of what landed), `FlushAbandoned` (hold
timer) and `ZombieEnds`; `WaitTimeout`, the wait timer of a flush or a create, `CreateAbandoned`, the
hold timer of a create, and `FenceOpens` (`waitForZombie`); `CreateStored`, `CreateFails`,
`SpoolReturns` of the outbox; one action per file operation (`WalAppend`, `WalAppendDurable`, `WalCap`, `WalTrim`, `WalDiscard`, `WalReplay`), each of
which may fail; `Start`, `StopBegins`, `DrainEnds`, `Stop`, `Die`.

Order within the buffer is left out: a batch, and what an overflow drops, may be any subset of the
right size. The queue of `withChainLock` is left out too: a wait timer may fire at any time, and a
create may be found abandoned whenever no flush is inside and no other `fn` is abandoned. Both admit
more behaviours than the code has. What the queue does is left to `AuditChainLock`, what the hash chain
does to `AuditChain`.

### Sessions

One user, as the database has it. A *pair* is an access and a refresh token signed together; both
carry `sid` and `tokenVersion`. `pair`, `refresh` and `barred` say what was signed and what became of
it in the blacklist; `request` is how far each request is. The fields `line` and `login` of a pair
(the session and the version its login goes back to) are history. Anyone may present any token at
any time. Every database call may fail, with or without effect.

*Actions.* Login is `Login`, `CreateSession`, `FindExcess`, `RevokeExcess`, `Sign`; rotation is
`Refresh`, `Claim` (the unique index decides), `Validate`, `Sign`, and for a replay
`InvalidateUserTokens`, `RevokeAllSessions`; logout is `Logout`, `BarAccess`, `BarRefresh`,
`LogoutBarred`, `LeaveSession`; `Terminate` is `revokeSession` or `revokeOtherSessions`. Tokens and
sessions never expire: expiry only takes behaviours away.

### UserAuthCache

One user in one instance. `entry` is the `CacheEntry` with its four fields (0 stands for an
`invalidatedAt` of null), `load` the queries under way, `doc` the version in the database, `pending`
the invalidations on their way, `told` the highest that has arrived. The clock is `Date.now()`, and
several steps may fall into one millisecond. `Find` takes `findById` with its populated roles as one
read. `raced` records which of three races has happened: a faster query clears a mark that a slower
one needs, a mark falls into the millisecond of the load, an entry is dropped with a mark that is
needed.

### Idempotency

One key, any number of processes. `Arrive`, `Claim` (unique index on `keyHash`), `Read`
(`classifyExisting`), `TakeOver` (the conditional updates of `takeOverExpired` and `takeOverStale`),
`Reread`, then `Succeed`, `Settle` or `Fail` (`captureOutcome`), `Abandon` (the process dies, the
last write fails), `Remove` (TTL index, at any time after the expiry). `ClaimFails` and `ReadFails`
are the degraded paths that let a request through. `owner` of the record is history: the code does
not store it. `causes` records what the guarantees make an exception for: a takeover after a lease, a
failing database ("degraded"), a record that vanished between two looks ("vanished"), a settlement by
somebody who no longer holds the key ("late"). After one of the last three nothing is promised, and
further causes are not recorded. A handler that fails is taken to have had no effect.

### WorkOrders

Alarms and inspection plans with what they refer to. A request is the sequence of its database
calls: the look-up (`ReportAlarm`, `Dispatch`, `Plan`, `Reassign`, `ChangeDevices`, `Start`,
`Complete`), the conditional write (`...Writes`), and, where devices were named, the second look
(`Recheck`, `Strip`). Operations that are one conditional update are one action (`Arrive`, `Resolve`,
`FalseAlarm`, `CancelAlarm`, `Review`, `CancelInspection`, `DeleteInspection`, `MarkOverdue`).
Whoever goes (`Disable...`, `Anonymise...`) has the assignments released, and a deleted device
(`DeleteDevice`, ...) the references cleared. On a replica set the last two are transactions:
`claims` are the documents that matched at their beginning, which others cannot write until the
commit, while a document written meanwhile escapes it. On a standalone server they are separate
writes, any of which may be the last. `overlap` and `cut` are history and name the two excuses of
the properties. `WorkOrdersAssumption` keeps the identifiers of users apart from those of documents
(MongoDB's are unique), because `cut` holds both.

### Grants

The grants of one user and the caches of processes. `Approve`, `ApproveWrites`, `Activate` are the
three calls of an approval; `Reject`, `RejectWrites`, `Revoke`, `ExpireDue` and `Unassign` (a role is
taken away) may come between any two. `Invalidate` empties the cache of the process the request is
served by and sends the message; `Deliver`, `Lose`, `Disconnect`, `Reconnect` are Redis. A query
reads the generation, the roles and the grants in three steps (`QueryBegins`, `QueryReadsRoles`,
`QueryReadsGrants`) and keeps its result in a fourth. `EffectiveTTL` is shorter while the process
knows that it hears nothing; `GrantBound` cuts an entry at the end of a grant. `advanced` stands for
the comparison of two generations, `endedAt`, `uninformed` and `stalled` are history.

### SecondFactor

One account. A request reads (`Begin`), asks for the lock (`IsMfaLocked`, with `LazyReset`), checks a
code against what it read (`Verify`), and claims the window (`ClaimTotpWindow`) or writes
(`Enable`, `Disable`, `DisableWithRecoveryCode`, `LoginWithRecoveryCode`, `Regenerate`); a failure is
counted (`RecordMfaFailure`) and may set the lock (`SetLock`). A code of the authenticator stands for
one window of one secret, and is accepted one window early or late. `uses`, `proved`, `origin`,
`fails`, `unlocked` are history.

### LiveSockets

The sessions of one user as one process sees them. Each action is what the process does between two
awaits. `Revoke` and `RevokeEnds` are a revocation here, `RevokeElsewhere` and `Hear` one elsewhere.
`Asks`, `ReadSession` and `Keeps` are `validateSession`, called by a handshake, by a room being
joined or by an HTTP request (`Http` stands for all of these). `Connect`, `ReadUser`, `UserAnswers`,
`SessionAnswers`, `Binds` are the handshake, `JoinRoom` and `Joins` the room, `SweepBegins` to
`SweepApplies` the periodic sweep; `CallFails` and `SweepFails` a database that is away. An entry of
the cache may grow old at any time.

### ForensicManifest

Several processes of one host (`cluster.js` forks workers that share the files). A flush stores its
batch (`Stored`, `InsertFails`), then lists it: first the batches whose line failed earlier, then its
own, each under the lock file. Every system call on the lock file is a step (`TryCreate`, `Stat`,
`TakeOver`, `Release`), and so are reading the last line and writing the next (`ReadLast`,
`Appended`, `AppendFails`, which may leave any part of the line). `Crash` and `Start` replace a
process, which reads back the log of all of them. A line stands for its `chainHash`, and that for the
batches it covers. `tail` is what the end of the file looks like: a line without its newline, or a
part of one, spoils the next. Trimming and appending the log are taken as done at once, or failed.
`unlisted`, `relisted` and `breach` are history.

## 3 Runs

Run `tlc -config X.cfg MCmodule` in this directory.

| Run (cfg) | Instance | Distinct states | Shows |
|---|---|---|---|
| `ChainLock` | 5 calls, Redis configured | 23,963 (symmetry not used: liveness) | `OneInside`, `ZombieFenced`, `FenceOpensOnFreshTail`, `EveryCallIsAnswered` |
| `ChainLockFreeze` | 3 calls, no Redis | | `FreezeIsLifted` is **violated** (section 4) |
| `Chain` | 3 flushes, 2 creates, 4 records in batches of 2, 3 faults of every kind, the crash included | 2,543,525 | `ChainIsWhole`, `StoredOnce`, `ImplementsLedger` |
| `Buffer` | a sensitive, a refused and a malformed record; all limits 2; 3 faults: connection, hold timer, wait timer, file operations, crash, shutdown | 582,487 | the five safety properties of `AuditBuffer` and `AckedIsStored` |
| `Sessions` | 2 requests, 2 sessions, 2 pairs, cap 1, 1 revocation of everything | 1,087,583 | the four properties of `Sessions` |
| `UserCache` | 2 queries, 2 changes (the second deletes the user), entries and queries of 2 ms, 6 ms | 580,332 | `StaleEndsInTime`, `StaleNeedsARace` |
| `Idempotency` | 3 requests, 2 payloads, lease 1, retention 2, time 3 | 955,207 | `OneEffect`, `LeaseIsExclusive`, `ReplayMatches`, `ConclusionStays` |
| `WorkOrders` | 2 users, a device, an alarm, a plan, 2 requests, both topologies, 1 clean-up cut short | 1,936,819 | `DanglingNeedsOverlap`, `StuckNeedsOverlap`, `ClosedIsFinal` |
| `Grants` | 1 grant, 3 administrators, 2 requests, 1 process and the others, entries of 2 and 1, time 3 | 2,232,868 | `ActiveWasApproved`, `ApprovedIsActivated`, `RevokedIsForgotten`, `StaleAllowEnds` |
| `SecondFactor` | 2 requests, 2 secrets, 2 sets of recovery codes, limit 2, lock of 1 window, 1 failing write | 3,029,642 | `UsedOnce`, `EnabledWasProved`, `FailuresLock`, `DisabledByItsFactor` |
| `LiveSockets` | 1 session, 1 connection, HTTP requests | 103,699 (liveness) | `RevokedIsRefused`, `ConnectionsAreKept`, `UnfitSocketsClose`, `RoomNeedsRole` |
| `Manifest` | 3 processes, 3 records, a queue of 1, 3 faults | 2,223,454 | `ForksNeedABreach`, `ManifestAccounts` |

The type invariant of each module (`TypeOK`, `ChainTypeOK`, ...) is not a property of these runs. It
holds in the same instances when added to them, and where there are proofs it is, or follows from,
the first theorem.

Properties in words:

- *Lock.* `OneInside`: one `fn` at most, zombies counted. The queue does not give this by itself:
  a call that gives up waiting releases its successors while the writer before it still runs.
  `ZombieFenced`: while a zombie is about, the fence is closed and its generation has passed.
  `FenceOpensOnFreshTail`: the fence opens only on a tail that was thrown away, with nobody inside.
  `EveryCallIsAnswered`: also when `fn` hangs for ever.
- *Chain.* `ChainIsWhole`: while the chain is undisturbed no two records have one parent (`NoFork`),
  and the parent of each is stored or on its way (`NoPhantom`). `StoredOnce`: under any faults.
  `ImplementsLedger`.
- *Buffer.* `NothingForgotten`, `OnlyBadRecordsJudged`, `AckedSurvives`, `ReportIsTrue`
  (`flushAndStop` reports success only if all it took is stored), `CleanStop` (after that no line of
  a stored record is left to be replayed), `AckedIsStored` (also when flushes are turned away or
  abandoned, over crashes and restarts; not when a wait timer has frozen the chain, section 4, 1, until
  another start or an abandoned `fn` opens the fence, and from then on again).
- *Sessions.* `NoParallelLines`, `RevocationIsFinal` (a login that read the user before a revocation
  of everything and signs after it gets a pair that does not work), `GoneStaysGone`, `CapHolds`.
- *User cache.* `StaleNeedsARace`: after an invalidation has arrived an old user is served only if
  one of the three races has happened. `StaleEndsInTime`: whatever is lost, no longer than
  `USER_CACHE_TTL` and one query.
- *Idempotency.* `OneEffect`, `LeaseIsExclusive`, `ReplayMatches`, `ConclusionStays`.
- *Work orders.* `DanglingNeedsOverlap`: a reference to a deleted device is about to be looked up
  again, or its request failed first, or it was written while the deletion was under way.
  `StuckNeedsOverlap`: the same of work assigned to a user out of service. Both overlaps are
  reachable (section 4). `ClosedIsFinal`: no late request, scheduler or release changes what is closed.
- *Grants.* `ActiveWasApproved`; `ApprovedIsActivated` (two last approvals that cross do not leave the
  grant pending); `RevokedIsForgotten` (a cache allows what was taken away only where the invalidation
  has not arrived, whatever query was under way); `StaleAllowEnds` (and nowhere for long).
- *Second factor.* `UsedOnce`, `EnabledWasProved`, `DisabledByItsFactor` (not by a code of a secret
  that was replaced while it was being checked), `FailuresLock` (a failure is forgotten only by a
  success or by the reset of the lock it came before).
- *Live sockets.* `RevokedIsRefused`, `ConnectionsAreKept`, `UnfitSocketsClose` (a connection with a
  session that is over, revoked anywhere, or of a disabled user is closed at last, and no handshake
  under way brings one back), `RoomNeedsRole`.
- *Manifest.* `ForksNeedABreach`: lines follow each other unless somebody got past the lock in one of
  two named ways. `ManifestAccounts`: a stored record is listed, once, unless the code gave its line up.

Why the bounds are enough. The lock: the shortest violation of exclusion without the fence needs a
writer, a call that gives up behind it and a third behind that one; five calls leave two more for a
second round. Chain: a fork needs two batches over the same tail; a third flush, a second create and
two further records let one be retried. Four records in batches of two give batches that overlap after a
partial insertion. Buffer: one record of each sort, since records interact only through limits, and
two records already reach every limit; three faults allow a fault, a
wait timer among them, during the recovery from another. Sessions: two requests are a race, and
two pairs the smallest line that can split; the cap of 1 is reached with two sessions. A third pair
is not needed to violate any of the properties, as their mutants show, and the theorems have no such
bounds. Cache: two queries around an invalidation are what the mark is for; 6 ms let an entry expire and another follow.
Idempotency: claim, takeover and a third who meets either; the clock passes a lease twice and a
retention once. Work orders: a race has two sides, and a document is only disturbed through what it
refers to, so one of each kind and two requests give every pair of operations. Grants: a grant needs
two approvals besides its requester, hence three administrators; two requests cross; a second process
would only repeat the first, since caches meet only through messages, which may be lost. Second
factor: two requests with an old and a new secret, and two windows beside the one at the start, so
that a lock runs out. Live sockets: connections and sessions affect each other only through the
common generation, which the HTTP requests of the model advance past as well, and through the
counters, about which there are theorems for any number of connections. Manifest: two processes
race for the lock and the third leaves it behind; a queue of one batch overflows.
`CHECK_DEADLOCK FALSE` stands where a bounded instance runs out of records,
pairs or time; `AuditChainLock` is checked for deadlock.

Fairness. `AuditChainLock`: timers fire, released callers go on, the fence is asked, Redis requests
end (`acquireLockBlocking` and its client have time limits), and the awaited deletion of the shared
tail ends. Nothing is promised of `fn`, which is the point of `EveryCallIsAnswered`; only
`FairFnSpec`, used where a violation is shown, also lets every `fn` end, so that it cannot be blamed.
`AuditBuffer`: the flush timer runs, a flush that waits for the section is let in or turned away (who
is before it has a hold timer), insertions and abandoned `fn`s end (the driver has a socket timeout),
the fence opens behind an abandoned `fn` that has ended, file operations end, and a process that has ended is started again by its
supervisor. A create that fails, a crash or a shutdown is never required to happen, and faults are
bounded by `MaxFaults`: with a database that is away for ever nothing can be stored. After a failed
file operation a record may have to wait for another start, and so it may after a wait timer has
closed the fence: nobody in the process has to open it, and nobody has to start the process again. Hence
the two exceptions in `AckedIsStored`. The second, `FrozenForGood`, is about the present state, and an
acknowledged record stays acknowledged: once the fence has opened, or the process has been started
again, the promise holds again.
`LiveSockets`: handlers end, answers arrive, entries grow old and the timer of the sweep runs (weak
fairness); the two reads of the sweep succeed at last if they are tried again and again (strong
fairness: a read may fail, and the next sweep repeats it), since with a database that never answers
nobody can know that a session was revoked. Nothing is assumed of messages between processes.

## 4 Where the code and its comments disagree

The first is shown by a run. For the others a definition of the module says what the comment says,
and TLC finds it violated with the constants given here (as an INVARIANT or PROPERTY of the module's
`MC` module, with its other constants as in the run).

1. **A freeze that nobody lifts** (`ChainLockFreeze`, `utils/auditChain.js:192`). The wait timer
   closes the fence, and only the `fn` abandoned by its *own* hold timer opens it. After a long
   queue the writer in front may return in time: then no zombie is behind the freeze, and every later
   audit write is turned away until the process restarts. For the buffer it means that no flush starts
   (`auditBuffer.js:300`): an acknowledged record may never reach the database, although the outbox
   says that the buffer stores it once MongoDB is back (`auditOutbox.js:22-23`). `AckedIsStored`
   without `FrozenForGood` is violated in the instance of `Buffer` by one wait timeout.
2. **A fork by a create** (`models/auditLogHooks.js:85`; against `utils/auditChain.js:163` and
   `auditChainFence.js:11`). `pre('save')` moves the tail and leaves; the insertion follows. A
   zombie's resynchronisation reads the tail from the database in between, and the next batch gets
   the same parent. `NoFork` of `AuditChain`: `Calls = {f1, k1}`, `Creates = {k1}`,
   `MaxRecords = 3`, `MaxFaults = 2`, `FaultKinds = {"timeout", "reject"}`.
3. **A torn line swallows a durable one** (`services/auditBufferWal.js:464`; against
   `auditOutbox.js:24`). An append that is cut off leaves a part of a line; the next durable line is
   glued to it, its caller is told of success, and after a crash neither can be parsed.
   `AckedSurvives` of `AuditBuffer`: `Records = {a1, s1}`, `Sensitive = {s1}`,
   `Malformed = Refused = {}`, `HardLimit = 3`, `WalLimit = 9`, `MaxFaults = 3`,
   `FaultKinds = {"infra", "torn", "crash"}`.
4. **An invalidation that is overwritten** (`middleware/auth.js:102`; against lines 69-70 and
   `userAuthCache.js:50`). A query that begins after an invalidation clears the mark; a slower one
   that began before it then caches the old user. `InvalidationSticks` of `UserAuthCache`:
   `MaxVersion = 1`, `Gone = 3`.
5. **A first start that moves** (`services/InspectionService.js:278`; the comment at 269-277 says
   that the time of the first start is written once). The time is taken from a document read earlier:
   a plan that was started by another, marked overdue and started again loses its first time.
   `FirstStartStays` of `WorkOrders`: `MaxStarts = 2`.
6. **A manifest that forks without any fault** (`services/forensicManifestLock.js:41`). A waiter that
   finds the lock file gone (its holder has just released it) goes on *as the holder*, without having
   created one; the comment says it may try again ("直接当作可以重新抢"), and the head of the file that
   the chain cannot fork across processes. Another process creates the file, both read the same last
   line, and `verifyManifest` reports `chain_broken` on honest data. `Unbroken` of
   `ForensicManifest`: 2 processes, `MaxFaults = 0`.

Further observations, without a run of their own:

- An unordered `insertMany` that stores a part of a batch leaves records over a parent that is not
  stored (`FaultKinds = {"partial"}` violates `NoPhantom` at once); so does the replay of a record
  whose successors were stored before the crash. A create that fails after another record has been
  chained to it forks the chain: `rollbackChainTail` also goes back when the tail has been
  invalidated. This is why `Undisturbed` has, with faults, timeouts and refusals of flushes only.
- When the cap archives lines and the rewriting of the log fails, ordinary lines count as archived
  and are not replayed, although nobody has judged them (`auditBufferWal.js:280`). They are still in
  memory, so only a crash loses them; they were not acknowledged.
- `revokeSessionSafe` swallows its failure. The comment before it says that the logout does not
  depend on it, because cookie and tokens are barred; a rotation that had claimed the token *before*
  the logout then keeps a session that works (`controllers/authController/session.js:136-153`).
  `GoneStaysGone` makes this exception by name.
- Idempotency: a request that runs into a claim, which is then released by a failure, runs as a first
  one *without* a record (`idempotency.js:293`); a third one can claim the key meanwhile, and both
  take effect. Its outcome is written into the third one's record, whatever payload that has.
  A holder that has been overtaken settles or deletes its successor's record, because the filter is
  the `keyHash` alone (lines 102, 106). When a takeover fails, the log says the request is let through
  as a first one (lines 251, 279), but it is answered with 409. The causes "vanished", "late" and
  "degraded" are these.
- Work orders: the second look at a device is said to close the window (`alarmController.js:263-266`
  "窗口才真正闭合", `inspectionController.js:17-24` "两侧合起来才覆盖整个窗口"). It does not when the
  deletion is a transaction that has looked for references before the write and commits after the
  second look; and a user who leaves between the check and the assignment keeps the work, since the
  release has already run (`AlarmService.js:258`). These are the exceptions `overlap` names, and TLC
  reaches both.
- Manifest: `appendBatch` writes the batch of the flush even when `drain` stopped at one that failed,
  although the comments want earlier batches first (`forensicManifest.js:135`,
  `forensicManifestRetry.js:1`). The chain stays whole, because each line is computed under the lock,
  but the line written late carries the time of its batch, and `verifyManifest` takes it for a clock
  that was turned back. A second taker of a stale lock removes the fresh one of the first
  (`forensicManifestLock.js:45`), and a holder removes the lock file whoever owns it (line 86). A batch
  of which a part is stored, or which is replayed after a crash, is never listed
  (`forensicCaptureFlush.js:41`), and its lines stay in the log. A line that was cut off blocks the
  manifest of that day, and the batch at the head of the queue then blocks those behind it.
- While the fence is closed, `flush` returns at once, and the loop of `flushAndStop` uses up its
  budget without waiting for anything.

## 5 Proofs

`tlapm M.tla` checks all obligations of the eight proof modules (13,375 in all). The theorems hold
for any sets of calls, records, requests, sessions, pairs, queries, grants, administrators, processes,
secrets, connections, users, devices, alarms and plans, and for any limits that satisfy the named
assumptions; nothing else is assumed of the environment than what the next-state relations say.
Every invariant and every action property of a passing run is proved, the refinement of
`AuditLedger` included.

**AuditChainProofs**, from `LockAssumption` and `ChainAssumption`.
*The lock* (`TypeCorrect`, `MutualExclusion`, `ZombiesAreFenced`, `FenceOpens`). `OneInside` is not
inductive: a call that gave up waiting releases its successor while a writer is inside. `LockInv` adds
the two facts that make this harmless. The waiting calls form *one line* in the order of their timers
(`Line`, `Total`, `LastInLine`), so that only the first in line can give up, and the fence closes as it
does. And while the fence is open and somebody is inside, everyone in line still waits for somebody
(`WayIsBarred`). The action property needs `SettledTail` as well: between the end of a zombie and the
opening of the fence nobody loads the tail.
*The chain* (`ChainInvariant`, `ChainTypesCorrect`, `ChainIsExclusive`, `RecordsAreStoredOnce`,
`ChainStaysWhole`, `ChainImplementsLedger`). Every step of a writer is a step of the lock or leaves it
alone, so `LockInv` holds of the composition, and with it the exclusion. `Base` has what holds
whatever goes wrong: how far an `fn` is fits where its call is (`CallInv`), and a record waits in one
place, so that none is stored twice (`RecordInv`). While the chain is undisturbed there is one
sequence `T` (`Whole(T)`) such that the hashes stored, and those a create is about to store, are exactly
the prefixes of `T`, a tail that is trusted is `T`, and whoever has chained a batch has chained it to
`T`; `RegimeInv` says which kinds of disturbance the absence of a fault, or of a create, excludes. That
there is neither a fork nor a gap then follows from what prefixes are, and the step simulation of
`AuditLedger` from the fact that a step only makes the stored part of `T` longer.

**AuditBufferProofs** (`QueueInvariant`, `LinesAreKept`, `AckedRecordsSurvive`, `NothingIsForgotten`,
`GoodRecordsStay`, `ReportsAreTrue`, `StopsAreClean`), from `BufferAssumption`. A file operation is
carried out long after it was asked for; `QueueInv` says it stays harmless: what is to be trimmed is
stored, what is to be discarded was judged, and neither becomes untrue. `MemoryInv` follows the records
in memory, `PromiseInv` the way from the written line to the acknowledgement. `LinesAreKept` and
`AckedRecordsSurvive` assume that no write is cut off (`"torn" \notin FaultKinds`), without which
they do not hold (section 4, 3). `StopsAreClean` looks at the queue from the other side: as long as no
file operation has failed, a record that was taken is still in the buffer or in a flush, or its line
has gone or has its trim ahead of it in the queue, behind every operation that would write it; for the
records a shutdown has reported, among the operations it still waits for (`LeavesInv`).

**SessionsProofs** (`SessionsTyped`, `LinesStaySingle`, `RevocationHolds`, `GoneHoldsForDevices`,
`CapIsKept`), from `SessionsAssumption`. `LineInv`: a session has either one unused refresh token or
one request about to sign the next pair, never two of either or one of each. `VersionInv`: a pair
carries the version its login had read, through every rotation. `SidInv`: it keeps to the session of
its login. `GoneInv`: what was reported revoked is revoked. `CapHolds` says something only of the
moment when no login weighs sessions; `CapInv` says it of every moment, of the sessions that are
*settled*: those that no login has just created, or has found to be in excess, are never more than
the cap.

**IdempotencyProofs** (`AlwaysOneEffect`, `AlwaysLeaseIsExclusive`, `AlwaysReplayMatches`,
`AlwaysConclusionStays`), from `IdempotencyAssumption`. Exclusion cannot be had from the record
alone, which does not say who holds it. `HolderInv`: as long as nothing is spoilt, whoever runs or
settles is the owner of the record, or its lease has passed. `RecordInv` and `AnswerInv` tie the
stored answer to the payload of the request that stored it, `EffectInv` an effect to the retention
in which it happened, `RequestInv` what a request holds to how far it has come.

**GrantsProofs** (`GrantsTyped`, `AlwaysActiveWasApproved`, `AlwaysApprovedIsActivated`,
`CachesKnow`, `AlwaysRevokedIsForgotten`, `AlwaysStaleAllowEnds`), from `GrantsAssumption`.
`ApprovalInv`: approvals only grow, each by another person, and a status beyond pending was reached
from enough of them. `CacheInv` follows a permission through a query: what has been read was once
given, and if it was taken away since then the process is still to hear of it, could not, or the
generation has moved on, so that the query is not kept. `TimesInv` bounds entries by the times they
were read.

**SecondFactorProofs** (`SecondFactorTyped`, `AlwaysUsedOnce`, `FactorsBelong`,
`AlwaysEnabledWasProved`, `AlwaysDisabledByItsFactor`, `AlwaysFailuresLock`), from
`SecondFactorAssumption`. `SpentInv`: the watermark lies at or above every window that was accepted,
and a recovery code leaves the account as it is accepted. `FactorInv`: what the account holds belongs
to the secret in force. `AlwaysFailuresLock` needs `ResetInv`, which accounts for the failures that
come between the reading of an old lock and its lazy reset.

**StaleReadsProofs** has the theorems about the three modules in which something is read once and used
later. *The user cache* (`RacesAreAll`, `StalenessIsBounded`), from `UserAuthCacheAssumption`.
`MarkInv`: as long as no race has happened, whatever is older than the last invalidation is guarded by
a mark, an entry by its own, the answer of a query by the mark of the entry it would replace. `AgeInv`
bounds the expiry of an entry by the time its version was replaced.
*Sessions and connections* (`AlwaysRevokedIsRefused`, `AlwaysConnectionsAreKept`), from
`LiveSocketsAssumption`. `FindingsHold`: a query that has found a usable session which is revoked by
now is overtaken by a generation, or the revocation is still to empty the entry. `Types` counts slots
by the connections that hold one.
*Work orders* (`OrdersInvariant`, `ClosedStaysClosed`, `RemovalsDealWithAll`,
`DanglingReferencesAreExplained`, `StuckAssignmentsAreExplained`), from `WorkOrdersAssumption`.
`OrdersInv` has what makes a late commit safe: the documents a transaction is going to release are
open, and stay so because nobody else writes them. `RemovalInv` says of every removal, at each of its
steps, that a reference to what it removes is among the documents it has claimed, or in a collection
it has not come to yet, or was written while it was under way; for the plans, cleared in two steps,
this needs that a plan has findings only when it is completed, so that no device gets both on its list
and in its findings. When the removal ends only the last case is left. The proof asked for the
assumption that no user has the identifier of a document.

**ForensicManifestProofs** (`ManifestInvariant`, `ManifestTyped`, `AlwaysForksNeedABreach`,
`OneWriterWithoutBreach`, `AlwaysManifestAccounts`, `AlwaysListedIsStored`), from
`ManifestAssumption`. As long as nobody got past the lock file, who is under the lock owns it
(`OwnersHold`), so that the last line a writer has read is still the last when it writes
(`WritersAreCurrent`): the chain of lines breaks only after a breach. The account of records does not
depend on the lock: the lists of what is still to be listed share no record (`ListsAreApart`), what is
owed has no line yet (`OwedIsNew`), and a line that can still be spoilt is owed or given up
(`OpenIsOwed`).

Only model-checked: `EveryCallIsAnswered`, `AckedIsStored`, `UnfitSocketsClose`, `RoomNeedsRole`.
They are liveness under fairness, which, with ENABLED, is out of reach of TLAPS; so is induction over
data, which no theorem here needs. No module uses a RECURSIVE operator, so that none is closed to
proofs.

## 6 What is not modelled

- *Cryptography and formats.* Signatures, key rotation, encryption of personal data, hashing: pure
  functions, taken to be injective where the models rely on it.
- *Two instances on one chain.* `AuditChainLock` has the distributed lock from its caller's side
  (it may be refused, or Redis may be away between any two steps). The tail shared over Redis between
  instances, and a lock whose TTL runs out, are not in `AuditChain`.
- *Readers of the audit trail* (verification, checkpoints, queries, exports, monitors): they change
  nothing that the models speak of.
- *Content-driven decisions* (alerts, behaviour baselines, attack profiles, statistics, reports): no
  order of events matters.
- *Single-document operations* of users, roles, devices and so on, which MongoDB makes atomic, as far
  as they do not meet each other.
- *Front end, scripts, deployment, migrations*: in the models clients send anything in any order.
- *Parts of modelled components.* Sessions: expiry, queries, the lock of the account after wrong
  passwords. Second factor: reauthentication tickets, which are consumed in the shared cache. Live
  sockets: the delivery of notifications, which is best effort, the sweep of banned addresses, the
  adapter between processes. Work orders: data scopes, texts, statistics, notifications.
  Forensic capture: sampling and quotas, validation, the limits of buffer and log, the change of day,
  anchors, archiving and reconciliation, which read what the model writes; that one process rewriting
  the log can lose a line another has just appended is covered by the failure to append one.
- *Shared cache and distributed locks*: the memory store acquires, renews and releases in one step of
  the event loop, the Redis store in one script; `AuditChainLock` has their callers' side.
- *Rate limits, bans, captcha, login challenge*: window counters. Two escalations that count the same
  earlier bans choose the same tier (`services/rateLimitEscalationBan.js:89`), known from reading and
  not covered.
- *Upgrade requests*: a lock file and request files read by an agent that is not in the repository.
- *Size.* Most of the code is views, queries, validation, formatting, translations and the generation
  of documents, where the order of events does not matter and there is no state to model.

## 7 Plan

Done, in the order of importance:

1. `AuditChainLock` and `AuditChain` over it, with `AuditLedger` as what it promises; proofs of the
   exclusion, of the whole chain and of the refinement.
2. `AuditBuffer` with proofs: what was acknowledged survives, a clean shutdown replays nothing.
3. `Sessions` with proofs; `UserAuthCache` with proofs.
4. `Idempotency` with proofs.
5. The caches guarded by a generation: permissions in `Grants`, sessions in `LiveSockets`, both with
   proofs; approvals in `Grants`; `SecondFactor` with proofs.
6. `WorkOrders`: alarms, inspections, devices and users as one composition, with proofs.
7. `ForensicManifest`: the lock file, the queue and the log of several processes, with proofs.

Worth doing next:

8. Abstract specifications that more components implement: the records that `AuditBuffer` has
   acknowledged as a log that forgets nothing, the key of `Idempotency` as a register that is written
   once per retention; step simulations of them from the invariants there are.
9. The lock with token and TTL as the abstract lock `AuditChainLock` uses, and two instances on one
   chain; reauthentication tickets; the escalation of bans; expiry in `Sessions`.
