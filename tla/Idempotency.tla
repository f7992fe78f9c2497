----------------------------- MODULE Idempotency -----------------------------
(***************************************************************************)
(* The idempotency middleware, for one Idempotency-Key of one user and     *)
(* endpoint: the requests that carry the key, in any number of processes,  *)
(* and the IdempotencyRecord in MongoDB, whose keyHash is unique.          *)
(*                                                                         *)
(* Whoever inserts the record, or takes over one that has expired or that  *)
(* was in progress longer than a lease, lets the handler run and writes    *)
(* its outcome back; everybody else replays the outcome or is refused.     *)
(* When the database fails the request is let through.                     *)
(*                                                                         *)
(* A handler that fails has no effect; how long it takes nobody says.      *)
(***************************************************************************)
EXTENDS Naturals

CONSTANTS
    Requests,
    Payloads,   \* what fingerprintRequestBody tells apart
    Lease,      \* IN_PROGRESS_LEASE_MS
    Retention,  \* RETENTION_MS
    MaxTime,    \* bound: the clock
    None

\* An IdempotencyRecord.  expiresAt tells when it was claimed: Retention before.  owner
\* and the request an answer comes from are not stored; the properties speak of them.
RecordType ==
    [owner : Requests, requestHash : Payloads, state : {"in_progress", "completed"},
     answer : Requests \cup {None}, expiresAt : Nat]

ASSUME IdempotencyAssumption ==
    /\ Lease \in Nat \ {0} /\ Retention \in Nat /\ Lease < Retention
    /\ MaxTime \in Nat
    /\ None \notin Requests \cup Payloads /\ None \notin RecordType

VARIABLES
    now,        \* the clock
    record,     \* the IdempotencyRecord of the key, or None
    request,    \* each request: where it is and what it got
    causes      \* what has happened that the guarantees make an exception for

vars == <<now, record, request, causes>>

Record(owner, requestHash, state, answer, expiresAt) ==
    [owner |-> owner, requestHash |-> requestHash, state |-> state,
     answer |-> answer, expiresAt |-> expiresAt]

Request(step, payload, expiresAt, heldSince, effectAt, answer) ==
    [step |-> step, payload |-> payload, expiresAt |-> expiresAt,
     heldSince |-> heldSince, effectAt |-> effectAt, answer |-> answer]

Init ==
    /\ now = 1
    /\ record = None
    /\ request = [r \in Requests |-> Request("idle", None, 0, 0, 0, None)]
    /\ causes = {}

At(r, steps) == request[r].step \in steps

Goes(r, step) == request' = [request EXCEPT ![r].step = step]

\* The request holds the key from now on and the handler runs.
Holds(r) == request' = [request EXCEPT ![r].step = "run", ![r].heldSince = now]

\* After one of these nothing is promised any more, and further causes do not count.
Spoiling == {"degraded", "vanished", "late"}
Spoilt == causes \cap Spoiling # {}

Blame(kinds) == causes' = IF Spoilt THEN causes ELSE causes \cup kinds

-----------------------------------------------------------------------------
(* The middleware *)

Arrive(r, payload) ==
    /\ At(r, {"idle"})
    /\ request' = [request EXCEPT ![r] =
                     Request("claim", payload, now + Retention, 0, 0, None)]
    /\ UNCHANGED <<now, record, causes>>

Claimed(r) == Record(r, request[r].payload, "in_progress", None, request[r].expiresAt)

\* The unique index on keyHash decides who is first.
Claim(r) ==
    /\ At(r, {"claim"})
    /\ \/ record = None /\ record' = Claimed(r) /\ Holds(r)
       \/ record # None /\ record' = record /\ Goes(r, "read")
    /\ UNCHANGED <<now, causes>>

\* The index cannot be ensured, or the insertion fails, as far as the request can
\* tell: it is let through, and nobody will write its outcome back.
ClaimFails(r) ==
    /\ At(r, {"claim"})
    /\ \/ record' = record
       \/ record = None /\ record' = Claimed(r)
    /\ Goes(r, "through") /\ Blame({"degraded"})
    /\ UNCHANGED now

Expired == record.expiresAt <= now
Overdue == record.expiresAt <= now + Retention - Lease

\* classifyExisting
VerdictOnAnyPayload(payload) ==
    IF Expired THEN "expired"
    ELSE IF record.state = "completed" THEN "replay"
    ELSE IF Overdue THEN "stale" ELSE "in_progress"
Verdict(payload) ==
    IF Expired THEN "expired"
    ELSE IF record.requestHash # payload THEN "payload_mismatch"
    ELSE IF record.state = "completed" THEN "replay"
    ELSE IF Overdue THEN "stale" ELSE "in_progress"

Replayed(r) == request' = [request EXCEPT ![r].step = "end", ![r].answer = record.answer]

\* resolveConflict, as far as the first look at the record.  One that has vanished
\* meanwhile, released by a failure or removed by the TTL index, makes this request
\* a first one, without a record.
Read(r) ==
    /\ At(r, {"read"})
    /\ IF record = None THEN Holds(r) /\ Blame({"vanished"})
       ELSE LET verdict == Verdict(request[r].payload)
            IN  /\ CASE verdict = "replay" -> Replayed(r)
                     [] verdict \in {"expired", "stale"} -> Goes(r, verdict)
                     [] OTHER -> Goes(r, "end")
                /\ causes' = causes
    /\ UNCHANGED <<now, record>>

TakenOver(r) == Claimed(r)

OverdueInAnyState(kind) == IF kind = "stale" THEN Overdue ELSE Expired
InProgressHoweverLong(kind) == IF kind = "stale" THEN record.state = "in_progress" ELSE Expired
MayTakeOver(kind) ==
    IF kind = "stale" THEN record.state = "in_progress" /\ Overdue ELSE Expired

\* takeOverExpired and takeOverStale: one conditional update.  Whoever comes too
\* late, or gets an error although the update may have happened, looks again.
TakeOver(r) ==
    /\ At(r, {"expired", "stale"})
    /\ LET kind == request[r].step
           possible == record # None /\ MayTakeOver(kind)
       IN  \/ /\ possible
              /\ record' = TakenOver(r)
              /\ Holds(r)
              /\ Blame(IF kind = "stale" THEN {"takeover"} ELSE {})
           \/ /\ ~possible
              /\ Goes(r, "reread")
              /\ UNCHANGED <<record, causes>>
           \/ /\ record' \in {record} \cup IF possible THEN {TakenOver(r)} ELSE {}
              /\ Goes(r, "reread")
              /\ Blame({"degraded"})
    /\ UNCHANGED now

\* The second look, and the last.
Reread(r) ==
    /\ At(r, {"reread"})
    /\ IF record = None THEN Holds(r) /\ Blame({"vanished"})
       ELSE /\ IF Verdict(request[r].payload) = "replay" THEN Replayed(r) ELSE Goes(r, "end")
            /\ causes' = causes
    /\ UNCHANGED <<now, record>>

\* Either look fails: as if first.
ReadFails(r) ==
    /\ At(r, {"read", "reread"})
    /\ Holds(r) /\ Blame({"degraded"})
    /\ UNCHANGED <<now, record>>

-----------------------------------------------------------------------------
(* The handler, and captureOutcome *)

Succeed(r) ==
    /\ At(r, {"run", "through"})
    /\ request' = [request EXCEPT ![r].effectAt = now,
                                  ![r].step = IF @ = "run" THEN "settle" ELSE "end"]
    /\ UNCHANGED <<now, record, causes>>

ReleasedWhenTooLarge(r) == None
Concluded(r) == IF record = None THEN None
                ELSE [record EXCEPT !.state = "completed", !.answer = r]

\* The outcome goes to the record of the key, whoever has claimed that.  It counts
\* whether or not there is a body that can be replayed.
LateTo(r) == IF record # None /\ record.owner # r THEN {"late"} ELSE {}

Settle(r) ==
    /\ At(r, {"settle"})
    /\ record' = Concluded(r)
    /\ Goes(r, "end") /\ Blame(LateTo(r))
    /\ UNCHANGED now

\* A failure releases the key.
Fail(r) ==
    /\ At(r, {"run"})
    /\ record' = None
    /\ Goes(r, "end") /\ Blame(LateTo(r))
    /\ UNCHANGED now

\* The process dies, or the last write fails: nobody settles.
Abandon(r) ==
    /\ At(r, {"claim", "read", "expired", "stale", "reread", "run", "through", "settle"})
    /\ Goes(r, "end")
    /\ UNCHANGED <<now, record, causes>>

\* The TTL index removes the record, sooner or later.
Remove ==
    /\ record # None /\ Expired
    /\ record' = None
    /\ UNCHANGED <<now, request, causes>>

Tick ==
    /\ now < MaxTime
    /\ now' = now + 1
    /\ UNCHANGED <<record, request, causes>>

Next ==
    \/ \E r \in Requests :
          \/ \E payload \in Payloads : Arrive(r, payload)
          \/ Claim(r) \/ ClaimFails(r) \/ Read(r) \/ ReadFails(r)
          \/ TakeOver(r) \/ Reread(r)
          \/ Succeed(r) \/ Settle(r) \/ Fail(r) \/ Abandon(r)
    \/ Remove \/ Tick

Spec == Init /\ [][Next]_vars

-----------------------------------------------------------------------------
(* Properties *)

\* What each variable holds: above all, a record carries an answer exactly when it
\* is completed (a takeover resets the response it finds).
IdempotencyTypeOK ==
    /\ now \in 1 .. MaxTime
    /\ record # None =>
          /\ record.owner \in Requests /\ record.requestHash \in Payloads
          /\ record.state \in {"in_progress", "completed"}
          /\ record.answer \in Requests \cup {None}
          /\ record.state = "completed" <=> record.answer # None
          /\ record.expiresAt \in Retention .. now + Retention
    /\ \A r \in Requests :
          /\ request[r].step \in {"idle", "claim", "read", "expired", "stale", "reread",
                                  "run", "through", "settle", "end"}
          /\ request[r].payload \in Payloads \cup {None}
          /\ request[r].expiresAt \in 0 .. now + Retention
          /\ request[r].heldSince \in 0 .. now /\ request[r].effectAt \in 0 .. now
          /\ request[r].answer \in Requests \cup {None}
    /\ causes \subseteq Spoiling \cup {"takeover"}

\* The submission takes effect once: two requests whose retention has not run out
\* do not both succeed, unless the database failed, a lease ran out, a record
\* vanished between two looks or somebody settled late.
EffectsBefore(r, time) == request[r].effectAt \in 1 .. time - 1

OneEffect ==
    causes = {} =>
        \A r, s \in Requests :
           LET both == IF request[r].expiresAt < request[s].expiresAt
                       THEN request[r].expiresAt ELSE request[s].expiresAt
           IN  r # s => ~(EffectsBefore(r, both) /\ EffectsBefore(s, both))

\* takeOverStale, takeOverExpired: of those that find the same record overdue one
\* gets it.  Two requests only hold the key together when the later one took it a
\* lease after the other had arrived.
Holding(r) == At(r, {"run", "settle"}) /\ request[r].heldSince # 0

Outlasted(r, s) == request[s].heldSince + Retention >= request[r].expiresAt + Lease

LeaseIsExclusive ==
    ~Spoilt => \A r, s \in Requests :
                  r # s /\ Holding(r) /\ Holding(s) => Outlasted(r, s) \/ Outlasted(s, r)

\* classifyExisting: a replayed answer is the answer to the same payload, also after
\* takeovers.
ReplayMatches ==
    ~Spoilt => \A r \in Requests :
                  LET from == request[r].answer
                  IN  from # None => request[from].payload = request[r].payload

\* takeOverStale, captureOutcome: while its retention lasts, nobody takes away a
\* conclusion that has been recorded, however overdue the claim had looked before.
ConclusionStays ==
    [][ record # None /\ record.state = "completed" /\ ~Expired /\ ~Spoilt'
           => record' = record ]_vars
=============================================================================
