-------------------------- MODULE IdempotencyProofs --------------------------
(***************************************************************************)
(* Proofs about Idempotency: who holds the key, what is replayed, and      *)
(* that the submission takes effect once.                                  *)
(***************************************************************************)
EXTENDS Idempotency, TLAPS

-----------------------------------------------------------------------------
(* The invariant *)

Steps == {"idle", "claim", "read", "expired", "stale", "reread", "run", "through", "settle", "end"}
RequestType ==
    [step : Steps, payload : Payloads \cup {None}, expiresAt : Nat, heldSince : Nat,
     effectAt : Nat, answer : Requests \cup {None}]

Types ==
    /\ now \in Nat \ {0} /\ causes \subseteq Spoiling \cup {"takeover"}
    /\ record \in RecordType \cup {None} /\ request \in [Requests -> RequestType]

\* How far a request has come tells what it has got.
Before == {"idle", "claim", "read", "expired", "stale", "reread", "through"}
RequestInv ==
    \A r \in Requests :
        /\ request[r].step # "idle" => request[r].payload \in Payloads
        /\ request[r].step \in Before => request[r].heldSince = 0 /\ request[r].effectAt = 0
        /\ request[r].step # "end" => request[r].answer = None
        /\ request[r].step \in {"run", "settle"} => request[r].heldSince # 0
        /\ request[r].step = "run" => request[r].effectAt = 0
        /\ request[r].step = "through" => Spoilt
        /\ request[r].heldSince <= now /\ request[r].effectAt <= now
        /\ ~Spoilt /\ request[r].effectAt # 0 =>
               request[r].heldSince \in 1 .. request[r].effectAt

\* The record is that of its owner, which has ended when it is completed.
RecordInv ==
    record # None =>
        LET owner == request[record.owner]
        IN  /\ owner.step \in {"run", "settle", "end"}
            /\ record.requestHash = owner.payload /\ record.expiresAt = owner.expiresAt
            /\ record.state = "completed" => record.answer = record.owner /\ owner.step = "end"

\* A replayed answer is that of a request with the same payload, which has ended.
AnswerInv ==
    \A r \in Requests :
        request[r].answer # None =>
            /\ request[request[r].answer].step = "end"
            /\ request[request[r].answer].payload = request[r].payload

Owns(r) == record # None /\ record.owner = r

\* Who holds the key and has lost the record has arrived more than a lease ago.
HolderInv ==
    /\ \A r \in Requests :
           Holding(r) => Owns(r) \/ request[r].expiresAt + Lease <= now + Retention
    /\ \A r, s \in Requests :
           r # s /\ Holding(r) /\ Holding(s) => Outlasted(r, s) \/ Outlasted(s, r)

\* Who has had an effect, or may have one, keeps the record as long as it counts; so
\* whoever holds the key later does so when it no longer counts.
Active(r) == Holding(r) \/ request[r].effectAt # 0
EffectInv ==
    /\ \A r \in Requests : Active(r) => Owns(r) \/ request[r].expiresAt <= now
    /\ \A r, s \in Requests :
           r # s /\ Active(r) /\ Active(s) =>
               \/ request[s].heldSince >= request[r].expiresAt
               \/ request[r].heldSince >= request[s].expiresAt

Unspoilt == RecordInv /\ AnswerInv /\ HolderInv /\ (causes = {} => EffectInv)

-----------------------------------------------------------------------------
(* What becomes of one request *)

Others(r) == \A s \in Requests \ {r} : request'[s] = request[s]

LEMMA GoesMeans ==
    ASSUME Types, NEW r \in Requests, NEW step \in Steps, Goes(r, step)
    PROVE  /\ request' \in [Requests -> RequestType] /\ Others(r)
           /\ request'[r].step = step /\ request'[r].payload = request[r].payload
           /\ request'[r].expiresAt = request[r].expiresAt
           /\ request'[r].heldSince = request[r].heldSince
           /\ request'[r].effectAt = request[r].effectAt
           /\ request'[r].answer = request[r].answer
BY DEF Types, Goes, RequestType, Others

LEMMA HoldsMeans ==
    ASSUME Types, NEW r \in Requests, Holds(r)
    PROVE  /\ request' \in [Requests -> RequestType] /\ Others(r)
           /\ request'[r].step = "run" /\ request'[r].payload = request[r].payload
           /\ request'[r].expiresAt = request[r].expiresAt
           /\ request'[r].heldSince = now
           /\ request'[r].effectAt = request[r].effectAt
           /\ request'[r].answer = request[r].answer
BY DEF Types, Holds, RequestType, Others, Steps

LEMMA ReplayedMeans ==
    ASSUME Types, NEW r \in Requests, record # None, Replayed(r)
    PROVE  /\ request' \in [Requests -> RequestType] /\ Others(r)
           /\ request'[r].step = "end" /\ request'[r].payload = request[r].payload
           /\ request'[r].expiresAt = request[r].expiresAt
           /\ request'[r].heldSince = request[r].heldSince
           /\ request'[r].effectAt = request[r].effectAt
           /\ request'[r].answer = record.answer
BY DEF Types, Replayed, RequestType, RecordType, Others, Steps

LEMMA SucceedMeans ==
    ASSUME Types, NEW r \in Requests, Succeed(r)
    PROVE  /\ request' \in [Requests -> RequestType] /\ Others(r)
           /\ request'[r].step = IF request[r].step = "run" THEN "settle" ELSE "end"
           /\ request'[r].payload = request[r].payload
           /\ request'[r].expiresAt = request[r].expiresAt
           /\ request'[r].heldSince = request[r].heldSince
           /\ request'[r].effectAt = now
           /\ request'[r].answer = request[r].answer
BY DEF Types, Succeed, RequestType, Others, Steps

LEMMA ArriveMeans ==
    ASSUME Types, NEW r \in Requests, NEW payload \in Payloads, Arrive(r, payload)
    PROVE  /\ request' \in [Requests -> RequestType] /\ Others(r)
           /\ request'[r].step = "claim" /\ request'[r].payload = payload
           /\ request'[r].expiresAt = now + Retention
           /\ request'[r].heldSince = 0 /\ request'[r].effectAt = 0
           /\ request'[r].answer = None
BY IdempotencyAssumption DEF Types, Arrive, Request, RequestType, Others, Steps

\* Nothing is promised again after a spoiling cause; a cause that counts is kept.
LEMMA Blaming ==
    ASSUME Types, NEW kinds \in SUBSET (Spoiling \cup {"takeover"}),
           Blame(kinds) \/ causes' = causes
    PROVE  /\ causes' \subseteq Spoiling \cup {"takeover"}
           /\ Spoilt => (Spoilt' /\ causes' = causes)
           /\ Blame(kinds) /\ kinds \cap Spoiling # {} => Spoilt'
           /\ causes' = {} => causes = {}
           /\ Blame(kinds) /\ causes' = {} => kinds = {}
BY DEF Types, Blame, Spoilt

\* The record that a request claims, and the one that a request concludes.
LEMMA ClaimedIs ==
    ASSUME Types, RequestInv, NEW r \in Requests, request[r].step # "idle"
    PROVE  /\ Claimed(r) \in RecordType /\ Claimed(r) # None
           /\ Claimed(r).owner = r /\ Claimed(r).requestHash = request[r].payload
           /\ Claimed(r).expiresAt = request[r].expiresAt
           /\ Claimed(r).state = "in_progress" /\ TakenOver(r) = Claimed(r)
<1>1. request[r].payload \in Payloads /\ request[r].expiresAt \in Nat
  BY DEF Types, RequestInv, RequestType
<1>2. Claimed(r) \in RecordType
  BY <1>1 DEF Claimed, Record, RecordType
<1> QED BY <1>2, IdempotencyAssumption DEF Claimed, Record, TakenOver

LEMMA ConcludedIs ==
    ASSUME Types, NEW r \in Requests
    PROVE  /\ record = None => Concluded(r) = None
           /\ record # None => /\ Concluded(r) \in RecordType /\ Concluded(r) # None
                              /\ Concluded(r).owner = record.owner
                              /\ Concluded(r).requestHash = record.requestHash
                              /\ Concluded(r).expiresAt = record.expiresAt
                              /\ Concluded(r).answer = r
<1>1. CASE record # None
  <2>1. record \in RecordType
    BY <1>1 DEF Types
  <2>2. Concluded(r) = [record EXCEPT !.state = "completed", !.answer = r]
    BY <1>1 DEF Concluded
  <2>3. Concluded(r) \in RecordType
    BY <2>1, <2>2 DEF RecordType
  <2> QED BY <1>1, <2>1, <2>2, <2>3, IdempotencyAssumption DEF RecordType
<1> QED BY <1>1 DEF Concluded

-----------------------------------------------------------------------------
(* The types, and how far requests have come *)

\* What a step may do, whether or not something has spoilt the guarantees.
LEMMA TypesStay == Types /\ RequestInv /\ [Next]_vars => Types' /\ RequestInv'
<1> SUFFICES ASSUME Types, RequestInv, [Next]_vars PROVE Types' /\ RequestInv'
  OBVIOUS
<1> USE IdempotencyAssumption
<1>1. ASSUME NEW r \in Requests, request' \in [Requests -> RequestType], Others(r),
             now' = now, Spoilt => Spoilt',
             causes' \subseteq Spoiling \cup {"takeover"}, record' \in RecordType \cup {None},
             request'[r].step # "idle" => request'[r].payload \in Payloads,
             request'[r].step \in Before => request'[r].heldSince = 0 /\ request'[r].effectAt = 0,
             request'[r].step # "end" => request'[r].answer = None,
             request'[r].step \in {"run", "settle"} => request'[r].heldSince # 0,
             request'[r].step = "run" => request'[r].effectAt = 0,
             request'[r].step = "through" => Spoilt',
             request'[r].heldSince <= now /\ request'[r].effectAt <= now,
             ~Spoilt' /\ request'[r].effectAt # 0 =>
                 request'[r].heldSince \in 1 .. request'[r].effectAt
      PROVE  Types' /\ RequestInv'
  <2>1. Types'
    BY <1>1 DEF Types
  <2>2. ASSUME NEW s \in Requests, s # r
        PROVE  request'[s] = request[s] /\ (request[s].step = "through" => Spoilt')
    BY <1>1, <2>2 DEF Others, RequestInv
  <2>3. RequestInv'
    BY <1>1, <2>2 DEF RequestInv
  <2> QED BY <2>1, <2>3
<1>2. ASSUME NEW r \in Requests, NEW payload \in Payloads, Arrive(r, payload)
      PROVE  Types' /\ RequestInv'
  <2>1. UNCHANGED <<now, record, causes>>
    BY <1>2 DEF Arrive
  <2> QED BY <1>1, <1>2, <2>1, ArriveMeans DEF Types, Spoilt
<1>3. ASSUME NEW r \in Requests, NEW step \in Steps, Goes(r, step), now' = now,
             request[r].step # "idle", step \notin {"idle", "run", "settle"},
             request[r].step \in Before \/ step = "end",
             step = "through" => Spoilt', Spoilt => Spoilt',
             causes' \subseteq Spoiling \cup {"takeover"}, record' \in RecordType \cup {None}
      PROVE  Types' /\ RequestInv'
  <2>1. request[r] \in RequestType
    BY DEF Types
  <2>2. /\ request' \in [Requests -> RequestType] /\ Others(r)
        /\ request'[r].step = step /\ request'[r].payload = request[r].payload
        /\ request'[r].expiresAt = request[r].expiresAt
        /\ request'[r].heldSince = request[r].heldSince
        /\ request'[r].effectAt = request[r].effectAt
        /\ request'[r].answer = request[r].answer
    BY <1>3, GoesMeans
  <2>3. /\ request[r].payload \in Payloads
        /\ request[r].heldSince <= now /\ request[r].effectAt <= now
        /\ ~Spoilt /\ request[r].effectAt # 0 => request[r].heldSince \in 1 .. request[r].effectAt
        /\ step # "end" => /\ request[r].heldSince = 0 /\ request[r].effectAt = 0
                          /\ request[r].answer = None
    BY <1>3 DEF RequestInv, Before
  <2> QED BY <1>1, <1>3, <2>2, <2>3 DEF Before
<1>4. ASSUME NEW r \in Requests, Holds(r), now' = now,
             request[r].step \in Before \ {"idle"}, Spoilt => Spoilt',
             causes' \subseteq Spoiling \cup {"takeover"}, record' \in RecordType \cup {None}
      PROVE  Types' /\ RequestInv'
  <2>1. /\ request[r].payload \in Payloads /\ request[r].effectAt = 0 /\ request[r].answer = None
        /\ now \in Nat \ {0}
    BY <1>4 DEF RequestInv, Before, Types
  <2> QED BY <1>1, <1>4, <2>1, HoldsMeans DEF Before
<1>5. ASSUME NEW r \in Requests, Replayed(r), record # None, UNCHANGED <<now, record, causes>>,
             request[r].step # "idle"
      PROVE  Types' /\ RequestInv'
  <2>1. /\ request[r].payload \in Payloads
        /\ request[r].heldSince <= now /\ request[r].effectAt <= now
        /\ ~Spoilt /\ request[r].effectAt # 0 => request[r].heldSince \in 1 .. request[r].effectAt
    BY <1>5 DEF RequestInv
  <2>2. causes \subseteq Spoiling \cup {"takeover"} /\ record \in RecordType \cup {None}
    BY DEF Types
  <2> QED BY <1>1, <1>5, <2>1, <2>2, ReplayedMeans DEF Before, Spoilt
<1>6. ASSUME NEW r \in Requests, Claim(r) PROVE Types' /\ RequestInv'
  <2>1. request[r].step = "claim" /\ UNCHANGED <<now, causes>>
    BY <1>6 DEF Claim, At
  <2>2. Claimed(r) \in RecordType
    BY <2>1, ClaimedIs
  <2>3. /\ record' \in RecordType \cup {None} /\ (Holds(r) \/ Goes(r, "read"))
        /\ causes' \subseteq Spoiling \cup {"takeover"} /\ (Spoilt => Spoilt')
    BY <1>6, <2>1, <2>2 DEF Claim, Types, Spoilt
  <2>4. "read" \in Steps /\ request[r].step \in Before \ {"idle"}
    BY <2>1 DEF Steps, Before
  <2>5. CASE Holds(r)
    BY <1>4, <2>1, <2>3, <2>4, <2>5
  <2>6. CASE Goes(r, "read")
    BY <1>3, <2>1, <2>3, <2>4, <2>6
  <2> QED BY <2>3, <2>5, <2>6
<1>7. ASSUME NEW r \in Requests, ClaimFails(r) PROVE Types' /\ RequestInv'
  <2>1. /\ request[r].step = "claim" /\ now' = now /\ Blame({"degraded"})
        /\ Goes(r, "through") /\ record' \in {record, Claimed(r)}
    BY <1>7 DEF ClaimFails, At
  <2>2. /\ causes' \subseteq Spoiling \cup {"takeover"} /\ Spoilt'
    BY <2>1, Blaming DEF Spoiling
  <2>3. record' \in RecordType \cup {None}
    BY <2>1, ClaimedIs DEF Types
  <2> QED BY <1>3, <2>1, <2>2, <2>3 DEF Before, Steps
<1>8. ASSUME NEW r \in Requests, Read(r) \/ Reread(r) \/ ReadFails(r)
      PROVE  Types' /\ RequestInv'
  <2>1. request[r].step \in {"read", "reread"} /\ UNCHANGED <<now, record>>
    BY <1>8 DEF Read, Reread, ReadFails, At
  <2>2. /\ Blame({"vanished"}) \/ Blame({"degraded"}) \/ causes' = causes
        /\ \/ Holds(r) \/ \E step \in {"expired", "stale", "end"} : Goes(r, step)
           \/ Replayed(r) /\ record # None /\ causes' = causes
    BY <1>8 DEF Read, Reread, ReadFails
  <2>3. /\ causes' \subseteq Spoiling \cup {"takeover"} /\ (Spoilt => Spoilt')
        /\ record' \in RecordType \cup {None}
    BY <2>1, <2>2, Blaming DEF Spoiling, Types
  <2>4. {"expired", "stale", "end"} \subseteq Steps /\ request[r].step \in Before \ {"idle"}
    BY <2>1 DEF Steps, Before
  <2>5. CASE Holds(r)
    BY <1>4, <2>1, <2>3, <2>4, <2>5
  <2>6. ASSUME NEW step \in {"expired", "stale", "end"}, Goes(r, step)
        PROVE  Types' /\ RequestInv'
    BY <1>3, <2>1, <2>3, <2>4, <2>6
  <2>7. CASE Replayed(r) /\ record # None /\ causes' = causes
    BY <1>5, <2>1, <2>7
  <2> QED BY <2>2, <2>5, <2>6, <2>7
<1>9. ASSUME NEW r \in Requests, TakeOver(r) PROVE Types' /\ RequestInv'
  <2>1. request[r].step \in {"expired", "stale"} /\ now' = now
    BY <1>9 DEF TakeOver, At
  <2>2. /\ Blame({}) \/ Blame({"takeover"}) \/ Blame({"degraded"}) \/ causes' = causes
        /\ Holds(r) \/ Goes(r, "reread")
        /\ record' \in {record, TakenOver(r)}
    BY <1>9 DEF TakeOver
  <2>3. causes' \subseteq Spoiling \cup {"takeover"} /\ (Spoilt => Spoilt')
    <3>1. {} \in SUBSET (Spoiling \cup {"takeover"}) /\ {"takeover"} \in SUBSET (Spoiling \cup {"takeover"})
          /\ {"degraded"} \in SUBSET (Spoiling \cup {"takeover"})
      BY DEF Spoiling
    <3> QED BY <2>2, <3>1, Blaming
  <2>4. record' \in RecordType \cup {None}
    BY <2>1, <2>2, ClaimedIs DEF Types
  <2>5. "reread" \in Steps /\ request[r].step \in Before \ {"idle"}
    BY <2>1 DEF Steps, Before
  <2>6. CASE Holds(r)
    BY <1>4, <2>1, <2>3, <2>4, <2>5, <2>6
  <2>7. CASE Goes(r, "reread")
    BY <1>3, <2>1, <2>3, <2>4, <2>5, <2>7
  <2> QED BY <2>2, <2>6, <2>7
<1>10. ASSUME NEW r \in Requests, Succeed(r) PROVE Types' /\ RequestInv'
  <2>1. /\ request[r].step \in {"run", "through"} /\ UNCHANGED <<now, record, causes>>
        /\ now \in Nat \ {0} /\ Spoilt' = Spoilt
    BY <1>10 DEF Succeed, At, Types, Spoilt
  <2>2. /\ request[r].payload \in Payloads /\ request[r].answer = None
        /\ request[r].heldSince \in Nat /\ request[r].heldSince <= now
        /\ request[r].step = "run" => request[r].heldSince # 0
        /\ request[r].step = "through" => Spoilt
    BY <2>1 DEF RequestInv, Types, RequestType
  <2>3. causes \subseteq Spoiling \cup {"takeover"} /\ record \in RecordType \cup {None}
    BY DEF Types
  <2> QED BY <1>1, <1>10, <2>1, <2>2, <2>3, SucceedMeans DEF Before
<1>11. ASSUME NEW r \in Requests, Settle(r) \/ Fail(r) PROVE Types' /\ RequestInv'
  <2>1. /\ request[r].step \in {"run", "settle"} /\ now' = now
        /\ Goes(r, "end") /\ Blame(LateTo(r)) /\ record' \in {None, Concluded(r)}
    BY <1>11 DEF Settle, Fail, At
  <2>2. LateTo(r) \in SUBSET (Spoiling \cup {"takeover"})
    BY DEF LateTo, Spoiling
  <2>3. causes' \subseteq Spoiling \cup {"takeover"} /\ (Spoilt => Spoilt')
    BY <2>1, <2>2, Blaming
  <2>4. record' \in RecordType \cup {None}
    BY <2>1, ConcludedIs
  <2>5. "end" \in Steps
    BY DEF Steps
  <2> QED BY <1>3, <2>1, <2>3, <2>4, <2>5
<1>12. ASSUME NEW r \in Requests, Abandon(r) PROVE Types' /\ RequestInv'
  <2>1. /\ request[r].step # "idle" /\ Goes(r, "end") /\ UNCHANGED <<now, record, causes>>
    BY <1>12 DEF Abandon, At
  <2>2. /\ causes' \subseteq Spoiling \cup {"takeover"} /\ (Spoilt => Spoilt')
        /\ record' \in RecordType \cup {None}
    BY <2>1 DEF Types, Spoilt
  <2>3. "end" \in Steps
    BY DEF Steps
  <2> QED BY <1>3, <2>1, <2>2, <2>3
<1>13. CASE UNCHANGED <<request, causes>> /\ now' \in {now, now + 1} /\ record' \in {record, None}
  <2>1. Types'
    BY <1>13 DEF Types
  <2>2. RequestInv'
    <3> SUFFICES ASSUME NEW r \in Requests
                 PROVE  request[r].heldSince <= now' /\ request[r].effectAt <= now'
      BY <1>13 DEF RequestInv, Spoilt
    <3>1. /\ request[r].heldSince \in Nat /\ request[r].effectAt \in Nat /\ now \in Nat
          /\ request[r].heldSince <= now /\ request[r].effectAt <= now
      BY DEF Types, RequestType, RequestInv
    <3> QED BY <1>13, <3>1
  <2> QED BY <2>1, <2>2
<1> QED BY <1>2, <1>6, <1>7, <1>8, <1>9, <1>10, <1>11, <1>12, <1>13 DEF Next, Remove, Tick, vars

-----------------------------------------------------------------------------
(* What is promised *)

Late == {"run", "settle", "end"}

\* Who may have had an effect has run, and who has got an answer has ended.
LEMMA Stages ==
    ASSUME Types, RequestInv, NEW r \in Requests
    PROVE  /\ Active(r) => request[r].step \in Late
           /\ Holding(r) => Active(r) /\ request[r].heldSince # 0
           /\ request[r].answer # None => request[r].step = "end"
           /\ request[r].expiresAt \in Nat /\ request[r].heldSince \in Nat
           /\ request[r].effectAt \in Nat
<1>1. request[r] \in RequestType
  BY DEF Types
<1> QED BY <1>1 DEF RequestInv, RequestType, Active, Holding, At, Late, Steps, Before

\* A request moves while the record stays: it arrives, waits, has its effect, ends, or
\* gets the answer of a completed record with its payload.
LEMMA OneAdvances ==
    ASSUME Types, RequestInv, Unspoilt, Types', RequestInv', NEW r \in Requests, Others(r),
           UNCHANGED <<now, record>>, causes' = {} => causes = {},
           request[r].step \in Late =>
               /\ request'[r].step \in Late /\ request'[r].payload = request[r].payload
               /\ request'[r].expiresAt = request[r].expiresAt
               /\ request'[r].heldSince = request[r].heldSince,
           request[r].step = "end" => request'[r].step = "end",
           Holding(r)' => Holding(r), Active(r)' => Active(r),
           \/ request'[r].answer = request[r].answer
           \/ /\ record # None /\ record.state = "completed"
              /\ record.requestHash = request'[r].payload /\ request'[r].answer = record.answer
    PROVE  Unspoilt'
<1>1. \A s \in Requests \ {r} : request'[s] = request[s]
  BY DEF Others
<1>2. ASSUME NEW s \in Requests, request[s].step \in Late
      PROVE  /\ request'[s].step \in Late /\ request'[s].payload = request[s].payload
             /\ request'[s].expiresAt = request[s].expiresAt
             /\ request'[s].heldSince = request[s].heldSince
             /\ request[s].step = "end" => request'[s].step = "end"
  BY <1>1, <1>2
<1>3. ASSUME NEW s \in Requests
      PROVE  (Holding(s)' => Holding(s)) /\ (Active(s)' => Active(s)) /\ (Owns(s)' <=> Owns(s))
  <2>1. CASE s = r
    BY <2>1 DEF Owns
  <2>2. CASE s # r
    BY <1>1, <2>2 DEF Holding, At, Active, Owns
  <2> QED BY <2>1, <2>2
<1>4. RecordInv'
  <2> SUFFICES ASSUME record # None
               PROVE  /\ request'[record.owner].step \in Late
                      /\ record.requestHash = request'[record.owner].payload
                      /\ record.expiresAt = request'[record.owner].expiresAt
                      /\ record.state = "completed" => /\ record.answer = record.owner
                                                      /\ request'[record.owner].step = "end"
    BY DEF RecordInv, Late
  <2>1. record.owner \in Requests
    BY DEF Types, RecordType
  <2>2. /\ request[record.owner].step \in Late
        /\ record.requestHash = request[record.owner].payload
        /\ record.expiresAt = request[record.owner].expiresAt
        /\ record.state = "completed" => /\ record.answer = record.owner
                                        /\ request[record.owner].step = "end"
    BY DEF Unspoilt, RecordInv, Late
  <2> QED BY <1>2, <2>1, <2>2
<1>5. AnswerInv'
  <2> SUFFICES ASSUME NEW s \in Requests, request'[s].answer # None
               PROVE  /\ request'[request'[s].answer].step = "end"
                      /\ request'[request'[s].answer].payload = request'[s].payload
    BY DEF AnswerInv
  <2>1. CASE request'[s].answer = request[s].answer
    <3>1. /\ request[s].answer \in Requests /\ request[s].step = "end"
          /\ request[request[s].answer].step = "end"
          /\ request[request[s].answer].payload = request[s].payload
      BY <2>1, Stages DEF Unspoilt, AnswerInv, Types, RequestType
    <3> QED BY <1>2, <2>1, <3>1 DEF Late
  <2>2. CASE request'[s].answer # request[s].answer
    <3>1. /\ s = r /\ record # None /\ record.state = "completed"
          /\ record.requestHash = request'[r].payload /\ request'[r].answer = record.answer
      BY <1>1, <2>2
    <3>2. /\ record.owner \in Requests /\ record.answer = record.owner
          /\ request[record.owner].step = "end"
          /\ record.requestHash = request[record.owner].payload
      BY <3>1 DEF Unspoilt, RecordInv, Types, RecordType
    <3> QED BY <1>2, <3>1, <3>2 DEF Late
  <2> QED BY <2>1, <2>2
<1>6. ASSUME NEW s \in Requests, Active(s)
      PROVE  /\ request'[s].expiresAt = request[s].expiresAt
             /\ request'[s].heldSince = request[s].heldSince
  BY <1>2, <1>6, Stages
<1>7. HolderInv'
  <2>1. ASSUME NEW s \in Requests, Holding(s)'
        PROVE  Owns(s)' \/ request'[s].expiresAt + Lease <= now' + Retention
    BY <1>3, <1>6, <2>1, Stages DEF Unspoilt, HolderInv
  <2>2. ASSUME NEW s \in Requests, NEW t \in Requests, s # t, Holding(s)', Holding(t)'
        PROVE  Outlasted(s, t)' \/ Outlasted(t, s)'
    <3>1. Holding(s) /\ Holding(t) /\ Active(s) /\ Active(t)
      BY <1>3, <2>2, Stages
    <3>2. Outlasted(s, t) \/ Outlasted(t, s)
      BY <2>2, <3>1 DEF Unspoilt, HolderInv
    <3> QED BY <1>6, <3>1, <3>2 DEF Outlasted
  <2> QED BY <2>1, <2>2 DEF HolderInv
<1>8. ASSUME causes' = {} PROVE EffectInv'
  <2>1. EffectInv
    BY <1>8 DEF Unspoilt
  <2>2. ASSUME NEW s \in Requests, Active(s)' PROVE Owns(s)' \/ request'[s].expiresAt <= now'
    BY <1>3, <1>6, <2>1, <2>2 DEF EffectInv
  <2>3. ASSUME NEW s \in Requests, NEW t \in Requests, s # t, Active(s)', Active(t)'
        PROVE  \/ request'[t].heldSince >= request'[s].expiresAt
               \/ request'[s].heldSince >= request'[t].expiresAt
    <3>1. Active(s) /\ Active(t)
      BY <1>3, <2>3
    <3>2. \/ request[t].heldSince >= request[s].expiresAt
          \/ request[s].heldSince >= request[t].expiresAt
      BY <2>1, <2>3, <3>1 DEF EffectInv
    <3> QED BY <1>6, <3>1, <3>2
  <2> QED BY <2>2, <2>3 DEF EffectInv
<1> QED BY <1>4, <1>5, <1>7, <1>8 DEF Unspoilt

\* A request takes the key: nobody has it, or whoever has it has had it for a lease.
LEMMA OneTakes ==
    ASSUME Types, RequestInv, Unspoilt, Types', RequestInv', NEW r \in Requests, Holds(r),
           request[r].step \in Before \ {"idle"}, record' = Claimed(r), now' = now,
           causes' = {} => causes = {},
           record # None => Overdue /\ (causes' = {} => Expired)
    PROVE  Unspoilt'
<1> USE IdempotencyAssumption
<1>1. /\ \A s \in Requests \ {r} : request'[s] = request[s]
      /\ request'[r].step = "run" /\ request'[r].payload = request[r].payload
      /\ request'[r].expiresAt = request[r].expiresAt /\ request'[r].heldSince = now
      /\ request'[r].answer = request[r].answer
  BY HoldsMeans DEF Others
<1>2. /\ record' # None /\ record'.owner = r /\ record'.requestHash = request[r].payload
      /\ record'.expiresAt = request[r].expiresAt /\ record'.state = "in_progress"
  BY ClaimedIs DEF Before
<1>3. RecordInv'
  BY <1>1, <1>2 DEF RecordInv
<1>4. now \in Nat /\ Lease \in Nat /\ Retention \in Nat /\ Lease < Retention
  BY DEF Types
<1>5. request[r].answer = None /\ request[r].step # "end"
  BY DEF RequestInv, Before
<1>6. AnswerInv'
  <2> SUFFICES ASSUME NEW s \in Requests, request'[s].answer # None
               PROVE  /\ request'[request'[s].answer].step = "end"
                      /\ request'[request'[s].answer].payload = request'[s].payload
    BY DEF AnswerInv
  <2>1. s # r /\ request'[s] = request[s]
    BY <1>1, <1>5
  <2>2. /\ request[s].answer \in Requests /\ request[request[s].answer].step = "end"
        /\ request[request[s].answer].payload = request[s].payload
    BY <2>1 DEF Unspoilt, AnswerInv, Types, RequestType
  <2> QED BY <1>1, <1>5, <2>1, <2>2
<1>7. ASSUME NEW s \in Requests \ {r}
      PROVE  /\ Holding(s)' <=> Holding(s)
             /\ Active(s)' <=> Active(s)
             /\ request'[s] = request[s]
  BY <1>1 DEF Holding, Active, At
<1>8. ASSUME NEW s \in Requests, Owns(s) PROVE request[s].expiresAt = record.expiresAt /\ record # None
  BY <1>8 DEF Owns, Unspoilt, RecordInv
<1>9. ASSUME NEW s \in Requests \ {r}, Holding(s)
      PROVE  request[s].expiresAt + Lease <= now + Retention
  <2>1. request[s].expiresAt \in Nat
    BY Stages
  <2>2. CASE Owns(s)
    <3>1. request[s].expiresAt <= now + Retention - Lease
      BY <1>8, <2>2 DEF Overdue
    <3> QED BY <1>4, <2>1, <3>1
  <2> QED BY <1>9, <2>2 DEF Unspoilt, HolderInv
<1>10. HolderInv'
  <2>1. ASSUME NEW s \in Requests \ {r}, Holding(s)' PROVE Outlasted(s, r)'
    <3>1. request[s].expiresAt + Lease <= now + Retention /\ request'[s] = request[s]
      BY <1>7, <1>9, <2>1
    <3>2. request[s].expiresAt \in Nat
      BY Stages
    <3> QED BY <1>1, <1>4, <3>1, <3>2 DEF Outlasted
  <2>2. ASSUME NEW s \in Requests \ {r}, NEW t \in Requests \ {r}, s # t, Holding(s)', Holding(t)'
        PROVE  Outlasted(s, t)' \/ Outlasted(t, s)'
    BY <1>7, <2>2 DEF Outlasted, Unspoilt, HolderInv
  <2>3. ASSUME NEW s \in Requests, NEW t \in Requests, s # t, Holding(s)', Holding(t)'
        PROVE  Outlasted(s, t)' \/ Outlasted(t, s)'
    <3>1. CASE s = r
      BY <2>1, <2>3, <3>1
    <3>2. CASE t = r
      BY <2>1, <2>3, <3>2
    <3> QED BY <2>2, <2>3, <3>1, <3>2
  <2>4. ASSUME NEW s \in Requests, Holding(s)'
        PROVE  Owns(s)' \/ request'[s].expiresAt + Lease <= now' + Retention
    BY <1>2, <1>7, <1>9, <2>4 DEF Owns
  <2> QED BY <2>3, <2>4 DEF HolderInv
<1>11. ASSUME causes' = {} PROVE EffectInv'
  <2>1. EffectInv
    BY <1>11 DEF Unspoilt
  <2>2. ASSUME NEW s \in Requests \ {r}, Active(s)' PROVE request'[s].expiresAt <= now
    <3>1. Active(s) /\ request'[s] = request[s]
      BY <1>7, <2>2
    <3>2. CASE Owns(s)
      BY <1>8, <1>11, <3>1, <3>2 DEF Expired
    <3> QED BY <2>1, <3>1, <3>2 DEF EffectInv
  <2>3. ASSUME NEW s \in Requests, NEW t \in Requests, s # t, Active(s)', Active(t)'
        PROVE  \/ request'[t].heldSince >= request'[s].expiresAt
               \/ request'[s].heldSince >= request'[t].expiresAt
    <3>1. CASE s = r
      <4>1. request'[t].expiresAt <= now /\ request'[t].expiresAt \in Nat
        BY <1>7, <2>2, <2>3, <3>1, Stages
      <4> QED BY <1>1, <1>4, <3>1, <4>1
    <3>2. CASE t = r
      <4>1. request'[s].expiresAt <= now /\ request'[s].expiresAt \in Nat
        BY <1>7, <2>2, <2>3, <3>2, Stages
      <4> QED BY <1>1, <1>4, <3>2, <4>1
    <3>3. CASE s # r /\ t # r
      BY <1>7, <2>1, <2>3, <3>3 DEF EffectInv
    <3> QED BY <3>1, <3>2, <3>3
  <2>4. ASSUME NEW s \in Requests, Active(s)' PROVE Owns(s)' \/ request'[s].expiresAt <= now'
    BY <1>2, <2>2, <2>4 DEF Owns
  <2> QED BY <2>3, <2>4 DEF EffectInv
<1> QED BY <1>3, <1>6, <1>10, <1>11 DEF Unspoilt

\* The owner ends, and concludes or releases its record; or somebody without a record.
LEMMA OneEnds ==
    ASSUME Types, RequestInv, Unspoilt, Types', RequestInv', NEW r \in Requests, Goes(r, "end"),
           request[r].step \in {"run", "settle"}, now' = now, causes' = {} => causes = {},
           record # None => record.owner = r,
           \/ record' = Concluded(r)
           \/ record' = None /\ request[r].step = "run"
    PROVE  Unspoilt'
<1> USE IdempotencyAssumption
<1>1. /\ \A s \in Requests \ {r} : request'[s] = request[s]
      /\ request'[r].step = "end" /\ request'[r].payload = request[r].payload
      /\ request'[r].expiresAt = request[r].expiresAt
      /\ request'[r].heldSince = request[r].heldSince
      /\ request'[r].effectAt = request[r].effectAt
      /\ request'[r].answer = request[r].answer
  <2>1. "end" \in Steps
    BY DEF Steps
  <2> QED BY <2>1, GoesMeans DEF Others
<1>2. request[r].answer = None /\ request[r].step # "end" /\ Holding(r) /\ Active(r)
  BY DEF RequestInv, Holding, At, Active
<1>3. record' # None =>
          /\ record # None /\ record'.owner = r /\ record'.requestHash = request[r].payload
          /\ record'.expiresAt = request[r].expiresAt /\ record'.answer = r
  BY ConcludedIs DEF Unspoilt, RecordInv
<1>4. RecordInv'
  BY <1>1, <1>3 DEF RecordInv
<1>5. AnswerInv'
  <2> SUFFICES ASSUME NEW s \in Requests, request'[s].answer # None
               PROVE  /\ request'[request'[s].answer].step = "end"
                      /\ request'[request'[s].answer].payload = request'[s].payload
    BY DEF AnswerInv
  <2>1. s # r /\ request'[s] = request[s]
    BY <1>1, <1>2
  <2>2. /\ request[s].answer \in Requests /\ request[request[s].answer].step = "end"
        /\ request[request[s].answer].payload = request[s].payload
    BY <2>1 DEF Unspoilt, AnswerInv, Types, RequestType
  <2> QED BY <1>1, <1>2, <2>1, <2>2
<1>6. ASSUME NEW s \in Requests \ {r}
      PROVE  /\ (Holding(s)' <=> Holding(s)) /\ (Active(s)' <=> Active(s)) /\ ~Owns(s)
             /\ request'[s] = request[s]
  BY <1>1 DEF Holding, Active, At, Owns
<1>7. ~Holding(r)' /\ (Active(r)' <=> request[r].effectAt # 0)
  BY <1>1 DEF Holding, At, Active
<1>8. HolderInv'
  BY <1>6, <1>7 DEF HolderInv, Unspoilt, Outlasted
<1>9. ASSUME causes' = {} PROVE EffectInv'
  <2>1. EffectInv
    BY <1>9 DEF Unspoilt
  <2>2. ASSUME NEW s \in Requests, Active(s)' PROVE Owns(s)' \/ request'[s].expiresAt <= now'
    <3>1. CASE s # r
      BY <1>6, <2>1, <2>2, <3>1 DEF EffectInv
    <3>2. CASE s = r
      <4>1. request[r].step # "run"
        BY <1>7, <2>2, <3>2 DEF RequestInv
      <4>2. record' = Concluded(r)
        BY <4>1
      <4>3. CASE record = None
        BY <1>1, <1>2, <2>1, <3>2, <4>3 DEF EffectInv, Owns
      <4>4. CASE record # None
        BY <3>2, <4>2, <4>4, ConcludedIs DEF Owns
      <4> QED BY <4>3, <4>4
    <3> QED BY <3>1, <3>2
  <2>3. ASSUME NEW s \in Requests, NEW t \in Requests, s # t, Active(s)', Active(t)'
        PROVE  \/ request'[t].heldSince >= request'[s].expiresAt
               \/ request'[s].heldSince >= request'[t].expiresAt
    <3>1. ASSUME NEW u \in Requests, Active(u)'
          PROVE  /\ Active(u) /\ request'[u].heldSince = request[u].heldSince
                 /\ request'[u].expiresAt = request[u].expiresAt
      BY <1>1, <1>2, <1>6, <3>1
    <3> QED BY <2>1, <2>3, <3>1 DEF EffectInv
  <2> QED BY <2>2, <2>3 DEF EffectInv
<1> QED BY <1>4, <1>5, <1>8, <1>9 DEF Unspoilt

\* Time passes; the TTL index removes a record that has expired.
LEMMA TimePasses ==
    ASSUME Types, RequestInv, Unspoilt, UNCHANGED <<request, causes>>,
           \/ now' \in {now, now + 1} /\ record' = record
           \/ now' = now /\ record # None /\ Expired /\ record' = None
    PROVE  Unspoilt'
<1> USE IdempotencyAssumption
<1>1. /\ now \in Nat /\ now' \in Nat /\ now' >= now
      /\ Retention \in Nat /\ Lease \in Nat /\ Lease < Retention
  BY DEF Types
<1>2. RecordInv' /\ AnswerInv'
  BY DEF Unspoilt, RecordInv, AnswerInv
<1>3. \A s \in Requests : (Holding(s)' <=> Holding(s)) /\ (Active(s)' <=> Active(s))
  BY DEF Holding, Active, At
<1>4. ASSUME NEW s \in Requests, Owns(s) PROVE Owns(s)' \/ request[s].expiresAt <= now'
  <2>1. record # None /\ record.expiresAt = request[s].expiresAt
    BY <1>4 DEF Owns, Unspoilt, RecordInv
  <2> QED BY <1>4, <2>1 DEF Owns, Expired
<1>5. ASSUME NEW s \in Requests, Holding(s)
      PROVE  Owns(s)' \/ request[s].expiresAt + Lease <= now' + Retention
  <2>1. request[s].expiresAt \in Nat
    BY Stages
  <2>2. CASE Owns(s)
    BY <1>1, <1>4, <2>1, <2>2
  <2>3. CASE ~Owns(s)
    BY <1>1, <1>5, <2>1, <2>3 DEF Unspoilt, HolderInv
  <2> QED BY <2>2, <2>3
<1>6. HolderInv'
  BY <1>3, <1>5 DEF HolderInv, Unspoilt, Outlasted
<1>7. ASSUME causes' = {} PROVE EffectInv'
  <2>1. EffectInv
    BY <1>7 DEF Unspoilt
  <2>2. ASSUME NEW s \in Requests, Active(s) PROVE Owns(s)' \/ request[s].expiresAt <= now'
    <3>1. request[s].expiresAt \in Nat
      BY Stages
    <3> QED BY <1>1, <1>4, <2>1, <2>2, <3>1 DEF EffectInv
  <2> QED BY <1>3, <2>1, <2>2 DEF EffectInv
<1> QED BY <1>2, <1>6, <1>7 DEF Unspoilt

-----------------------------------------------------------------------------
(* The invariant holds *)

\* What has spoilt the guarantees is not forgotten.
LEMMA CausesStay == ASSUME Types, [Next]_vars PROVE Spoilt => Spoilt'
<1>1. ASSUME NEW kinds, Blame(kinds) PROVE Spoilt => Spoilt'
  BY <1>1 DEF Blame, Spoilt
<1>2. causes' = causes \/ \E kinds : Blame(kinds)
  BY DEF Next, Arrive, Claim, ClaimFails, Read, ReadFails, TakeOver, Reread, Succeed, Settle,
         Fail, Abandon, Remove, Tick, vars
<1> QED BY <1>1, <1>2 DEF Spoilt

Inv == Types /\ RequestInv /\ (~Spoilt => Unspoilt)

\* No step that spoils nothing breaks what is promised.
LEMMA UnspoiltStays ==
    ASSUME Types, RequestInv, Unspoilt, Types', RequestInv', [Next]_vars, ~Spoilt'
    PROVE  Unspoilt'
<1>1. /\ {} \in SUBSET (Spoiling \cup {"takeover"}) /\ {"takeover"} \in SUBSET (Spoiling \cup {"takeover"})
      /\ {"degraded"} \in SUBSET (Spoiling \cup {"takeover"})
      /\ {"vanished"} \in SUBSET (Spoiling \cup {"takeover"})
      /\ {"late"} \in SUBSET (Spoiling \cup {"takeover"})
  BY DEF Spoiling
<1>2. ~Blame({"degraded"}) /\ ~Blame({"vanished"}) /\ ~Blame({"late"})
  BY <1>1, Blaming DEF Spoiling
<1>3. ASSUME NEW r \in Requests, NEW payload \in Payloads, Arrive(r, payload) PROVE Unspoilt'
  <2>1. UNCHANGED <<now, record, causes>> /\ request[r].step = "idle"
    BY <1>3 DEF Arrive, At
  <2>2. request[r].answer = None /\ request[r].step \notin Late
    BY <2>1 DEF RequestInv, Late
  <2>3. /\ Others(r) /\ request'[r].step = "claim" /\ request'[r].effectAt = 0
        /\ request'[r].answer = None
    BY <1>3, ArriveMeans
  <2>4. ~Holding(r)' /\ ~Active(r)'
    BY <2>3 DEF Holding, Active, At
  <2> QED BY <2>1, <2>2, <2>3, <2>4, OneAdvances
<1>4. ASSUME NEW r \in Requests, NEW step \in Steps \ {"run", "settle"}, Goes(r, step),
             request[r].step # "end", request[r].step \in Late => step = "end",
             UNCHANGED <<now, record, causes>>
      PROVE  Unspoilt'
  <2>1. /\ Others(r)
        /\ request'[r].step = step /\ request'[r].payload = request[r].payload
        /\ request'[r].expiresAt = request[r].expiresAt
        /\ request'[r].heldSince = request[r].heldSince
        /\ request'[r].effectAt = request[r].effectAt
        /\ request'[r].answer = request[r].answer
    BY <1>4, GoesMeans
  <2>2. ~Holding(r)' /\ (Active(r)' => Active(r))
    BY <1>4, <2>1 DEF Holding, Active, At
  <2>3. request[r].step \in Late => step \in Late
    BY <1>4 DEF Late
  <2> QED BY <1>4, <2>1, <2>2, <2>3, OneAdvances
<1>5. ASSUME NEW r \in Requests, Replayed(r), record # None, request[r].step \in {"read", "reread"},
             Verdict(request[r].payload) = "replay", UNCHANGED <<now, record, causes>>
      PROVE  Unspoilt'
  <2>1. /\ Others(r)
        /\ request'[r].step = "end" /\ request'[r].payload = request[r].payload
        /\ request'[r].effectAt = request[r].effectAt
        /\ request'[r].answer = record.answer
    BY <1>5, ReplayedMeans
  <2>2. record.state = "completed" /\ record.requestHash = request[r].payload
    BY <1>5 DEF Verdict
  <2>3. ~Holding(r)' /\ (Active(r)' => Active(r)) /\ request[r].step \notin Late
    BY <1>5, <2>1 DEF Holding, Active, At, Late
  <2> QED BY <1>5, <2>1, <2>2, <2>3, OneAdvances
<1>6. ASSUME NEW r \in Requests, Claim(r) PROVE Unspoilt'
  <2>1. request[r].step = "claim" /\ UNCHANGED <<now, causes>>
    BY <1>6 DEF Claim, At
  <2>2. CASE record = None /\ record' = Claimed(r) /\ Holds(r)
    BY <2>1, <2>2, OneTakes DEF Before
  <2>3. CASE record' = record /\ Goes(r, "read")
    <3>1. "read" \in Steps \ {"run", "settle"}
      BY DEF Steps
    <3> QED BY <1>4, <2>1, <2>3, <3>1 DEF Late
  <2> QED BY <1>6, <2>2, <2>3 DEF Claim
<1>7. ASSUME NEW r \in Requests, Read(r) \/ Reread(r) PROVE Unspoilt'
  <2>1. request[r].step \in {"read", "reread"} /\ UNCHANGED <<now, record>>
    BY <1>7 DEF Read, Reread, At
  <2>2. /\ causes' = causes
        /\ \/ \E step \in {"expired", "stale", "end"} : Goes(r, step)
           \/ Replayed(r) /\ record # None /\ Verdict(request[r].payload) = "replay"
    BY <1>2, <1>7 DEF Read, Reread
  <2>3. {"expired", "stale", "end"} \subseteq Steps \ {"run", "settle"}
    BY DEF Steps
  <2>4. ASSUME NEW step \in {"expired", "stale", "end"}, Goes(r, step) PROVE Unspoilt'
    <3>1. step \in Steps \ {"run", "settle"}
      BY <2>3
    <3> QED BY <1>4, <2>1, <2>2, <2>4, <3>1 DEF Late
  <2> QED BY <1>5, <2>1, <2>2, <2>4
<1>8. ASSUME NEW r \in Requests, TakeOver(r) PROVE Unspoilt'
  <2>1. request[r].step \in {"expired", "stale"} /\ now' = now
    BY <1>8 DEF TakeOver, At
  <2>2. CASE /\ record # None /\ MayTakeOver(request[r].step) /\ record' = TakenOver(r)
             /\ Holds(r) /\ Blame(IF request[r].step = "stale" THEN {"takeover"} ELSE {})
    <3>1. causes' = {} => causes = {} /\ request[r].step # "stale"
      BY <1>1, <2>2, Blaming
    <3>2. Overdue /\ (request[r].step # "stale" => Expired)
      <4>1. record.expiresAt \in Nat /\ now \in Nat
        BY <2>2 DEF Types, RecordType
      <4> QED BY <2>2, <4>1, IdempotencyAssumption DEF MayTakeOver, Expired, Overdue
    <3>3. record' = Claimed(r) /\ request[r].step \in Before \ {"idle"}
      BY <2>1, <2>2 DEF TakenOver, Before
    <3> QED BY <2>1, <2>2, <3>1, <3>2, <3>3, OneTakes
  <2>3. CASE Goes(r, "reread") /\ UNCHANGED <<record, causes>>
    <3>1. "reread" \in Steps \ {"run", "settle"}
      BY DEF Steps
    <3> QED BY <1>4, <2>1, <2>3, <3>1 DEF Late
  <2> QED BY <1>2, <1>8, <2>2, <2>3 DEF TakeOver
<1>9. ASSUME NEW r \in Requests, Succeed(r) PROVE Unspoilt'
  <2>1. /\ request[r].step \in {"run", "through"} /\ UNCHANGED <<now, record, causes>>
        /\ Spoilt' = Spoilt
    BY <1>9 DEF Succeed, At, Spoilt
  <2>2. request[r].step = "run"
    BY <2>1 DEF RequestInv
  <2>3. /\ Others(r)
        /\ request'[r].step = "settle" /\ request'[r].payload = request[r].payload
        /\ request'[r].expiresAt = request[r].expiresAt
        /\ request'[r].heldSince = request[r].heldSince
        /\ request'[r].answer = request[r].answer
    BY <1>9, <2>2, SucceedMeans
  <2>4. Holding(r) /\ Active(r)
    BY <2>2 DEF Holding, Active, At, RequestInv
  <2> QED BY <2>1, <2>2, <2>3, <2>4, OneAdvances DEF Late
<1>10. ASSUME NEW r \in Requests, Settle(r) \/ Fail(r) PROVE Unspoilt'
  <2>1. /\ request[r].step \in {"run", "settle"} /\ now' = now
        /\ Goes(r, "end") /\ Blame(LateTo(r))
        /\ \/ record' = Concluded(r)
           \/ record' = None /\ request[r].step = "run"
    BY <1>10 DEF Settle, Fail, At
  <2>2. LateTo(r) = {} /\ (record # None => record.owner = r)
    BY <1>2, <2>1 DEF LateTo
  <2>3. causes' = {} => causes = {}
    BY <1>1, <2>1, <2>2, Blaming
  <2> QED BY <2>1, <2>2, <2>3, OneEnds
<1>11. ASSUME NEW r \in Requests, Abandon(r) PROVE Unspoilt'
  <2>1. /\ Goes(r, "end") /\ UNCHANGED <<now, record, causes>> /\ request[r].step # "end"
    BY <1>11 DEF Abandon, At
  <2>2. "end" \in Steps \ {"run", "settle"}
    BY DEF Steps
  <2> QED BY <1>4, <2>1, <2>2
<1>12. CASE Remove \/ Tick \/ UNCHANGED vars
  BY <1>12, TimePasses DEF Remove, Tick, vars
<1> QED BY <1>2, <1>3, <1>6, <1>7, <1>8, <1>9, <1>10, <1>11, <1>12
        DEF Next, ClaimFails, ReadFails

\* The invariant holds at the start, and every step keeps it.
LEMMA InvHolds == Spec => []Inv
<1>1. Init => Inv
  <2> SUFFICES ASSUME Init PROVE Inv
    OBVIOUS
  <2>1. Types
    BY DEF Init, Types, Request, RequestType, Steps
  <2>2. RequestInv
    <3>1. \A r \in Requests : /\ request[r].step = "idle" /\ request[r].answer = None
                              /\ request[r].heldSince = 0 /\ request[r].effectAt = 0
      BY DEF Init, Request
    <3>2. now = 1
      BY DEF Init
    <3>3. ASSUME NEW r \in Requests
          PROVE  /\ request[r].step \notin {"run", "settle", "through", "end"}
                 /\ request[r].answer = None /\ request[r].step = "idle"
                 /\ request[r].heldSince = 0 /\ request[r].effectAt = 0
                 /\ request[r].heldSince <= now /\ request[r].effectAt <= now
      BY <3>1, <3>2
    <3> QED BY <3>3 DEF RequestInv
  <2>3. Unspoilt
    BY DEF Init, Request, Unspoilt, RecordInv, AnswerInv, HolderInv, EffectInv, Holding, Active, At
  <2> QED BY <2>1, <2>2, <2>3 DEF Inv
<1>2. Inv /\ [Next]_vars => Inv'
  <2> SUFFICES ASSUME Inv, [Next]_vars PROVE Inv'
    OBVIOUS
  <2>1. Types /\ RequestInv /\ Types' /\ RequestInv'
    BY TypesStay DEF Inv
  <2>2. Spoilt => Spoilt'
    BY CausesStay DEF Inv
  <2> QED BY <2>1, <2>2, UnspoiltStays DEF Inv
<1> QED BY <1>1, <1>2, PTL DEF Spec

-----------------------------------------------------------------------------
(* The theorems *)

\* The submission takes effect once (idempotency middleware), as long as nothing happened
\* that the guarantee makes an exception for.
THEOREM AlwaysOneEffect == Spec => []OneEffect
<1>1. Inv => OneEffect
  <2> SUFFICES ASSUME Inv, causes = {}, NEW r \in Requests, NEW s \in Requests, r # s,
                      request[r].effectAt # 0, request[s].effectAt # 0,
                      request[r].effectAt < request[s].expiresAt,
                      request[s].effectAt < request[r].expiresAt
               PROVE  FALSE
    <3>1. Inv => \A q \in Requests : request[q].effectAt \in Nat /\ request[q].expiresAt \in Nat
      BY DEF Inv, Types, RequestType
    <3> QED BY <3>1 DEF OneEffect, EffectsBefore
  <2>1. ~Spoilt
    BY DEF Spoilt
  <2>2. /\ request[r].heldSince <= request[r].effectAt /\ request[r].heldSince \in Nat
        /\ request[s].heldSince <= request[s].effectAt /\ request[s].heldSince \in Nat
        /\ request[r].effectAt \in Nat /\ request[r].expiresAt \in Nat
        /\ request[s].effectAt \in Nat /\ request[s].expiresAt \in Nat
    BY <2>1 DEF Inv, RequestInv, Types, RequestType
  <2>3. \/ request[s].heldSince >= request[r].expiresAt
        \/ request[r].heldSince >= request[s].expiresAt
    BY <2>1 DEF Inv, Unspoilt, EffectInv, Active
  <2> QED BY <2>2, <2>3
<1> QED BY <1>1, InvHolds, PTL

\* takeOverStale, takeOverExpired: two requests hold the key together only when the later
\* one took it a lease after the other had arrived.
THEOREM AlwaysLeaseIsExclusive == Spec => []LeaseIsExclusive
<1>1. Inv => LeaseIsExclusive
  BY DEF Inv, Unspoilt, HolderInv, LeaseIsExclusive
<1> QED BY <1>1, InvHolds, PTL

\* classifyExisting: a replayed answer is the answer to the same payload.
THEOREM AlwaysReplayMatches == Spec => []ReplayMatches
<1>1. Inv => ReplayMatches
  BY DEF Inv, Unspoilt, AnswerInv, ReplayMatches
<1> QED BY <1>1, InvHolds, PTL

\* takeOverStale, captureOutcome: a recorded conclusion is not taken away while its
\* retention lasts.
THEOREM AlwaysConclusionStays == Spec => ConclusionStays
<1>1. Inv /\ [Next]_vars =>
          [record # None /\ record.state = "completed" /\ ~Expired /\ ~Spoilt'
               => record' = record]_vars
  <2> SUFFICES ASSUME Inv, [Next]_vars, record # None, record.state = "completed", ~Expired,
                      ~Spoilt'
               PROVE  record' = record
    OBVIOUS
  <2>1. Unspoilt /\ Types
    BY CausesStay DEF Inv
  <2>2. request[record.owner].step = "end"
    BY <2>1 DEF Unspoilt, RecordInv
  <2>3. {"degraded"} \in SUBSET (Spoiling \cup {"takeover"}) /\ {"late"} \in SUBSET (Spoiling \cup {"takeover"})
    BY DEF Spoiling
  <2>4. ~Blame({"degraded"}) /\ ~Blame({"late"})
    BY <2>1, <2>3, Blaming DEF Spoiling
  <2>5. ASSUME NEW r \in Requests, TakeOver(r) PROVE record' = record
    BY <2>4, <2>5 DEF TakeOver, MayTakeOver
  <2>6. ASSUME NEW r \in Requests, Settle(r) \/ Fail(r) PROVE record' = record
    <3>1. request[r].step \in {"run", "settle"} /\ Blame(LateTo(r))
      BY <2>6 DEF Settle, Fail, At
    <3>2. record.owner = r
      BY <2>4, <3>1 DEF LateTo
    <3> QED BY <2>2, <3>1, <3>2
  <2> QED BY <2>5, <2>6
          DEF Next, Arrive, Claim, ClaimFails, Read, ReadFails, Reread, Succeed, Abandon,
              Remove, Tick, vars
<1> QED BY <1>1, InvHolds, PTL DEF Spec, ConclusionStays
=============================================================================
