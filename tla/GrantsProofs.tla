----------------------------- MODULE GrantsProofs -----------------------------
(***************************************************************************)
(* Theorems about Grants, for any number of grants, administrators,        *)
(* requests and processes, any life times and any bound on the clock.      *)
(*                                                                         *)
(* The approvals of a grant only grow, and each step that changes its      *)
(* status looks at what is stored with it (ApprovalInv).  What a process   *)
(* keeps, or is about to keep, was in force when it was read; whoever took *)
(* it away since then has yet to tell the process, has told it, or could   *)
(* not (CacheInv).                                                         *)
(***************************************************************************)
EXTENDS Grants, FiniteSetTheorems, WellFoundedInduction, TLAPS

\* What is stored of a grant and its approvals.
Approved(g) ==
    /\ IsFiniteSet(Approvers(g))
    /\ Len(grant[g].approvals) = Cardinality(Approvers(g))
    /\ grant[g].status = "none" => grant[g].approvals = << >>
    /\ grant[g].status # "none" => grant[g].required > 0
    /\ grant[g].requestedBy \notin Approvers(g)
    /\ grant[g].status \in {"active", "expired"} => EnoughApprovals(g)

ApprovalInv == \A g \in Grants : Approved(g)

\* An invalidation has not reached p.
Excused(p) ==
    \/ p \in uninformed \/ p \in mail
    \/ \E o \in Ops : op[o].step = "invalidate"

WasGiven(s) == s \in Grants => grant[s].status \in {"active", "expired", "revoked"}

CacheOK(p) ==
    /\ cache[p] # None =>
           \A s \in cache[p].codes : WasGiven(s) /\ (Ended(s) => Excused(p))
    /\ \A s \in query[p].codes :
           WasGiven(s) /\ (Ended(s) => Excused(p) \/ p \in advanced)

CacheInv == \A p \in Procs : CacheOK(p)

-----------------------------------------------------------------------------
\* What one more approval does to who has approved.
LEMMA AppendedApproval ==
    ASSUME NEW s \in Seq(Admins), NEW by \in Admins
    PROVE  /\ Append(s, by) \in Seq(Admins) /\ Len(Append(s, by)) = Len(s) + 1
           /\ Range(Append(s, by)) = Range(s) \cup {by}
<1>1. /\ Append(s, by) \in Seq(Admins) /\ Len(Append(s, by)) = Len(s) + 1
      /\ \A i \in 1 .. Len(s) : Append(s, by)[i] = s[i]
      /\ Append(s, by)[Len(s) + 1] = by
  OBVIOUS
<1>2. /\ DOMAIN s = 1 .. Len(s) /\ DOMAIN Append(s, by) = 1 .. Len(s) + 1
      /\ Len(s) \in Nat
  BY <1>1
<1>3. ASSUME NEW x \in Range(Append(s, by)) PROVE x \in Range(s) \cup {by}
  <2>1. PICK i \in 1 .. Len(s) + 1 : x = Append(s, by)[i]
    BY <1>2, <1>3 DEF Range
  <2>2. CASE i \in 1 .. Len(s)
    BY <1>1, <1>2, <2>1, <2>2 DEF Range
  <2>3. CASE i = Len(s) + 1
    BY <1>1, <2>1, <2>3
  <2> QED BY <1>2, <2>1, <2>2, <2>3
<1>4. ASSUME NEW x \in Range(s) PROVE x \in Range(Append(s, by))
  <2>1. PICK i \in 1 .. Len(s) : x = s[i]
    BY <1>2, <1>4 DEF Range
  <2>2. i \in DOMAIN Append(s, by) /\ x = Append(s, by)[i]
    BY <1>1, <1>2, <2>1
  <2> QED BY <2>2 DEF Range
<1>5. by \in Range(Append(s, by))
  BY <1>1, <1>2 DEF Range
<1> QED BY <1>1, <1>3, <1>4, <1>5

\* The smaller of two times is one of them.
LEMMA LesserOf ==
    ASSUME NEW a \in Nat, NEW b \in Nat
    PROVE  Lesser(a, b) \in Nat /\ Lesser(a, b) <= a /\ Lesser(a, b) <= b
BY DEF Lesser

\* Of some times one is the earliest.
LEMMA EarliestOf ==
    ASSUME NEW T \in SUBSET Nat, T # {}
    PROVE  \E t \in T : \A s \in T : t <= s
<1>1. PICK t \in T : \A s \in T : <<s, t>> \notin OpToRel(<, Nat)
  BY NatLessThanWellFounded, WFMin
<1>2. \A s \in T : ~ (s < t)
  BY <1>1 DEF OpToRel
<1> QED BY <1>2

-----------------------------------------------------------------------------
(* What a query reads, and what is kept of it *)

\* The grants a query finds in force, and the earliest of their ends, or 0.
LEMMA ReadGrants ==
    ASSUME GrantsTypeOK, NEW p \in Procs, QueryReadsGrants(p)
    PROVE  \E live \in SUBSET Grants, end \in Nat :
               /\ query' = [query EXCEPT ![p] =
                     [step |-> "cache", at |-> query[p].at,
                      codes |-> query[p].codes \cup live, expiresAt |-> end]]
               /\ \A g \in live : /\ grant[g].status = "active"
                                   /\ grant[g].expiresAt > query[p].at
                                   /\ end # 0 /\ end <= grant[g].expiresAt
               /\ end # 0 => end > query[p].at
<1> DEFINE live == {g \in Grants : grant[g].status = "active"
                                     /\ grant[g].expiresAt > query[p].at}
           ends == {grant[g].expiresAt : g \in live}
           end == IF ends = {} THEN 0 ELSE CHOOSE t \in ends : \A s \in ends : t <= s
<1>1. query' = [query EXCEPT ![p] =
                     [step |-> "cache", at |-> query[p].at,
                      codes |-> query[p].codes \cup live, expiresAt |-> end]]
  BY DEF QueryReadsGrants
<1>2. ends \subseteq Nat /\ query[p].at \in Nat
  BY DEF GrantsTypeOK, GrantType, QueryTypeOK, QueryType
<1>3. /\ end \in Nat
      /\ end # 0 => end > query[p].at
      /\ \A g \in live : end # 0 /\ end <= grant[g].expiresAt
  <2>1. CASE ends = {}
    BY <2>1
  <2>2. CASE ends # {}
    <3>1. end \in ends /\ \A s \in ends : end <= s
      <4>1. \E t \in ends : \A s \in ends : t <= s
        BY <1>2, <2>2, EarliestOf
      <4> QED BY <2>2, <4>1
    <3>2. end \in Nat /\ end > query[p].at
      BY <1>2, <3>1
    <3>3. \A g \in live : end <= grant[g].expiresAt
      BY <3>1
    <3> HIDE DEF end, live, ends
    <3> QED BY <1>2, <3>2, <3>3
  <2> QED BY <2>1, <2>2
<1>4. /\ live \in SUBSET Grants
      /\ \A g \in live : grant[g].status = "active" /\ grant[g].expiresAt > query[p].at
  OBVIOUS
<1> HIDE DEF end, live, ends
<1> QED BY <1>1, <1>3, <1>4

\* What a query that ends leaves in the cache.
LEMMA KeptEntry ==
    ASSUME GrantsTypeOK, NEW p \in Procs
    PROVE  LET ttl == EffectiveTTL(p, GrantBound(query[p].at, query[p].expiresAt))
           IN [codes |-> query[p].codes, cachedAt |-> query[p].at,
               ttl |-> ttl, expireAt |-> query[p].at + ttl] \in EntryType
<1> USE GrantsAssumption
<1>1. /\ query[p].codes \in Codes /\ query[p].at \in Nat /\ query[p].expiresAt \in Nat
      /\ query[p].expiresAt # 0 => query[p].expiresAt - query[p].at \in Nat
  BY DEF GrantsTypeOK, QueryTypeOK, QueryType
<1> DEFINE bound == GrantBound(query[p].at, query[p].expiresAt)
<1>2. bound \in Nat
  BY <1>1 DEF GrantBound, Lesser
<1>3. EffectiveTTL(p, bound) \in Nat
  BY <1>2 DEF EffectiveTTL, Lesser
<1> QED BY <1>1, <1>3 DEF EntryType

-----------------------------------------------------------------------------
(* The types *)

\* At the start every variable holds what it should.
LEMMA InitTyped == Init => GrantsTypeOK
<1> SUFFICES ASSUME Init PROVE GrantsTypeOK
  OBVIOUS
<1>1. << >> \in Seq(Admins)
  OBVIOUS
<1>2. NoOp \in OpType /\ NoQuery \in QueryType
  BY DEF NoOp, OpType, NoQuery, QueryType, Codes
<1>3. grant \in [Grants -> GrantType]
  BY <1>1 DEF Init, GrantType
<1>4. OpTypeOK
  BY <1>2 DEF Init, OpTypeOK, NoOp
<1>5. QueryTypeOK
  BY <1>2 DEF Init, QueryTypeOK, NoQuery
<1> QED BY <1>3, <1>4, <1>5 DEF Init, GrantsTypeOK

\* A grant with another status, other approvals or another end is a grant.
LEMMA ChangedGrant ==
    ASSUME NEW r \in GrantType
    PROVE  /\ \A status \in {"active", "rejected", "revoked", "expired"} :
                  [r EXCEPT !.status = status] \in GrantType
           /\ \A approvals \in Seq(Admins) : [r EXCEPT !.approvals = approvals] \in GrantType
           /\ \A end \in Nat : [r EXCEPT !.expiresAt = end] \in GrantType
<1>1. ASSUME NEW status \in {"active", "rejected", "revoked", "expired"}
      PROVE  [r EXCEPT !.status = status] \in GrantType
  BY DEF GrantType
<1>2. ASSUME NEW approvals \in Seq(Admins)
      PROVE  [r EXCEPT !.approvals = approvals] \in GrantType
  BY DEF GrantType
<1>3. ASSUME NEW end \in Nat PROVE [r EXCEPT !.expiresAt = end] \in GrantType
  BY DEF GrantType
<1> QED BY <1>1, <1>2, <1>3

\* A grant that moves on is one still.
LEMMA GrantMoves ==
    ASSUME GrantsTypeOK, NEW g \in Grants, NEW r \in GrantType,
           grant' = [grant EXCEPT ![g] = r]
    PROVE  grant' \in [Grants -> GrantType]
BY DEF GrantsTypeOK

\* A query that moves on is one still.
LEMMA QueryMoves ==
    ASSUME GrantsTypeOK, NEW p \in Procs, NEW q \in QueryType,
           q.expiresAt # 0 => q.expiresAt > q.at, query' = [query EXCEPT ![p] = q]
    PROVE  QueryTypeOK'
BY DEF GrantsTypeOK, QueryTypeOK

\* A request that answers, goes on, or turns to the caches.
LEMMA RequestGoesOn ==
    ASSUME GrantsTypeOK, NEW o \in Ops,
           \/ Answers(o) \/ Invalidates(o)
           \/ /\ op[o].step \in {"write", "activate"}
              /\ Goes(o, [op[o] EXCEPT !.step = "activate"])
    PROVE  OpTypeOK'
<1>1. PICK to \in OpType : /\ op' = [op EXCEPT ![o] = to]
                           /\ to.step \in {"write", "activate"} =>
                                  to.grant \in Grants /\ to.by \in Admins
  <2>1. CASE Answers(o)
    <3>1. NoOp \in OpType /\ NoOp.step = "none"
      BY DEF NoOp, OpType
    <3> QED BY <2>1, <3>1 DEF Answers, Goes
  <2>2. CASE Invalidates(o)
    <3> DEFINE to == [NoOp EXCEPT !.kind = "change", !.step = "invalidate"]
    <3>1. to \in OpType /\ to.step = "invalidate"
      BY DEF NoOp, OpType
    <3> QED BY <2>2, <3>1 DEF Invalidates, Goes
  <2>3. CASE op[o].step \in {"write", "activate"}
             /\ Goes(o, [op[o] EXCEPT !.step = "activate"])
    <3> DEFINE to == [op[o] EXCEPT !.step = "activate"]
    <3>1. /\ to \in OpType
          /\ to.step \in {"write", "activate"} => to.grant \in Grants /\ to.by \in Admins
      BY <2>3 DEF GrantsTypeOK, OpTypeOK, OpType
    <3> QED BY <2>3, <3>1 DEF Goes
  <2> QED BY <2>1, <2>2, <2>3
<1> QED BY <1>1 DEF GrantsTypeOK, OpTypeOK

\* Each step leaves in every variable what it should hold.
LEMMA TypesStay == GrantsTypeOK /\ [Next]_vars => GrantsTypeOK'
<1> SUFFICES ASSUME GrantsTypeOK, [Next]_vars PROVE GrantsTypeOK'
  OBVIOUS
<1> USE GrantsAssumption
<1>1. CASE Tick
  BY <1>1 DEF GrantsTypeOK, OpTypeOK, QueryTypeOK, Tick, adminVars, cacheVars
<1>2. ASSUME NEW g \in Grants, RequestGrant(g) PROVE GrantsTypeOK'
  <2>1. PICK by \in Admins, n \in {1, 2} :
            grant' = [grant EXCEPT ![g] =
                [status |-> "pending", requestedBy |-> by, required |-> n,
                 approvals |-> << >>, expiresAt |-> 0]]
    BY <1>2 DEF RequestGrant
  <2>2. [status |-> "pending", requestedBy |-> by, required |-> n,
         approvals |-> << >>, expiresAt |-> 0] \in GrantType
    BY DEF GrantType
  <2>3. grant' \in [Grants -> GrantType]
    BY <2>1, <2>2, GrantMoves
  <2> QED BY <1>2, <2>3 DEF RequestGrant, GrantsTypeOK, OpTypeOK, QueryTypeOK, cacheVars
<1>3. ASSUME NEW g \in Grants, ExpireDue(g) PROVE GrantsTypeOK'
  <2>1. grant' = [grant EXCEPT ![g].status = "expired"]
    BY <1>3 DEF ExpireDue
  <2> DEFINE r == [grant[g] EXCEPT !.status = "expired"]
  <2>2. r \in GrantType
    BY DEF GrantsTypeOK, GrantType
  <2>3. grant' \in [Grants -> GrantType]
    BY <2>1, <2>2, GrantMoves
  <2> QED BY <1>3, <2>3 DEF ExpireDue, GrantsTypeOK, OpTypeOK, QueryTypeOK, cacheVars
<1>4. ASSUME NEW o \in Ops, Approve(o) \/ Reject(o) PROVE GrantsTypeOK'
  <2>1. PICK kind \in {"approve", "reject"}, at \in Nat, g \in Grants, by \in Admins :
            op' = [op EXCEPT ![o] = [kind |-> kind, step |-> "write", by |-> by,
                                     grant |-> g, at |-> at]]
    BY <1>4 DEF Approve, Reject, Begins, Goes, GrantsTypeOK
  <2>2. [kind |-> kind, step |-> "write", by |-> by, grant |-> g, at |-> at] \in OpType
    BY DEF OpType
  <2>3. OpTypeOK'
    BY <2>1, <2>2 DEF GrantsTypeOK, OpTypeOK
  <2> QED BY <1>4, <2>3 DEF Approve, Reject, Begins, GrantsTypeOK, OpTypeOK, QueryTypeOK, cacheVars
<1>5. ASSUME NEW o \in Ops, ApproveWrites(o) PROVE GrantsTypeOK'
  <2>1. PICK g \in {op[o].grant}, by \in {op[o].by} :
            \/ /\ grant' = [grant EXCEPT ![g].approvals = Append(@, by)]
               /\ Goes(o, [op[o] EXCEPT !.step = "activate"]) \/ Answers(o)
            \/ UNCHANGED grant /\ Answers(o)
    BY <1>5 DEF ApproveWrites
  <2>2. g \in Grants /\ by \in Admins
    BY <1>5, <2>1 DEF ApproveWrites, Step, GrantsTypeOK, OpTypeOK
  <2>3. Append(grant[g].approvals, by) \in Seq(Admins)
    BY <2>2, AppendedApproval DEF GrantsTypeOK, GrantType
  <2>4. grant' \in [Grants -> GrantType]
    <3> DEFINE r == [grant[g] EXCEPT !.approvals = Append(grant[g].approvals, by)]
    <3>1. r \in GrantType
      BY <2>2, <2>3, ChangedGrant DEF GrantsTypeOK
    <3> QED BY <2>1, <2>2, <3>1, GrantMoves DEF GrantsTypeOK
  <2>5. OpTypeOK'
    BY <1>5, <2>1, RequestGoesOn DEF ApproveWrites, Step
  <2> QED BY <1>5, <2>4, <2>5 DEF ApproveWrites, GrantsTypeOK, OpTypeOK, QueryTypeOK, cacheVars
<1>6. ASSUME NEW o \in Ops, Activate(o) PROVE GrantsTypeOK'
  <2>1. op[o].grant \in Grants /\ op[o].at + Duration \in Nat
    BY <1>6 DEF Activate, Step, GrantsTypeOK, OpTypeOK, OpType
  <2>2. grant' \in [Grants -> GrantType]
    <3> DEFINE r1 == [grant[op[o].grant] EXCEPT !.status = "active"]
               r2 == [r1 EXCEPT !.expiresAt = op[o].at + Duration]
    <3>0. grant[op[o].grant] \in GrantType
      BY <2>1 DEF GrantsTypeOK
    <3>1. r1 \in GrantType
      BY <3>0, ChangedGrant DEF GrantsTypeOK
    <3>2. r2 \in GrantType
      <4> HIDE DEF r1
      <4> QED BY <2>1, <3>1, ChangedGrant
    <3>3. grant' = [grant EXCEPT ![op[o].grant] = r2] \/ UNCHANGED grant
      BY <1>6, <2>1 DEF Activate, GrantsTypeOK
    <3> HIDE DEF r2
    <3> QED BY <2>1, <3>2, <3>3, GrantMoves DEF GrantsTypeOK
  <2>3. OpTypeOK'
    BY <1>6, RequestGoesOn DEF Activate
  <2> QED BY <1>6, <2>2, <2>3 DEF Activate, GrantsTypeOK, OpTypeOK, QueryTypeOK, cacheVars
<1>7. ASSUME NEW o \in Ops, RejectWrites(o) PROVE GrantsTypeOK'
  <2>1. grant' \in [Grants -> GrantType]
    <3> DEFINE g == op[o].grant
               r == [grant[g] EXCEPT !.status = IF @ = "pending" THEN "rejected" ELSE @]
    <3>1. g \in Grants
      BY <1>7 DEF RejectWrites, Step, GrantsTypeOK, OpTypeOK
    <3>2. r \in GrantType
      <4>1. grant[g] \in GrantType
        BY <3>1 DEF GrantsTypeOK
      <4>2. CASE grant[g].status = "pending"
        <5>1. r = [grant[g] EXCEPT !.status = "rejected"]
          BY <4>2
        <5> QED BY <4>1, <5>1, ChangedGrant
      <4>3. CASE grant[g].status # "pending"
        BY <4>1, <4>3 DEF GrantType
      <4> QED BY <4>2, <4>3
    <3>3. grant' = [grant EXCEPT ![g] = r]
      BY <1>7 DEF RejectWrites
    <3> HIDE DEF g, r
    <3> QED BY <3>1, <3>2, <3>3, GrantMoves
  <2>2. OpTypeOK'
    BY <1>7, RequestGoesOn DEF RejectWrites
  <2> QED BY <1>7, <2>1, <2>2 DEF RejectWrites, GrantsTypeOK, OpTypeOK, QueryTypeOK, cacheVars
<1>8. ASSUME NEW o \in Ops, Revoke(o) PROVE GrantsTypeOK'
  <2>1. PICK g \in Grants :
            /\ grant' = [grant EXCEPT ![g].status = "revoked"]
            /\ endedAt' = [endedAt EXCEPT ![g] = now]
            /\ Invalidates(o) \/ UNCHANGED op
    BY <1>8 DEF Revoke
  <2>2. grant' \in [Grants -> GrantType] /\ endedAt' \in [Grants \cup {Role} -> Nat]
    BY <2>1 DEF GrantsTypeOK, GrantType
  <2>3. OpTypeOK'
    BY <2>1, RequestGoesOn DEF GrantsTypeOK, OpTypeOK
  <2> QED BY <1>8, <2>2, <2>3 DEF Revoke, GrantsTypeOK, OpTypeOK, QueryTypeOK, cacheVars
<1>9. ASSUME NEW o \in Ops, Unassign(o) PROVE GrantsTypeOK'
  <2>1. OpTypeOK'
    BY <1>9, RequestGoesOn DEF Unassign
  <2> QED BY <1>9, <2>1 DEF Unassign, GrantsTypeOK, OpTypeOK, QueryTypeOK, cacheVars
<1>10. ASSUME NEW o \in Ops, Invalidate(o) PROVE GrantsTypeOK'
  <2>1. OpTypeOK'
    BY <1>10, RequestGoesOn DEF Invalidate
  <2>2. /\ mail' \subseteq Procs /\ uninformed' \subseteq Procs /\ advanced' \subseteq Procs
        /\ cache' \in [Procs -> EntryType \cup {None}]
    BY <1>10 DEF Invalidate, EmptiedIn, GrantsTypeOK
  <2> QED BY <1>10, <2>1, <2>2 DEF Invalidate, GrantsTypeOK, QueryTypeOK
<1>11. ASSUME NEW o \in Ops, Fail(o) PROVE GrantsTypeOK'
  <2>1. OpTypeOK'
    BY <1>11, RequestGoesOn DEF Fail
  <2>2. stalled' \subseteq Grants /\ uninformed' \subseteq Procs
    BY <1>11 DEF Fail, GrantsTypeOK, OpTypeOK
  <2> QED BY <1>11, <2>1, <2>2 DEF Fail, GrantsTypeOK, QueryTypeOK
<1>12. ASSUME NEW p \in Procs,
              \/ Deliver(p) \/ Lose(p) \/ Disconnect(p) \/ Reconnect(p) \/ Drop(p)
              \/ QueryBegins(p) \/ QueryReadsRoles(p) \/ QueryReadsGrants(p) \/ QueryEnds(p)
       PROVE  GrantsTypeOK'
  <2>1. UNCHANGED <<now, adminVars>>
    BY <1>12 DEF Deliver, Lose, Disconnect, Reconnect, Drop, QueryBegins,
                 QueryReadsRoles, QueryReadsGrants, QueryEnds
  <2>2. /\ connected' \subseteq Procs /\ mail' \subseteq Procs /\ advanced' \subseteq Procs
        /\ uninformed' \subseteq Procs
    BY <1>12 DEF Deliver, Lose, Disconnect, Reconnect, Drop, QueryBegins, EmptiedIn,
                 QueryReadsRoles, QueryReadsGrants, QueryEnds, GrantsTypeOK
  <2>3. QueryTypeOK'
    <3>1. CASE QueryBegins(p)
      <4> DEFINE q == [step |-> "roles", at |-> now, codes |-> {}, expiresAt |-> 0]
      <4>1. q \in QueryType /\ q.expiresAt = 0
        BY DEF GrantsTypeOK, QueryType, Codes
      <4>2. query' = [query EXCEPT ![p] = q]
        BY <3>1 DEF QueryBegins
      <4> HIDE DEF q
      <4> QED BY <4>1, <4>2, QueryMoves
    <3>2. CASE QueryReadsRoles(p)
      <4> DEFINE q == [step |-> "grants", at |-> query[p].at,
                       codes |-> IF roleHeld THEN {Role} ELSE {}, expiresAt |-> 0]
      <4>1. q \in QueryType /\ q.expiresAt = 0
        BY DEF GrantsTypeOK, QueryTypeOK, QueryType, Codes
      <4>2. query' = [query EXCEPT ![p] = q]
        BY <3>2 DEF QueryReadsRoles
      <4> HIDE DEF q
      <4> QED BY <4>1, <4>2, QueryMoves
    <3>3. CASE QueryReadsGrants(p)
      <4>1. PICK live \in SUBSET Grants, end \in Nat :
                /\ query' = [query EXCEPT ![p] =
                     [step |-> "cache", at |-> query[p].at,
                      codes |-> query[p].codes \cup live, expiresAt |-> end]]
                /\ end # 0 => end > query[p].at
        BY <3>3, ReadGrants
      <4> DEFINE q == [step |-> "cache", at |-> query[p].at,
                       codes |-> query[p].codes \cup live, expiresAt |-> end]
      <4>2. q \in QueryType /\ q.expiresAt = end /\ q.at = query[p].at
        BY DEF GrantsTypeOK, QueryTypeOK, QueryType, Codes
      <4>3. query' = [query EXCEPT ![p] = q]
        BY <4>1
      <4> HIDE DEF q
      <4> QED BY <4>1, <4>2, <4>3, QueryMoves
    <3>4. CASE QueryEnds(p)
      BY <3>4 DEF QueryEnds, GrantsTypeOK, QueryTypeOK, QueryType, NoQuery, Codes
    <3> QED BY <1>12, <3>1, <3>2, <3>3, <3>4
            DEF Deliver, Lose, Disconnect, Reconnect, Drop, GrantsTypeOK, QueryTypeOK
  <2>4. cache' \in [Procs -> EntryType \cup {None}]
    <3>1. CASE QueryEnds(p)
      BY <3>1, KeptEntry DEF QueryEnds, GrantsTypeOK
    <3> QED BY <1>12, <3>1 DEF Deliver, Lose, Disconnect, Reconnect, Drop, QueryBegins,
                 QueryReadsRoles, QueryReadsGrants, EmptiedIn, GrantsTypeOK
  <2> QED BY <2>1, <2>2, <2>3, <2>4 DEF GrantsTypeOK, OpTypeOK, adminVars
<1>13. CASE UNCHANGED vars
  BY <1>13 DEF vars, adminVars, cacheVars, GrantsTypeOK, OpTypeOK, QueryTypeOK
<1> QED BY <1>1, <1>2, <1>3, <1>4, <1>5, <1>6, <1>7, <1>8, <1>9, <1>10, <1>11, <1>12, <1>13
        DEF Next

\* Every variable always holds what it should.
THEOREM GrantsTyped == Spec => []GrantsTypeOK
<1> QED BY InitTyped, TypesStay, PTL DEF Spec

-----------------------------------------------------------------------------
(* Approvals *)

\* The status of a grant moves on, and its approvals are as they were.
LEMMA StatusMoves ==
    ASSUME NEW g \in Grants, Approved(g),
           grant'[g].approvals = grant[g].approvals,
           grant'[g].required = grant[g].required,
           grant'[g].requestedBy = grant[g].requestedBy,
           \/ grant'[g].status = grant[g].status
           \/ /\ grant[g].status # "none" /\ grant'[g].status # "none"
              /\ grant'[g].status \in {"active", "expired"} => EnoughApprovals(g)
    PROVE  Approved(g)'
<1>1. Approvers(g)' = Approvers(g)
  BY DEF Approvers
<1>2. EnoughApprovals(g)' = EnoughApprovals(g)
  BY <1>1 DEF EnoughApprovals
<1> QED BY <1>1, <1>2 DEF Approved

\* An approval of another person is one more.
LEMMA ApprovalAdds ==
    ASSUME GrantsTypeOK, NEW g \in Grants, NEW by \in Admins, Approved(g),
           grant[g].status = "pending", grant[g].requestedBy # by, by \notin Approvers(g),
           grant' = [grant EXCEPT ![g].approvals = Append(@, by)]
    PROVE  Approved(g)'
<1>1. /\ grant'[g].approvals = Append(grant[g].approvals, by)
      /\ grant'[g].required = grant[g].required /\ grant'[g].status = "pending"
      /\ grant'[g].requestedBy = grant[g].requestedBy
      /\ grant[g].approvals \in Seq(Admins)
  BY DEF GrantsTypeOK, GrantType
<1>2. /\ Approvers(g)' = Approvers(g) \cup {by}
      /\ Len(grant'[g].approvals) = Len(grant[g].approvals) + 1
  BY <1>1, AppendedApproval DEF Approvers
<1>3. /\ IsFiniteSet(Approvers(g)')
      /\ Cardinality(Approvers(g)') = Cardinality(Approvers(g)) + 1
  BY <1>2, FS_AddElement DEF Approved
<1> QED BY <1>1, <1>2, <1>3 DEF Approved

\* No step makes an approval that the grant may not bear, or a grant active or expired
\* that has too few.
LEMMA ApprovalStays == GrantsTypeOK /\ ApprovalInv /\ [Next]_vars => ApprovalInv'
<1> SUFFICES ASSUME GrantsTypeOK, ApprovalInv, [Next]_vars, NEW g \in Grants
             PROVE  Approved(g)'
  BY DEF ApprovalInv
<1>1. Approved(g) /\ grant \in [Grants -> GrantType]
  BY DEF ApprovalInv, GrantsTypeOK
<1>2. CASE UNCHANGED grant
  BY <1>1, <1>2, StatusMoves
<1>3. ASSUME NEW h \in Grants, RequestGrant(h) PROVE Approved(g)'
  <2>1. PICK by \in Admins, n \in {1, 2} :
            grant' = [grant EXCEPT ![h] =
                [status |-> "pending", requestedBy |-> by, required |-> n,
                 approvals |-> << >>, expiresAt |-> 0]]
    BY <1>3 DEF RequestGrant
  <2>2. CASE g = h
    <3>1. grant'[g] = [status |-> "pending", requestedBy |-> by, required |-> n,
                       approvals |-> << >>, expiresAt |-> 0]
      BY <1>1, <2>1, <2>2
    <3>2. Approvers(g)' = {}
      BY <3>1 DEF Approvers, Range
    <3> QED BY <3>1, <3>2, FS_EmptySet DEF Approved
  <2>3. CASE g # h
    BY <1>1, <2>1, <2>3, StatusMoves
  <2> QED BY <2>2, <2>3
<1>4. ASSUME NEW h \in Grants, ExpireDue(h) PROVE Approved(g)'
  <2>1. grant' = [grant EXCEPT ![h].status = "expired"] /\ grant[h].status = "active"
    BY <1>4 DEF ExpireDue
  <2> QED BY <1>1, <2>1, StatusMoves DEF Approved
<1>5. ASSUME NEW o \in Ops, ApproveWrites(o) PROVE Approved(g)'
  <2>1. PICK h \in {op[o].grant}, by \in {op[o].by} :
            \/ /\ grant[h].status = "pending" /\ grant[h].requestedBy # by
               /\ by \notin Approvers(h)
               /\ grant' = [grant EXCEPT ![h].approvals = Append(@, by)]
            \/ UNCHANGED grant
    BY <1>5 DEF ApproveWrites
  <2>2. h \in Grants /\ by \in Admins
    BY <1>5, <2>1 DEF ApproveWrites, Step, GrantsTypeOK, OpTypeOK
  <2>3. CASE g = h
    BY <1>1, <1>2, <2>1, <2>2, <2>3, ApprovalAdds
  <2>4. CASE g # h
    <3>1. grant'[g] = grant[g]
      BY <1>1, <2>1, <2>2, <2>4
    <3> QED BY <1>1, <3>1, StatusMoves
  <2> QED BY <2>3, <2>4
<1>6. ASSUME NEW o \in Ops, Activate(o) PROVE Approved(g)'
  <2> DEFINE h == op[o].grant
  <2>1. \/ /\ grant[h].status = "pending" /\ EnoughApprovals(h)
           /\ grant' = [grant EXCEPT ![h].status = "active",
                                     ![h].expiresAt = op[o].at + Duration]
        \/ UNCHANGED grant
    BY <1>6 DEF Activate
  <2>2. CASE g = h /\ ~UNCHANGED grant
    <3>1. /\ grant'[g].approvals = grant[g].approvals /\ grant'[g].status = "active"
          /\ grant'[g].required = grant[g].required
          /\ grant'[g].requestedBy = grant[g].requestedBy
      BY <1>1, <2>1, <2>2 DEF GrantType
    <3> QED BY <1>1, <2>1, <2>2, <3>1, StatusMoves
  <2>3. CASE g # h \/ UNCHANGED grant
    <3>1. grant'[g] = grant[g]
      BY <1>1, <2>1, <2>3
    <3> QED BY <1>1, <3>1, StatusMoves
  <2> QED BY <2>2, <2>3
<1>7. ASSUME NEW o \in Ops, RejectWrites(o) PROVE Approved(g)'
  <2>1. grant' = [grant EXCEPT ![op[o].grant].status = IF @ = "pending" THEN "rejected" ELSE @]
    BY <1>7 DEF RejectWrites
  <2>2. /\ grant'[g].approvals = grant[g].approvals
        /\ grant'[g].required = grant[g].required
        /\ grant'[g].requestedBy = grant[g].requestedBy
        /\ \/ grant'[g].status = grant[g].status
           \/ grant[g].status = "pending" /\ grant'[g].status = "rejected"
    BY <1>1, <2>1 DEF GrantType
  <2> QED BY <1>1, <2>2, StatusMoves
<1>8. ASSUME NEW o \in Ops, Revoke(o) PROVE Approved(g)'
  <2>1. PICK h \in Grants : /\ grant[h].status \in {"pending", "active"}
                            /\ grant' = [grant EXCEPT ![h].status = "revoked"]
    BY <1>8 DEF Revoke
  <2>2. /\ grant'[g].approvals = grant[g].approvals
        /\ grant'[g].required = grant[g].required
        /\ grant'[g].requestedBy = grant[g].requestedBy
        /\ \/ grant'[g].status = grant[g].status
           \/ grant[g].status \in {"pending", "active"} /\ grant'[g].status = "revoked"
    BY <1>1, <2>1 DEF GrantType
  <2> QED BY <1>1, <2>2, StatusMoves
<1>9. \/ UNCHANGED grant \/ \E h \in Grants : RequestGrant(h) \/ ExpireDue(h)
      \/ \E o \in Ops : \/ ApproveWrites(o) \/ Activate(o) \/ RejectWrites(o) \/ Revoke(o)
  BY DEF Next, vars, adminVars, Tick, Approve, Reject, Begins, Unassign, Invalidate, Fail,
         Deliver, Lose, Disconnect, Reconnect, Drop, QueryBegins, QueryReadsRoles,
         QueryReadsGrants, QueryEnds
<1> QED BY <1>2, <1>3, <1>4, <1>5, <1>6, <1>7, <1>8, <1>9

\* What is stored of each grant is always right.
THEOREM GrantsAreApproved == Spec => [](GrantsTypeOK /\ ApprovalInv)
<1>1. Init => ApprovalInv
  <2> SUFFICES ASSUME Init, NEW g \in Grants PROVE Approved(g)
    BY DEF ApprovalInv
  <2>1. grant[g] = [status |-> "none", requestedBy |-> None, required |-> 0,
                    approvals |-> << >>, expiresAt |-> 0]
    BY DEF Init
  <2>2. Approvers(g) = {}
    BY <2>1 DEF Approvers, Range
  <2> QED BY <2>1, <2>2, FS_EmptySet DEF Approved
<1> QED BY <1>1, InitTyped, TypesStay, ApprovalStays, PTL DEF Spec

\* A grant that is or was in force bears as many approvals of different people as it
\* needs, none of them that of who asked for it.
THEOREM AlwaysActiveWasApproved == Spec => []ActiveWasApproved
<1>1. GrantsTypeOK /\ ApprovalInv => ActiveWasApproved
  BY DEF ApprovalInv, Approved, ActiveWasApproved, EnoughApprovals
<1> QED BY <1>1, GrantsAreApproved, PTL

-----------------------------------------------------------------------------
(* The last approval *)

Waits(g) == grant[g].status = "pending" /\ EnoughApprovals(g)
Activates(o, g) == Step(o, "approve", "activate") /\ op[o].grant = g

\* Each grant that waits for its activation is about to be activated, or that failed,
\* after every step.
LEMMA ActivationStays ==
    GrantsTypeOK /\ ApprovalInv /\ ApprovedIsActivated /\ [Next]_vars
        => ApprovedIsActivated'
<1> SUFFICES ASSUME GrantsTypeOK, ApprovalInv, ApprovedIsActivated, [Next]_vars,
                    NEW g \in Grants, Waits(g)'
             PROVE  (g \in stalled \/ \E o \in Ops : Activates(o, g))'
  BY DEF ApprovedIsActivated, Waits, Activates, EnoughApprovals
<1>1. /\ Waits(g) => g \in stalled \/ \E o \in Ops : Activates(o, g)
      /\ grant \in [Grants -> GrantType] /\ op \in [Ops -> OpType]
  BY DEF ApprovedIsActivated, Waits, Activates, EnoughApprovals, GrantsTypeOK, OpTypeOK
\* The requests that go on do not activate g.
<1>2. ASSUME Waits(g), stalled \subseteq stalled',
             \A o \in Ops : Activates(o, g) => op'[o] = op[o] \/ g \in stalled'
      PROVE  (g \in stalled \/ \E o \in Ops : Activates(o, g))'
  BY <1>1, <1>2 DEF Activates, Step
<1>3. ASSUME NEW o \in Ops, NEW to, op' = [op EXCEPT ![o] = to], ~Activates(o, g)
      PROVE  \A q \in Ops : Activates(q, g) => op'[q] = op[q]
  BY <1>1, <1>3
<1>4. ASSUME grant'[g] = grant[g] PROVE Waits(g)
  BY <1>4 DEF Waits, EnoughApprovals, Approvers
<1>5. ASSUME NEW h \in Grants, RequestGrant(h) PROVE g # h
  <2>1. PICK by \in Admins, n \in {1, 2} :
            grant' = [grant EXCEPT ![h] =
                [status |-> "pending", requestedBy |-> by, required |-> n,
                 approvals |-> << >>, expiresAt |-> 0]]
    BY <1>5 DEF RequestGrant
  <2>2. CASE g = h
    <3>1. grant'[g].approvals = << >> /\ grant'[g].required \in {1, 2}
      BY <1>1, <2>1, <2>2
    <3>2. Cardinality(Approvers(g)') = 0
      BY <3>1, FS_EmptySet DEF Approvers, Range
    <3> QED BY <3>1, <3>2 DEF Waits, EnoughApprovals
  <2> QED BY <2>2
<1>6. ASSUME NEW h \in Grants, RequestGrant(h) \/ ExpireDue(h)
      PROVE  (g \in stalled \/ \E o \in Ops : Activates(o, g))'
  <2>1. grant'[g] = grant[g]
    <3>1. CASE RequestGrant(h)
      BY <1>1, <1>5, <3>1 DEF RequestGrant
    <3>2. CASE ExpireDue(h)
      <4>1. grant' = [grant EXCEPT ![h].status = "expired"]
        BY <3>2 DEF ExpireDue
      <4> QED BY <1>1, <4>1 DEF Waits, GrantType
    <3> QED BY <1>6, <3>1, <3>2
  <2>2. UNCHANGED <<op, stalled>>
    BY <1>6 DEF RequestGrant, ExpireDue
  <2> QED BY <1>2, <1>4, <2>1, <2>2
<1>7. ASSUME NEW o \in Ops, ApproveWrites(o)
      PROVE  (g \in stalled \/ \E q \in Ops : Activates(q, g))'
  <2>1. PICK h \in {op[o].grant}, by \in {op[o].by} :
            \/ /\ grant' = [grant EXCEPT ![h].approvals = Append(@, by)]
               /\ IF Decided(h) THEN Goes(o, [op[o] EXCEPT !.step = "activate"])
                  ELSE Answers(o)
            \/ UNCHANGED grant /\ Answers(o)
    BY <1>7 DEF ApproveWrites
  <2>2. h \in Grants /\ Step(o, "approve", "write") /\ UNCHANGED stalled
    BY <1>7, <2>1 DEF ApproveWrites, Step, GrantsTypeOK, OpTypeOK
  <2>3. \E to : op' = [op EXCEPT ![o] = to]
    BY <2>1 DEF Answers, Goes
  <2>4. CASE grant'[g] = grant[g]
    <3>1. ~Activates(o, g)
      BY <2>2 DEF Activates, Step
    <3> QED BY <1>2, <1>3, <1>4, <2>2, <2>3, <2>4, <3>1
  <2>5. CASE grant'[g] # grant[g]
    <3>1. g = h /\ Decided(h)
      BY <1>1, <2>1, <2>2, <2>5 DEF Waits, Decided
    <3>2. op' = [op EXCEPT ![o] = [op[o] EXCEPT !.step = "activate"]]
      BY <1>1, <2>1, <2>5, <3>1 DEF Goes
    <3>3. Activates(o, g)'
      BY <1>1, <2>1, <2>2, <3>1, <3>2 DEF Activates, Step, OpType
    <3> QED BY <3>3
  <2> QED BY <2>4, <2>5
<1>8. ASSUME NEW o \in Ops, Activate(o)
      PROVE  (g \in stalled \/ \E q \in Ops : Activates(q, g))'
  <2> DEFINE h == op[o].grant
  <2>1. /\ UNCHANGED stalled /\ Step(o, "approve", "activate")
        /\ \E to : op' = [op EXCEPT ![o] = to]
    BY <1>8 DEF Activate, Answers, Invalidates, Goes
  <2>2. IF Waits(h) THEN grant' = [grant EXCEPT ![h].status = "active",
                                                ![h].expiresAt = op[o].at + Duration]
        ELSE UNCHANGED grant
    BY <1>8 DEF Activate, Waits
  <2>3. g # h
    <3>1. ASSUME g = h PROVE FALSE
      <4>1. Waits(h) => grant'[g].status = "active"
        BY <1>1, <2>2, <3>1 DEF GrantType
      <4>2. Waits(g)
        BY <1>4, <2>2, <4>1 DEF Waits
      <4> QED BY <3>1, <4>1, <4>2 DEF Waits
    <3> QED BY <3>1
  <2>4. grant'[g] = grant[g]
    BY <1>1, <2>2, <2>3
  <2>5. ~Activates(o, g)
    BY <2>3 DEF Activates
  <2> QED BY <1>2, <1>3, <1>4, <2>1, <2>4, <2>5
<1>9. ASSUME NEW o \in Ops, RejectWrites(o) \/ Revoke(o)
      PROVE  (g \in stalled \/ \E q \in Ops : Activates(q, g))'
  <2>1. /\ UNCHANGED stalled /\ ~Activates(o, g)
        /\ op' = op \/ \E to : op' = [op EXCEPT ![o] = to]
    BY <1>9 DEF RejectWrites, Revoke, Answers, Invalidates, Goes, Step, Activates, NoOp
  <2>2. grant'[g] = grant[g]
    <3>1. CASE RejectWrites(o)
      <4>1. grant' = [grant EXCEPT ![op[o].grant].status =
                          IF @ = "pending" THEN "rejected" ELSE @]
        BY <3>1 DEF RejectWrites
      <4> QED BY <1>1, <4>1 DEF Waits, GrantType
    <3>2. CASE Revoke(o)
      <4>1. PICK h \in Grants : grant' = [grant EXCEPT ![h].status = "revoked"]
        BY <3>2 DEF Revoke
      <4> QED BY <1>1, <4>1 DEF Waits, GrantType
    <3> QED BY <1>9, <3>1, <3>2
  <2> QED BY <1>2, <1>3, <1>4, <2>1, <2>2
<1>10. ASSUME NEW o \in Ops,
              Approve(o) \/ Reject(o) \/ Unassign(o) \/ Invalidate(o) \/ Fail(o)
       PROVE  (g \in stalled \/ \E q \in Ops : Activates(q, g))'
  <2>1. UNCHANGED grant /\ \E to : op' = [op EXCEPT ![o] = to]
    BY <1>10 DEF Approve, Reject, Begins, Unassign, Invalidate, Fail, Answers, Invalidates,
                 Goes
  <2>2. /\ stalled \subseteq stalled'
        /\ ~Activates(o, g) \/ g \in stalled'
    BY <1>10 DEF Approve, Reject, Begins, Unassign, Invalidate, Fail, Step, Activates, NoOp
  <2> QED BY <1>2, <1>3, <1>4, <2>1, <2>2
<1>11. CASE UNCHANGED <<grant, op, stalled>>
  BY <1>2, <1>4, <1>11
<1>12. \/ UNCHANGED <<grant, op, stalled>>
       \/ \E h \in Grants : RequestGrant(h) \/ ExpireDue(h)
       \/ \E o \in Ops : \/ ApproveWrites(o) \/ Activate(o) \/ RejectWrites(o) \/ Revoke(o)
                         \/ Approve(o) \/ Reject(o) \/ Unassign(o) \/ Invalidate(o)
                         \/ Fail(o)
  BY DEF Next, vars, adminVars, Tick, Deliver, Lose, Disconnect, Reconnect, Drop,
         QueryBegins, QueryReadsRoles, QueryReadsGrants, QueryEnds
<1> QED BY <1>6, <1>7, <1>8, <1>9, <1>10, <1>11, <1>12

\* A grant that has all its approvals is activated by the request that brought the
\* last one, unless that fails.
THEOREM AlwaysApprovedIsActivated == Spec => []ApprovedIsActivated
<1>1. Init => ApprovedIsActivated
  BY DEF Init, ApprovedIsActivated
<1> QED BY <1>1, GrantsAreApproved, ActivationStays, PTL DEF Spec

-----------------------------------------------------------------------------
(* What the caches know *)

\* What has been given stays given, or is taken away: it is not asked for anew.
LEMMA GivenStays ==
    ASSUME GrantsTypeOK, [Next]_vars, NEW s, WasGiven(s)
    PROVE  /\ WasGiven(s)'
           /\ s \in Grants => grant'[s].expiresAt = grant[s].expiresAt
<1> SUFFICES ASSUME s \in Grants
             PROVE  /\ grant'[s].status \in {"active", "expired", "revoked"}
                    /\ grant'[s].expiresAt = grant[s].expiresAt
  BY DEF WasGiven
<1>1. /\ grant \in [Grants -> GrantType]
      /\ grant[s].status \in {"active", "expired", "revoked"}
  BY DEF GrantsTypeOK, WasGiven
<1>2. ASSUME NEW g \in Grants, RequestGrant(g) \/ ExpireDue(g)
      PROVE  /\ grant'[s].status \in {"active", "expired", "revoked"}
             /\ grant'[s].expiresAt = grant[s].expiresAt
  <2>1. CASE RequestGrant(g)
    BY <1>1, <2>1 DEF RequestGrant
  <2>2. CASE ExpireDue(g)
    <3>1. grant' = [grant EXCEPT ![g].status = "expired"]
      BY <2>2 DEF ExpireDue
    <3> QED BY <1>1, <3>1 DEF GrantType
  <2> QED BY <1>2, <2>1, <2>2
<1>3. ASSUME NEW o \in Ops,
             ApproveWrites(o) \/ Activate(o) \/ RejectWrites(o) \/ Revoke(o)
      PROVE  /\ grant'[s].status \in {"active", "expired", "revoked"}
             /\ grant'[s].expiresAt = grant[s].expiresAt
  <2>1. CASE ApproveWrites(o)
    <3>1. PICK h \in {op[o].grant}, by \in {op[o].by} :
              \/ grant' = [grant EXCEPT ![h].approvals = Append(@, by)]
              \/ UNCHANGED grant
      BY <2>1 DEF ApproveWrites
    <3>2. /\ grant'[s].expiresAt = grant[s].expiresAt
          /\ grant'[s].status = grant[s].status
      <4>1. CASE grant'[s] = [grant[s] EXCEPT !.approvals = Append(grant[s].approvals, by)]
        BY <1>1, <4>1 DEF GrantType
      <4>2. CASE grant'[s] = grant[s]
        BY <4>2
      <4> QED BY <1>1, <3>1, <4>1, <4>2
    <3> QED BY <1>1, <3>2
  <2>2. CASE Activate(o)
    <3>1. \/ /\ grant[op[o].grant].status = "pending"
             /\ grant' = [grant EXCEPT ![op[o].grant].status = "active",
                                       ![op[o].grant].expiresAt = op[o].at + Duration]
          \/ UNCHANGED grant
      BY <2>2 DEF Activate
    <3> QED BY <1>1, <3>1
  <2>3. CASE RejectWrites(o)
    <3>1. grant' = [grant EXCEPT ![op[o].grant].status =
                        IF @ = "pending" THEN "rejected" ELSE @]
      BY <2>3 DEF RejectWrites
    <3>2. /\ grant'[s].expiresAt = grant[s].expiresAt
          /\ grant'[s].status = grant[s].status
      BY <1>1, <3>1 DEF GrantType
    <3> QED BY <1>1, <3>2
  <2>4. CASE Revoke(o)
    <3>1. PICK h \in Grants : grant' = [grant EXCEPT ![h].status = "revoked"]
      BY <2>4 DEF Revoke
    <3> QED BY <1>1, <3>1 DEF GrantType
  <2> QED BY <1>3, <2>1, <2>2, <2>3, <2>4
<1>4. \/ UNCHANGED grant \/ \E h \in Grants : RequestGrant(h) \/ ExpireDue(h)
      \/ \E o \in Ops : \/ ApproveWrites(o) \/ Activate(o) \/ RejectWrites(o) \/ Revoke(o)
  BY DEF Next, vars, adminVars, Tick, Approve, Reject, Begins, Unassign, Invalidate, Fail,
         Deliver, Lose, Disconnect, Reconnect, Drop, QueryBegins, QueryReadsRoles,
         QueryReadsGrants, QueryEnds
<1> QED BY <1>1, <1>2, <1>3, <1>4

\* A permission that was given ends by a revocation or with the role: the request that
\* ends it turns to the caches.
LEMMA EndsAreTold ==
    ASSUME GrantsTypeOK, [Next]_vars, NEW s \in Grants \cup {Role},
           WasGiven(s), ~Ended(s), Ended(s)'
    PROVE  /\ \E o \in Ops : op'[o].step = "invalidate"
           /\ endedAt'[s] = now
           /\ UNCHANGED <<now, cacheVars>>
<1> USE GrantsAssumption
<1>1. /\ grant \in [Grants -> GrantType] /\ op \in [Ops -> OpType]
      /\ endedAt \in [Grants \cup {Role} -> Nat]
  BY DEF GrantsTypeOK, OpTypeOK
<1>2. ASSUME NEW o \in Ops, Invalidates(o) PROVE op'[o].step = "invalidate"
  BY <1>1, <1>2 DEF Invalidates, Goes, NoOp
<1>3. CASE s = Role
  <2>1. PICK o \in Ops : Unassign(o)
    <3>0. roleHeld /\ ~roleHeld'
      BY <1>3 DEF Ended
    <3>1. roleHeld' # roleHeld
      BY <3>0, Zenon
    <3> QED BY <3>1 DEF Next, vars, adminVars, Tick, RequestGrant, ExpireDue, Approve, Reject,
         Begins, ApproveWrites, Activate, RejectWrites, Revoke, Invalidate, Fail, Deliver,
         Lose, Disconnect, Reconnect, Drop, QueryBegins, QueryReadsRoles, QueryReadsGrants,
         QueryEnds
  <2> QED BY <1>1, <1>2, <1>3, <2>1 DEF Unassign
<1>4. CASE s # Role
  <2>1. s \in Grants /\ grant[s].status \in {"active", "expired"} /\ grant'[s].status = "revoked"
    BY <1>4 DEF Ended, WasGiven
  <2>2. PICK o \in Ops : Revoke(o)
    <3>1. ASSUME NEW g \in Grants, RequestGrant(g) \/ ExpireDue(g) PROVE FALSE
      <4>1. CASE RequestGrant(g)
        BY <1>1, <2>1, <4>1 DEF RequestGrant
      <4>2. CASE ExpireDue(g)
        <5>1. grant' = [grant EXCEPT ![g].status = "expired"]
          BY <4>2 DEF ExpireDue
        <5> QED BY <1>1, <2>1, <5>1 DEF GrantType
      <4> QED BY <3>1, <4>1, <4>2
    <3>2. ASSUME NEW o \in Ops, ApproveWrites(o) \/ Activate(o) \/ RejectWrites(o)
          PROVE  FALSE
      <4>1. CASE ApproveWrites(o)
        <5>1. PICK h \in {op[o].grant}, by \in {op[o].by} :
                  \/ grant' = [grant EXCEPT ![h].approvals = Append(@, by)]
                  \/ UNCHANGED grant
          BY <4>1 DEF ApproveWrites
        <5> QED BY <1>1, <2>1, <5>1 DEF GrantType
      <4>2. CASE Activate(o)
        <5>1. \/ /\ grant[op[o].grant].status = "pending"
                 /\ grant' = [grant EXCEPT ![op[o].grant].status = "active",
                                           ![op[o].grant].expiresAt = op[o].at + Duration]
              \/ UNCHANGED grant
          BY <4>2 DEF Activate
        <5> QED BY <1>1, <2>1, <5>1
      <4>3. CASE RejectWrites(o)
        <5>1. grant' = [grant EXCEPT ![op[o].grant].status =
                            IF @ = "pending" THEN "rejected" ELSE @]
          BY <4>3 DEF RejectWrites
        <5> QED BY <1>1, <2>1, <5>1 DEF GrantType
      <4> QED BY <3>2, <4>1, <4>2, <4>3
    <3>3. grant' # grant
      BY <2>1
    <3> QED BY <3>1, <3>2, <3>3 DEF Next, vars, adminVars, Tick, Approve, Reject, Begins,
         Unassign, Invalidate, Fail, Deliver, Lose, Disconnect, Reconnect, Drop, QueryBegins,
         QueryReadsRoles, QueryReadsGrants, QueryEnds
  <2>3. PICK g \in Grants :
            /\ grant' = [grant EXCEPT ![g].status = "revoked"]
            /\ endedAt' = [endedAt EXCEPT ![g] = now]
            /\ IF grant[g].status = "active" THEN Invalidates(o) ELSE UNCHANGED op
            /\ grant[g].status \in {"pending", "active"}
    BY <2>2 DEF Revoke
  <2>4. g = s
    BY <1>1, <2>1, <2>3 DEF GrantType
  <2>5. UNCHANGED <<now, cacheVars>>
    BY <2>2 DEF Revoke
  <2> QED BY <1>1, <1>2, <2>1, <2>3, <2>4, <2>5
<1> QED BY <1>3, <1>4

\* An invalidation that has not reached a process goes on to be one that has not, or
\* reaches it and empties its cache.
LEMMA ExcuseStays ==
    ASSUME GrantsTypeOK, [Next]_vars, NEW p \in Procs, Excused(p)
    PROVE  \/ Excused(p)'
           \/ /\ cache'[p] = None /\ query' = query
              /\ query[p] = NoQuery \/ p \in advanced'
<1> USE GrantsAssumption
<1>1. op \in [Ops -> OpType]
  BY DEF GrantsTypeOK, OpTypeOK
<1>2. ASSUME NEW o \in Ops, Invalidate(o)
      PROVE  \/ Excused(p)'
             \/ /\ cache'[p] = None /\ query' = query
                /\ query[p] = NoQuery \/ p \in advanced'
  <2>1. PICK at \in Procs \cup {Elsewhere}, reached \in SUBSET Procs :
            /\ EmptiedIn({at} \cap Procs) /\ query' = query
            /\ mail' = mail \cup reached
            /\ uninformed' = (uninformed \cup ((Procs \ {at}) \ reached)) \ {at}
    BY <1>2 DEF Invalidate, GrantsTypeOK
  <2>2. CASE p = at
    BY <2>1, <2>2 DEF EmptiedIn
  <2>3. CASE p # at
    BY <2>1, <2>3 DEF Excused
  <2> QED BY <2>2, <2>3
<1>3. ASSUME NEW q \in Procs, Deliver(q)
      PROVE  \/ Excused(p)'
             \/ /\ cache'[p] = None /\ query' = query
                /\ query[p] = NoQuery \/ p \in advanced'
  BY <1>3 DEF Deliver, EmptiedIn, Excused, adminVars
<1>4. ASSUME NEW q \in Procs, Lose(q) \/ Disconnect(q) PROVE Excused(p)'
  BY <1>4 DEF Lose, Disconnect, Excused, adminVars
<1>5. ASSUME NEW o \in Ops, Fail(o) PROVE Excused(p)'
  <2>1. CASE op[o].step = "invalidate"
    BY <1>5, <2>1 DEF Fail, Excused
  <2>2. CASE op[o].step # "invalidate"
    BY <1>1, <1>5, <2>2 DEF Fail, Excused, Answers, Goes
  <2> QED BY <2>1, <2>2
<1>6. ASSUME NEW o \in Ops,
             \/ Approve(o) \/ ApproveWrites(o) \/ Activate(o) \/ Reject(o)
             \/ RejectWrites(o) \/ Revoke(o) \/ Unassign(o)
      PROVE  Excused(p)'
  <2>1. UNCHANGED <<mail, uninformed>> /\ op[o].step # "invalidate"
    BY <1>6 DEF Approve, ApproveWrites, Activate, Reject, RejectWrites, Revoke, Unassign,
                Begins, Step, NoOp, cacheVars
  <2>2. op' = op \/ \E to : op' = [op EXCEPT ![o] = to]
    BY <1>6 DEF Approve, ApproveWrites, Activate, Reject, RejectWrites, Revoke, Unassign,
                Begins, Invalidates, Answers, Goes
  <2> QED BY <1>1, <2>1, <2>2 DEF Excused
<1>7. CASE UNCHANGED <<op, mail, uninformed>>
  BY <1>7 DEF Excused
<1> QED BY <1>2, <1>3, <1>4, <1>5, <1>6, <1>7
        DEF Next, vars, adminVars, cacheVars, Tick, RequestGrant, ExpireDue, Reconnect, Drop,
            QueryBegins, QueryReadsRoles, QueryReadsGrants, QueryEnds

\* What a step does to the cache of a process and to the query under way in it.
LEMMA CacheMoves ==
    ASSUME GrantsTypeOK, [Next]_vars, NEW p \in Procs
    PROVE  \/ /\ cache'[p] \in {cache[p], None} /\ query'[p] = query[p]
              /\ p \in advanced => p \in advanced'
           \/ QueryBegins(p) \/ QueryReadsRoles(p) \/ QueryReadsGrants(p) \/ QueryEnds(p)
<1>1. cache \in [Procs -> EntryType \cup {None}] /\ query \in [Procs -> QueryType]
  BY DEF GrantsTypeOK, QueryTypeOK
<1>2. ASSUME NEW o \in Ops, Invalidate(o)
      PROVE  /\ cache'[p] \in {cache[p], None} /\ query'[p] = query[p]
             /\ p \in advanced => p \in advanced'
  BY <1>1, <1>2 DEF Invalidate, EmptiedIn
<1>3. ASSUME NEW q \in Procs, Deliver(q) \/ Drop(q)
      PROVE  /\ cache'[p] \in {cache[p], None} /\ query'[p] = query[p]
             /\ p \in advanced => p \in advanced'
  BY <1>1, <1>3 DEF Deliver, Drop, EmptiedIn
<1>4. ASSUME NEW q \in Procs \ {p},
             QueryBegins(q) \/ QueryReadsRoles(q) \/ QueryReadsGrants(q) \/ QueryEnds(q)
      PROVE  /\ cache'[p] \in {cache[p], None} /\ query'[p] = query[p]
             /\ p \in advanced => p \in advanced'
  BY <1>1, <1>4 DEF QueryBegins, QueryReadsRoles, QueryReadsGrants, QueryEnds
<1>5. CASE UNCHANGED <<cache, query, advanced>>
  BY <1>5
<1> QED BY <1>2, <1>3, <1>4, <1>5
        DEF Next, vars, adminVars, cacheVars, Tick, RequestGrant, ExpireDue, Approve, Reject,
            Begins, ApproveWrites, Activate, RejectWrites, Revoke, Unassign, Fail, Lose,
            Disconnect, Reconnect

\* What the caches know stays true.
LEMMA CacheStays == GrantsTypeOK /\ CacheInv /\ [Next]_vars => CacheInv'
<1> SUFFICES ASSUME GrantsTypeOK, CacheInv, [Next]_vars, NEW p \in Procs
             PROVE  CacheOK(p)'
  BY DEF CacheInv
<1> USE GrantsAssumption
<1>1. /\ CacheOK(p)
      /\ cache[p] # None => cache[p].codes \subseteq Grants \cup {Role}
      /\ query[p].codes \subseteq Grants \cup {Role}
  BY DEF CacheInv, GrantsTypeOK, QueryTypeOK, QueryType, EntryType, Codes
<1>2. CASE /\ cache'[p] \in {cache[p], None} /\ query'[p] = query[p]
           /\ p \in advanced => p \in advanced'
  <2>1. ASSUME cache'[p] # None, NEW s \in cache'[p].codes
        PROVE  WasGiven(s)' /\ (Ended(s)' => Excused(p)')
    <3>1. /\ cache'[p] = cache[p] /\ s \in Grants \cup {Role}
          /\ WasGiven(s) /\ (Ended(s) => Excused(p))
      BY <1>1, <1>2, <2>1 DEF CacheOK
    <3>2. WasGiven(s)'
      BY <3>1, GivenStays
    <3>3. CASE Ended(s)
      BY <2>1, <3>1, <3>2, <3>3, ExcuseStays
    <3>4. CASE ~Ended(s)
      BY <3>1, <3>2, <3>4, EndsAreTold DEF Excused
    <3> QED BY <3>3, <3>4
  <2>2. ASSUME NEW s \in query'[p].codes
        PROVE  WasGiven(s)' /\ (Ended(s)' => Excused(p)' \/ p \in advanced')
    <3>1. /\ s \in query[p].codes /\ s \in Grants \cup {Role}
          /\ WasGiven(s) /\ (Ended(s) => Excused(p) \/ p \in advanced)
      BY <1>1, <1>2, <2>2 DEF CacheOK
    <3>2. WasGiven(s)'
      BY <3>1, GivenStays
    <3>3. CASE Ended(s)
      <4>1. query[p] # NoQuery
        BY <3>1 DEF NoQuery
      <4> QED BY <1>2, <3>1, <3>2, <3>3, <4>1, ExcuseStays
    <3>4. CASE ~Ended(s)
      BY <3>1, <3>2, <3>4, EndsAreTold DEF Excused
    <3> QED BY <3>3, <3>4
  <2> QED BY <2>1, <2>2 DEF CacheOK
<1>3. CASE QueryBegins(p) \/ QueryReadsRoles(p) \/ QueryReadsGrants(p) \/ QueryEnds(p)
  <2>1. /\ UNCHANGED <<grant, roleHeld, op, mail, uninformed>>
        /\ query \in [Procs -> QueryType] /\ cache \in [Procs -> EntryType \cup {None}]
    BY <1>3 DEF QueryBegins, QueryReadsRoles, QueryReadsGrants, QueryEnds, adminVars,
                GrantsTypeOK, QueryTypeOK
  <2>2. /\ \A s : (WasGiven(s)' <=> WasGiven(s)) /\ (Ended(s)' <=> Ended(s))
        /\ Excused(p)' <=> Excused(p)
    BY <2>1 DEF WasGiven, Ended, Excused
  <2>3. CASE QueryBegins(p)
    <3>1. query'[p].codes = {} /\ UNCHANGED cache
      BY <2>1, <2>3 DEF QueryBegins
    <3> QED BY <1>1, <2>2, <3>1 DEF CacheOK
  <2>4. CASE QueryReadsRoles(p)
    <3>1. query'[p].codes = (IF roleHeld THEN {Role} ELSE {}) /\ UNCHANGED cache
      BY <2>1, <2>4 DEF QueryReadsRoles
    <3>2. \A s \in query'[p].codes : WasGiven(s) /\ ~Ended(s)
      BY <3>1 DEF WasGiven, Ended
    <3> QED BY <1>1, <2>2, <3>1, <3>2 DEF CacheOK
  <2>5. CASE QueryReadsGrants(p)
    <3>1. PICK live \in SUBSET Grants, end \in Nat :
              /\ query' = [query EXCEPT ![p] =
                     [step |-> "cache", at |-> query[p].at,
                      codes |-> query[p].codes \cup live, expiresAt |-> end]]
              /\ \A g \in live : grant[g].status = "active"
      BY <2>5, ReadGrants
    <3>2. /\ query'[p].codes = query[p].codes \cup live
          /\ UNCHANGED <<cache, advanced>>
      BY <2>1, <2>5, <3>1 DEF QueryReadsGrants
    <3>3. \A s \in live : WasGiven(s) /\ ~Ended(s)
      BY <3>1 DEF WasGiven, Ended
    <3> QED BY <1>1, <2>2, <3>2, <3>3 DEF CacheOK
  <2>6. CASE QueryEnds(p)
    <3>1. query'[p].codes = {}
      BY <2>1, <2>6 DEF QueryEnds, NoQuery
    <3>2. \/ cache'[p] = cache[p]
          \/ p \notin advanced /\ cache'[p].codes = query[p].codes
      BY <2>1, <2>6 DEF QueryEnds
    <3> QED BY <1>1, <2>2, <3>1, <3>2 DEF CacheOK
  <2> QED BY <1>3, <2>3, <2>4, <2>5, <2>6
<1> QED BY <1>2, <1>3, CacheMoves

\* What the caches know is always true.
THEOREM CachesKnow == Spec => [](GrantsTypeOK /\ CacheInv)
<1>1. Init => CacheInv
  BY DEF Init, CacheInv, CacheOK, NoQuery
<1> QED BY <1>1, InitTyped, TypesStay, CacheStays, PTL DEF Spec

\* A process answers from its cache with a permission that was taken away only as long
\* as it has not been told.
THEOREM AlwaysRevokedIsForgotten == Spec => []RevokedIsForgotten
<1>1. CacheInv => RevokedIsForgotten
  BY DEF CacheInv, CacheOK, RevokedIsForgotten, Excused, Fresh
<1> QED BY <1>1, CachesKnow, PTL

-----------------------------------------------------------------------------
(* For how long a cache is believed *)

\* What is kept was read before it was taken away, and not for longer than the grants
\* in it last; a query under way has found the earliest end of the grants it has read.
TimesOK(p) ==
    /\ cache[p] # None =>
           /\ cache[p].ttl <= TTL
           /\ \A s \in cache[p].codes :
                  /\ Ended(s) => cache[p].cachedAt <= endedAt[s]
                  /\ s \in Grants => cache[p].expireAt <= grant[s].expiresAt
           /\ cache[p].cachedAt <= now
    /\ query[p].at <= now
    /\ query[p].step = "cache" \/ query[p].codes \subseteq {Role}
    /\ \A s \in query[p].codes :
           /\ Ended(s) => query[p].at <= endedAt[s]
           /\ s \in Grants => query[p].expiresAt # 0 /\ query[p].expiresAt <= grant[s].expiresAt

TimesInv == \A p \in Procs : TimesOK(p)

\* The clock does not run back, and what has ended does not end again.
LEMMA EndStays ==
    ASSUME GrantsTypeOK, [Next]_vars, NEW s \in Grants \cup {Role}, Ended(s)
    PROVE  endedAt'[s] = endedAt[s]
<1> USE GrantsAssumption
<1>1. endedAt \in [Grants \cup {Role} -> Nat] /\ grant \in [Grants -> GrantType]
  BY DEF GrantsTypeOK
<1>2. ASSUME NEW o \in Ops, Revoke(o) PROVE endedAt'[s] = endedAt[s]
  <2>1. PICK g \in Grants : /\ grant[g].status \in {"pending", "active"}
                            /\ endedAt' = [endedAt EXCEPT ![g] = now]
    BY <1>2 DEF Revoke
  <2>2. g # s
    BY <2>1 DEF Ended
  <2> QED BY <1>1, <2>1, <2>2
<1>3. ASSUME NEW o \in Ops, Unassign(o) PROVE endedAt'[s] = endedAt[s]
  <2>1. s # Role
    BY <1>3 DEF Unassign, Ended
  <2> QED BY <1>1, <1>3, <2>1 DEF Unassign
<1> QED BY <1>2, <1>3
        DEF Next, vars, adminVars, cacheVars, Tick, RequestGrant, ExpireDue, Approve, Reject,
            Begins, ApproveWrites, Activate, RejectWrites, Invalidate, Fail, Deliver, Lose,
            Disconnect, Reconnect, Drop, QueryBegins, QueryReadsRoles, QueryReadsGrants,
            QueryEnds

\* The clock does not run back.
LEMMA ClockStays == ASSUME GrantsTypeOK, [Next]_vars PROVE now' \in Nat /\ now <= now'
<1>1. CASE Tick
  BY <1>1 DEF GrantsTypeOK, Tick
<1>2. CASE ~Tick
  <2>1. now' = now
    BY <1>2 DEF Next, vars, RequestGrant, ExpireDue, Approve, Reject, Begins, ApproveWrites,
       Activate, RejectWrites, Revoke, Unassign, Invalidate, Fail, Deliver, Lose, Disconnect,
       Reconnect, Drop, QueryBegins, QueryReadsRoles, QueryReadsGrants, QueryEnds
  <2> QED BY <2>1 DEF GrantsTypeOK
<1> QED BY <1>1, <1>2

\* What a query that ends leaves in the cache lasts no longer than the grants it has
\* found, and no longer than PERM_CACHE_TTL_MS.
LEMMA KeptTimes ==
    ASSUME GrantsTypeOK, NEW p \in Procs, query[p].at \in Nat, query[p].expiresAt \in Nat,
           query[p].expiresAt # 0 => query[p].at < query[p].expiresAt
    PROVE  LET ttl == EffectiveTTL(p, GrantBound(query[p].at, query[p].expiresAt))
           IN /\ ttl \in Nat /\ ttl <= TTL
              /\ query[p].expiresAt # 0 => query[p].at + ttl <= query[p].expiresAt
<1> USE GrantsAssumption
<1> DEFINE bound == GrantBound(query[p].at, query[p].expiresAt)
<1>1. /\ bound \in Nat /\ bound <= TTL
      /\ query[p].expiresAt # 0 => query[p].at + bound <= query[p].expiresAt
  BY DEF GrantBound, Lesser
<1> HIDE DEF bound
<1>2. EffectiveTTL(p, bound) \in Nat /\ EffectiveTTL(p, bound) <= bound
  BY <1>1 DEF EffectiveTTL, Lesser
<1>3. ASSUME query[p].expiresAt # 0
      PROVE  query[p].at + EffectiveTTL(p, bound) <= query[p].expiresAt
  BY <1>1, <1>2, <1>3
<1> QED BY <1>1, <1>2, <1>3 DEF bound

\* A permission that is kept is kept within its times after every step.
LEMMA TimesStay == GrantsTypeOK /\ CacheInv /\ TimesInv /\ [Next]_vars => TimesInv'
<1> SUFFICES ASSUME GrantsTypeOK, CacheInv, TimesInv, [Next]_vars, NEW p \in Procs
             PROVE  TimesOK(p)'
  BY DEF TimesInv
<1> USE GrantsAssumption
<1>1. /\ CacheOK(p) /\ TimesOK(p) /\ now \in Nat
      /\ cache[p] # None =>
             /\ cache[p].codes \subseteq Grants \cup {Role}
             /\ cache[p].cachedAt \in Nat /\ cache[p].expireAt \in Nat
      /\ query[p].codes \subseteq Grants \cup {Role} /\ query[p].at \in Nat
      /\ query[p].expiresAt \in Nat
  BY DEF CacheInv, TimesInv, GrantsTypeOK, QueryTypeOK, QueryType, EntryType, Codes
<1>2. now' \in Nat /\ now <= now'
  BY ClockStays
\* A time at which something given had not been taken away yet.
<1>3. ASSUME NEW s \in Grants \cup {Role}, WasGiven(s), NEW t \in Nat, t <= now,
             Ended(s) => t <= endedAt[s], Ended(s)'
      PROVE  t <= endedAt'[s]
  <2>1. CASE Ended(s)
    BY <1>3, <2>1, EndStays
  <2>2. CASE ~Ended(s)
    BY <1>3, <2>2, EndsAreTold
  <2> QED BY <2>1, <2>2
<1>4. CASE /\ cache'[p] \in {cache[p], None} /\ query'[p] = query[p]
           /\ p \in advanced => p \in advanced'
  <2>1. ASSUME cache'[p] # None
        PROVE  /\ cache'[p].ttl <= TTL /\ cache'[p].cachedAt <= now'
               /\ \A s \in cache'[p].codes :
                      /\ Ended(s)' => cache'[p].cachedAt <= endedAt'[s]
                      /\ s \in Grants => cache'[p].expireAt <= grant'[s].expiresAt
    <3>1. cache'[p] = cache[p]
      BY <1>4, <2>1
    <3>2. /\ cache[p].ttl <= TTL /\ cache[p].cachedAt <= now'
      BY <1>1, <1>2, <2>1, <3>1 DEF TimesOK
    <3>3. ASSUME NEW s \in cache[p].codes
          PROVE  /\ Ended(s)' => cache[p].cachedAt <= endedAt'[s]
                 /\ s \in Grants => cache[p].expireAt <= grant'[s].expiresAt
      <4>1. /\ s \in Grants \cup {Role} /\ WasGiven(s)
            /\ Ended(s) => cache[p].cachedAt <= endedAt[s]
            /\ s \in Grants => cache[p].expireAt <= grant[s].expiresAt
            /\ cache[p].cachedAt \in Nat /\ cache[p].cachedAt <= now
        BY <1>1, <2>1, <3>1, <3>3 DEF TimesOK, CacheOK
      <4> QED BY <1>3, <4>1, GivenStays
    <3> QED BY <3>1, <3>2, <3>3
  <2>2. ASSUME NEW s \in query[p].codes
        PROVE  /\ Ended(s)' => query[p].at <= endedAt'[s]
               /\ s \in Grants =>
                      query[p].expiresAt # 0 /\ query[p].expiresAt <= grant'[s].expiresAt
    <3>1. /\ s \in Grants \cup {Role} /\ WasGiven(s)
          /\ Ended(s) => query[p].at <= endedAt[s]
          /\ s \in Grants =>
                 query[p].expiresAt # 0 /\ query[p].expiresAt <= grant[s].expiresAt
          /\ query[p].at \in Nat /\ query[p].at <= now
      BY <1>1, <2>2 DEF TimesOK, CacheOK
    <3> QED BY <1>3, <3>1, GivenStays
  <2>3. /\ query[p].at <= now'
        /\ query[p].step = "cache" \/ query[p].codes \subseteq {Role}
    BY <1>1, <1>2 DEF TimesOK
  <2> QED BY <1>4, <2>1, <2>2, <2>3 DEF TimesOK
<1>5. CASE QueryBegins(p) \/ QueryReadsRoles(p) \/ QueryReadsGrants(p) \/ QueryEnds(p)
  <2>1. /\ UNCHANGED <<now, grant, roleHeld, endedAt>>
        /\ query \in [Procs -> QueryType] /\ cache \in [Procs -> EntryType \cup {None}]
    BY <1>5 DEF QueryBegins, QueryReadsRoles, QueryReadsGrants, QueryEnds, adminVars,
                GrantsTypeOK, QueryTypeOK
  <2>2. \A s : Ended(s)' <=> Ended(s)
    BY <2>1 DEF Ended
  <2>3. CASE QueryBegins(p)
    <3>1. /\ query'[p].codes = {} /\ query'[p].at = now /\ UNCHANGED cache
      BY <2>1, <2>3 DEF QueryBegins
    <3> QED BY <1>1, <2>1, <2>2, <3>1 DEF TimesOK
  <2>4. CASE QueryReadsRoles(p)
    <3>1. /\ query'[p].codes = (IF roleHeld THEN {Role} ELSE {}) /\ UNCHANGED cache
          /\ query'[p].at = query[p].at
      BY <2>1, <2>4 DEF QueryReadsRoles
    <3>2. \A s \in query'[p].codes : ~Ended(s) /\ s \notin Grants
      BY <3>1 DEF Ended
    <3> QED BY <1>1, <2>1, <2>2, <3>1, <3>2 DEF TimesOK
  <2>5. CASE QueryReadsGrants(p)
    <3>1. PICK live \in SUBSET Grants, end \in Nat :
              /\ query' = [query EXCEPT ![p] =
                     [step |-> "cache", at |-> query[p].at,
                      codes |-> query[p].codes \cup live, expiresAt |-> end]]
              /\ \A g \in live : /\ grant[g].status = "active"
                                  /\ end # 0 /\ end <= grant[g].expiresAt
      BY <2>5, ReadGrants
    <3>2. /\ query'[p].codes = query[p].codes \cup live /\ query'[p].step = "cache"
          /\ query'[p].at = query[p].at /\ query'[p].expiresAt = end
      BY <2>1, <3>1
    <3>3. query[p].codes \subseteq {Role} /\ UNCHANGED cache
      BY <1>1, <2>5 DEF TimesOK, QueryReadsGrants
    <3>4. ASSUME NEW s \in query'[p].codes
          PROVE  /\ Ended(s) => query'[p].at <= endedAt[s]
                 /\ s \in Grants =>
                        query'[p].expiresAt # 0 /\ query'[p].expiresAt <= grant[s].expiresAt
      <4>1. CASE s \in query[p].codes
        BY <1>1, <3>2, <3>3, <4>1 DEF TimesOK
      <4>2. CASE s \in live
        BY <3>1, <3>2, <4>2 DEF Ended
      <4> QED BY <3>2, <4>1, <4>2
    <3> QED BY <1>1, <2>1, <2>2, <3>2, <3>3, <3>4 DEF TimesOK
  <2>6. CASE QueryEnds(p)
    <3> DEFINE ttl == EffectiveTTL(p, GrantBound(query[p].at, query[p].expiresAt))
    <3>1. query'[p].codes = {} /\ query'[p].at = 0
      BY <2>1, <2>6 DEF QueryEnds, NoQuery
    <3>2. \/ cache'[p] = cache[p]
          \/ cache'[p] = [codes |-> query[p].codes, cachedAt |-> query[p].at,
                          ttl |-> ttl, expireAt |-> query[p].at + ttl]
      BY <2>1, <2>6 DEF QueryEnds
    <3>3. /\ ttl \in Nat /\ ttl <= TTL
          /\ query[p].expiresAt # 0 => query[p].at + ttl <= query[p].expiresAt
      BY <1>1, KeptTimes DEF GrantsTypeOK, QueryTypeOK
    <3> HIDE DEF ttl
    <3>4. CASE cache'[p] = cache[p]
      BY <1>1, <2>1, <2>2, <3>1, <3>4 DEF TimesOK
    <3>5. CASE cache'[p] = [codes |-> query[p].codes, cachedAt |-> query[p].at,
                            ttl |-> ttl, expireAt |-> query[p].at + ttl]
      <4>1. /\ cache'[p].codes = query[p].codes /\ cache'[p].cachedAt = query[p].at
            /\ cache'[p].ttl = ttl /\ cache'[p].expireAt = query[p].at + ttl
        BY <3>5
      <4>2. ASSUME NEW s \in query[p].codes, s \in Grants
            PROVE  query[p].at + ttl <= grant[s].expiresAt
        <5>1. query[p].expiresAt # 0 /\ query[p].expiresAt <= grant[s].expiresAt
          BY <1>1, <4>2 DEF TimesOK
        <5>2. grant[s].expiresAt \in Nat
          BY <4>2 DEF GrantsTypeOK, GrantType
        <5> QED BY <1>1, <3>3, <5>1, <5>2
      <4> QED BY <1>1, <2>1, <2>2, <3>1, <3>3, <4>1, <4>2 DEF TimesOK
    <3> QED BY <3>2, <3>4, <3>5
  <2> QED BY <1>5, <2>3, <2>4, <2>5, <2>6
<1> QED BY <1>4, <1>5, CacheMoves

\* Whatever is lost, no cache honours a permission for longer than its life time after
\* it was taken away, or a grant beyond its end.
THEOREM AlwaysStaleAllowEnds == Spec => []StaleAllowEnds
<1>1. Init => TimesInv
  BY GrantsAssumption DEF Init, TimesInv, TimesOK, NoQuery
<1>2. GrantsTypeOK /\ TimesInv => StaleAllowEnds
  <2> SUFFICES ASSUME GrantsTypeOK, TimesInv, NEW p \in Procs, Fresh(p),
                      NEW s \in cache[p].codes
               PROVE  /\ Ended(s) => now < endedAt[s] + EffectiveTTL(p, TTL)
                      /\ s \in Grants => now < grant[s].expiresAt
    BY DEF StaleAllowEnds
  <2> USE GrantsAssumption
  <2>1. /\ cache[p].ttl \in Nat /\ cache[p].cachedAt \in Nat /\ cache[p].expireAt \in Nat
        /\ now \in Nat /\ s \in Grants \cup {Role} /\ endedAt[s] \in Nat
        /\ s \in Grants => grant[s].expiresAt \in Nat
    BY DEF GrantsTypeOK, EntryType, Codes, Fresh, GrantType
  <2>2. /\ cache[p].ttl <= TTL
        /\ Ended(s) => cache[p].cachedAt <= endedAt[s]
        /\ s \in Grants => cache[p].expireAt <= grant[s].expiresAt
        /\ now < cache[p].expireAt
        /\ now < cache[p].cachedAt + EffectiveTTL(p, cache[p].ttl)
    BY DEF TimesInv, TimesOK, Fresh
  <2>3. /\ EffectiveTTL(p, cache[p].ttl) \in Nat /\ EffectiveTTL(p, TTL) \in Nat
        /\ EffectiveTTL(p, cache[p].ttl) <= EffectiveTTL(p, TTL)
    BY <2>1, <2>2 DEF EffectiveTTL, Lesser
  <2>4. Ended(s) => now < endedAt[s] + EffectiveTTL(p, TTL)
    BY <2>1, <2>2, <2>3
  <2>5. s \in Grants => now < grant[s].expiresAt
    BY <2>1, <2>2
  <2> QED BY <2>4, <2>5
<1> QED BY <1>1, <1>2, InitTyped, TypesStay, CachesKnow, TimesStay, PTL DEF Spec

=============================================================================
