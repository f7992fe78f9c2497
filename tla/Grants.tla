-------------------------------- MODULE Grants --------------------------------
(***************************************************************************)
(* Temporary grants of permissions to one user, and the caches in which    *)
(* the server processes keep what that user may do.                        *)
(*                                                                         *)
(* A grant is asked for by one administrator and approved by others.  An   *)
(* approval is three calls of the database: the grant is read, the         *)
(* approval is appended, and the last approval activates the grant.        *)
(* Whatever takes a permission away first writes to the database, then     *)
(* empties the cache of its own process, then tells the other processes,   *)
(* which may not hear of it.                                               *)
(*                                                                         *)
(* Times are units of one clock; 0 stands for a time that is not set.      *)
(***************************************************************************)
EXTENDS Naturals, Sequences, FiniteSets, Functions

CONSTANTS
    Grants,
    Admins,      \* who asks for grants and approves them: they hold the permissions
                 \* by their own roles
    Ops,         \* administrators' requests under way at a time
    Procs,       \* server processes whose cache is looked at
    Elsewhere,   \* stands for any other process
    TTL,         \* PERM_CACHE_TTL_MS
    DegradedTTL, \* PERM_CACHE_DEGRADED_TTL_MS
    Duration,    \* durationHours of a grant
    MaxTime,     \* bound: the clock
    Role,        \* stands for what the user may do by virtue of roles
    None

ASSUME GrantsAssumption ==
    /\ TTL \in Nat /\ DegradedTTL \in Nat /\ Duration \in Nat /\ MaxTime \in Nat
    /\ DegradedTTL <= TTL
    /\ Elsewhere \notin Procs /\ Role \notin Grants /\ None \notin Grants \cup Admins \cup Procs

VARIABLES
    now,
    grant,      \* the PrivilegeGrant documents
    roleHeld,   \* whether the user holds a permission by a role
    op,         \* administrators' requests
    connected,  \* processes whose connection to Redis is up
    mail,       \* processes an invalidation is on its way to
    advanced,   \* processes whose permCacheGeneration has advanced since the query under
                \* way there read it
    cache,      \* permCache.get(userId) of each process
    query,      \* getPermissions under way in each process
    endedAt,    \* when each grant, or the role, was taken away (history)
    uninformed, \* processes an invalidation has not reached and will not (history)
    stalled     \* grants whose activation failed (history)

adminVars == <<grant, roleHeld, op, endedAt, stalled>>
cacheVars == <<connected, mail, advanced, cache, query, uninformed>>
vars == <<now, adminVars, cacheVars>>

NoOp == [kind |-> "none", step |-> "none", by |-> None, grant |-> None, at |-> 0]
NoQuery == [step |-> "none", at |-> 0, codes |-> {}, expiresAt |-> 0]

Init ==
    /\ now = 1
    /\ grant = [g \in Grants |->
           [status |-> "none", requestedBy |-> None, required |-> 0, approvals |-> <<>>,
            expiresAt |-> 0]]
    /\ roleHeld = TRUE
    /\ op = [o \in Ops |-> NoOp]
    /\ connected = Procs /\ mail = {}
    /\ advanced = {}
    /\ cache = [p \in Procs |-> None] /\ query = [p \in Procs |-> NoQuery]
    /\ endedAt = [s \in Grants \cup {Role} |-> 0]
    /\ uninformed = {} /\ stalled = {}

Goes(o, to) == op' = [op EXCEPT ![o] = to]
Answers(o) == Goes(o, NoOp)
Step(o, kind, step) == op[o].kind = kind /\ op[o].step = step

-----------------------------------------------------------------------------
(* privilegeGrantService *)

\* requestGrant
RequestGrant(g) ==
    /\ grant[g].status = "none"
    /\ \E by \in Admins, n \in {1, 2} :
           grant' = [grant EXCEPT ![g] =
               [status |-> "pending", requestedBy |-> by, required |-> n, approvals |-> <<>>,
                expiresAt |-> 0]]
    /\ UNCHANGED <<now, roleHeld, op, endedAt, stalled, cacheVars>>

Approvers(g) == Range(grant[g].approvals)

\* assertApproverEligible
Eligible(g, by) ==
    grant[g].requestedBy # by /\ by \notin Approvers(g)

\* approveGrant and rejectGrant begin by reading the grant.
Begins(o, kind, at) ==
    /\ op[o] = NoOp
    /\ \E g \in Grants, by \in Admins :
           /\ grant[g].status # "none" /\ Eligible(g, by)
           /\ kind = "reject" => grant[g].status = "pending"
           /\ Goes(o, [kind |-> kind, step |-> "write", by |-> by, grant |-> g,
                       at |-> at])
    /\ UNCHANGED <<now, grant, roleHeld, endedAt, stalled, cacheVars>>

Approve(o) == Begins(o, "approve", now)
Reject(o) == Begins(o, "reject", 0)

\* What the request o does to the caches comes after its write.
Invalidates(o) == Goes(o, [NoOp EXCEPT !.kind = "change", !.step = "invalidate"])

AnyApproval(g) == Approvers(g) # {}
EnoughApprovals(g) == Cardinality(Approvers(g)) >= grant[g].required

\* Whether the approval is the last one is told by the grant as it is stored with it.
DecidedBefore(g) == EnoughApprovals(g)
Decided(g) == EnoughApprovals(g)'

\* The approval is appended if the stored grant is pending, was asked for by another
\* and does not bear it yet.
ApproveWrites(o) ==
    /\ Step(o, "approve", "write")
    /\ \E g \in {op[o].grant}, by \in {op[o].by} :
           IF grant[g].status = "pending" /\ grant[g].requestedBy # by
              /\ by \notin Approvers(g)
           THEN /\ grant' = [grant EXCEPT ![g].approvals = Append(@, by)]
                /\ IF Decided(g) THEN Goes(o, [op[o] EXCEPT !.step = "activate"])
                   ELSE Answers(o)
           ELSE UNCHANGED grant /\ Answers(o)
    /\ UNCHANGED <<now, roleHeld, endedAt, stalled, cacheVars>>

\* The last approval activates the grant, unless another one has done so, or it was
\* rejected or revoked in between.
Activate(o) ==
    /\ Step(o, "approve", "activate")
    /\ LET g == op[o].grant
       IN /\ IF grant[g].status = "pending" /\ EnoughApprovals(g)
             THEN grant' = [grant EXCEPT ![g].status = "active",
                                         ![g].expiresAt = op[o].at + Duration]
             ELSE UNCHANGED grant
          /\ IF grant'[g].status \in {"active", "expired"}
             THEN Invalidates(o)
             ELSE Answers(o)
    /\ UNCHANGED <<now, roleHeld, endedAt, stalled, cacheVars>>

RejectWrites(o) ==
    /\ Step(o, "reject", "write")
    /\ LET g == op[o].grant
       IN grant' = [grant EXCEPT ![g].status =
              IF @ = "pending" THEN "rejected" ELSE @]
    /\ Answers(o)
    /\ UNCHANGED <<now, roleHeld, endedAt, stalled, cacheVars>>

\* revokeGrant
Revoke(o) ==
    /\ op[o] = NoOp
    /\ \E g \in Grants :
           /\ grant[g].status \in {"pending", "active"}
           /\ grant' = [grant EXCEPT ![g].status = "revoked"]
           /\ endedAt' = [endedAt EXCEPT ![g] = now]
           /\ IF grant[g].status = "active" THEN Invalidates(o) ELSE UNCHANGED op
    /\ UNCHANGED <<now, roleHeld, stalled, cacheVars>>

\* expireDue, in a process of its own, which empties no cache
ExpireDue(g) ==
    /\ grant[g].status = "active" /\ grant[g].expiresAt <= now
    /\ grant' = [grant EXCEPT ![g].status = "expired"]
    /\ UNCHANGED <<now, roleHeld, op, endedAt, stalled, cacheVars>>

\* A role is taken from the user, or loses the permission (roleController).
Unassign(o) ==
    /\ op[o] = NoOp /\ roleHeld
    /\ roleHeld' = FALSE
    /\ endedAt' = [endedAt EXCEPT ![Role] = now]
    /\ Invalidates(o)
    /\ UNCHANGED <<now, grant, stalled, cacheVars>>

-----------------------------------------------------------------------------
(* userPermissionService *)

\* invalidatePermissionCacheLocal
DeletedIn(ps) ==
    /\ cache' = [p \in Procs |-> IF p \in ps THEN None ELSE cache[p]]
    /\ UNCHANGED advanced
EmptiedIn(ps) ==
    /\ advanced' = advanced \cup {p \in ps : query[p] # NoQuery}
    /\ cache' = [p \in Procs |-> IF p \in ps THEN None ELSE cache[p]]

\* invalidatePermissionCache: the process the request o is served by, then a message to
\* the others, which is not sent while Redis is away, and may fail. A request may be
\* served by a process other than Procs.
Invalidate(o) ==
    /\ op[o].step = "invalidate"
    /\ \E p \in Procs \cup {Elsewhere}, sent \in BOOLEAN :
       LET others == Procs \ {p}
           reached == IF sent THEN others \cap connected ELSE {}
       IN /\ sent => p \in connected \cup {Elsewhere}
          /\ EmptiedIn({p} \cap Procs)
          /\ mail' = mail \cup reached
          /\ uninformed' = (uninformed \cup (others \ reached)) \ {p}
    /\ Answers(o)
    /\ UNCHANGED <<now, grant, roleHeld, endedAt, stalled, connected, query>>

\* handleRemoteInvalidation
Deliver(p) ==
    /\ p \in mail
    /\ mail' = mail \ {p}
    /\ EmptiedIn({p})
    /\ uninformed' = uninformed \ {p}
    /\ UNCHANGED <<now, adminVars, connected, query>>

\* The connection breaks, and what was on its way is lost; it comes back.
Disconnect(p) ==
    /\ p \in connected
    /\ connected' = connected \ {p}
    /\ mail' = mail \ {p}
    /\ uninformed' = IF p \in mail THEN uninformed \cup {p} ELSE uninformed
    /\ UNCHANGED <<now, adminVars, advanced, cache, query>>

\* Redis keeps no message for a process that does not take it.
Lose(p) ==
    /\ p \in mail
    /\ mail' = mail \ {p}
    /\ uninformed' = uninformed \cup {p}
    /\ UNCHANGED <<now, adminVars, connected, advanced, cache, query>>

Reconnect(p) ==
    /\ p \notin connected
    /\ connected' = connected \cup {p}
    /\ UNCHANGED <<now, adminVars, mail, advanced, cache, query, uninformed>>

Lesser(a, b) == IF a <= b THEN a ELSE b

\* effectiveCacheTtlMs
EffectiveTTL(p, ttl) == IF p \in connected THEN ttl ELSE Lesser(ttl, DegradedTTL)

\* isEntryFresh
Fresh(p) ==
    /\ cache[p] # None
    /\ now < cache[p].expireAt
    /\ now < cache[p].cachedAt + EffectiveTTL(p, cache[p].ttl)

\* grantBoundTtlMs, with the earliest end of the grants that were read
Unbound(at, expiresAt) == TTL
GrantBound(at, expiresAt) ==
    IF expiresAt = 0 THEN TTL ELSE Lesser(TTL, expiresAt - at)

\* getPermissions: the generation is read, then the roles, then the grants.
QueryBegins(p) ==
    /\ query[p] = NoQuery /\ ~Fresh(p)
    /\ query' = [query EXCEPT ![p] =
           [step |-> "roles", at |-> now, codes |-> {}, expiresAt |-> 0]]
    /\ UNCHANGED <<now, adminVars, connected, mail, advanced, cache, uninformed>>

QueryReadsRoles(p) ==
    /\ query[p].step = "roles"
    /\ query' = [query EXCEPT ![p] =
           [step |-> "grants", at |-> @.at, codes |-> IF roleHeld THEN {Role} ELSE {},
            expiresAt |-> 0]]
    /\ UNCHANGED <<now, adminVars, connected, mail, advanced, cache, uninformed>>

\* activeGrantsForUsers
QueryReadsGrants(p) ==
    /\ query[p].step = "grants"
    /\ LET live == {g \in Grants :
                       grant[g].status = "active" /\ grant[g].expiresAt > query[p].at}
           ends == {grant[g].expiresAt : g \in live}
           earliest == IF ends = {} THEN 0 ELSE CHOOSE t \in ends : \A s \in ends : t <= s
       IN query' = [query EXCEPT ![p] =
              [step |-> "cache", at |-> @.at, codes |-> @.codes \cup live,
               expiresAt |-> earliest]]
    /\ UNCHANGED <<now, adminVars, connected, mail, advanced, cache, uninformed>>

\* The result is kept unless an invalidation has come since the query began.
QueryEnds(p) ==
    /\ query[p].step = "cache"
    /\ LET ttl == EffectiveTTL(p, GrantBound(query[p].at, query[p].expiresAt))
       IN cache' = IF p \in advanced THEN cache
                   ELSE [cache EXCEPT ![p] =
                            [codes |-> query[p].codes, cachedAt |-> query[p].at,
                             ttl |-> ttl, expireAt |-> query[p].at + ttl]]
    /\ query' = [query EXCEPT ![p] = NoQuery]
    /\ advanced' = advanced \ {p}
    /\ UNCHANGED <<now, adminVars, connected, mail, uninformed>>

\* The cache is full and emptied, or the clean-up finds an old entry, or the process
\* starts anew.
Drop(p) ==
    /\ cache[p] # None
    /\ cache' = [cache EXCEPT ![p] = None]
    /\ UNCHANGED <<now, adminVars, connected, mail, advanced, query, uninformed>>

-----------------------------------------------------------------------------
\* A request fails between two of its calls, or after a write whose answer was lost.
Fail(o) ==
    /\ op[o] # NoOp
    /\ stalled' = IF op[o].step = "activate" THEN stalled \cup {op[o].grant} ELSE stalled
    /\ uninformed' = IF op[o].step = "invalidate" THEN Procs ELSE uninformed
    /\ Answers(o)
    /\ UNCHANGED <<now, grant, roleHeld, endedAt, connected, mail, advanced,
                   cache, query>>

Tick ==
    /\ now < MaxTime
    /\ now' = now + 1
    /\ UNCHANGED <<adminVars, cacheVars>>

Next ==
    \/ Tick
    \/ \E g \in Grants : RequestGrant(g) \/ ExpireDue(g)
    \/ \E o \in Ops :
           \/ Approve(o) \/ ApproveWrites(o) \/ Activate(o) \/ Reject(o)
           \/ RejectWrites(o) \/ Revoke(o) \/ Unassign(o) \/ Invalidate(o) \/ Fail(o)
    \/ \E p \in Procs :
           \/ Deliver(p) \/ Lose(p) \/ Disconnect(p) \/ Reconnect(p) \/ Drop(p)
           \/ QueryBegins(p) \/ QueryReadsRoles(p) \/ QueryReadsGrants(p) \/ QueryEnds(p)

Spec == Init /\ [][Next]_vars

-----------------------------------------------------------------------------
(* Properties *)

GrantType ==
    [status : {"none", "pending", "active", "rejected", "revoked", "expired"},
     requestedBy : Admins \cup {None}, required : Nat, approvals : Seq(Admins),
     expiresAt : Nat]
OpType ==
    [kind : {"none", "approve", "reject", "change"},
     step : {"none", "write", "activate", "invalidate"},
     by : Admins \cup {None}, grant : Grants \cup {None}, at : Nat]
Codes == SUBSET (Grants \cup {Role})
QueryType ==
    [step : {"none", "roles", "grants", "cache"}, at : Nat, codes : Codes, expiresAt : Nat]
EntryType == [codes : Codes, cachedAt : Nat, ttl : Nat, expireAt : Nat]

\* A request that decides knows its grant and who it is of.
OpTypeOK ==
    /\ op \in [Ops -> OpType]
    /\ \A o \in Ops : op[o].step \in {"write", "activate"} =>
           op[o].grant \in Grants /\ op[o].by \in Admins

\* A query has found only grants whose end is to come.
QueryTypeOK ==
    /\ query \in [Procs -> QueryType]
    /\ \A p \in Procs : query[p].expiresAt # 0 => query[p].expiresAt > query[p].at

\* What each variable holds.
GrantsTypeOK ==
    /\ now \in Nat \ {0}
    /\ grant \in [Grants -> GrantType] /\ roleHeld \in BOOLEAN
    /\ OpTypeOK
    /\ connected \subseteq Procs /\ mail \subseteq Procs /\ advanced \subseteq Procs
    /\ uninformed \subseteq Procs
    /\ cache \in [Procs -> EntryType \cup {None}] /\ QueryTypeOK
    /\ endedAt \in [Grants \cup {Role} -> Nat] /\ stalled \subseteq Grants

\* A grant that is or was in force bears the approvals of as many different people as
\* it needs, and not that of who asked for it, whichever requests were interleaved.
ActiveWasApproved ==
    \A g \in Grants :
        /\ grant[g].status \in {"active", "expired"} =>
               Cardinality(Approvers(g)) >= grant[g].required
        /\ grant[g].requestedBy \notin Approvers(g)
        /\ Len(grant[g].approvals) = Cardinality(Approvers(g))

\* A grant that has all its approvals and is still pending is about to be activated,
\* or the request that was to activate it has failed.
ApprovedIsActivated ==
    \A g \in Grants :
        grant[g].status = "pending" /\ Cardinality(Approvers(g)) >= grant[g].required
            => \/ g \in stalled
               \/ \E o \in Ops : Step(o, "approve", "activate") /\ op[o].grant = g

Ended(s) == IF s = Role THEN ~roleHeld ELSE grant[s].status = "revoked"

\* A process still answers from its cache with a permission that was taken away only
\* as long as the invalidation has not reached it.
RevokedIsForgotten ==
    \A p \in Procs : Fresh(p) =>
        \A s \in cache[p].codes : Ended(s) =>
            \/ p \in uninformed \/ p \in mail
            \/ \E o \in Ops : op[o].step = "invalidate"

\* Whatever is lost, the cache of no process honours a permission for longer than
\* PERM_CACHE_TTL_MS after it was taken away, a process that knows it hears nothing for
\* longer than PERM_CACHE_DEGRADED_TTL_MS, or a grant beyond its end.
StaleAllowEnds ==
    \A p \in Procs : Fresh(p) =>
        \A s \in cache[p].codes :
            /\ Ended(s) => now < endedAt[s] + EffectiveTTL(p, TTL)
            /\ s \in Grants => now < grant[s].expiresAt
=============================================================================
