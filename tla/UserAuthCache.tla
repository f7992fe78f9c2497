---------------------------- MODULE UserAuthCache ----------------------------
(***************************************************************************)
(* The cache of one user's document in one server instance, which every    *)
(* authenticated request goes through (loadValidUser).                     *)
(*                                                                         *)
(* Whoever changes the user invalidates the cache of its own instance and  *)
(* tells the others by a broadcast; both run invalidateUserCacheLocal, and *)
(* both may be lost: a process dies, Redis is away.  An invalidation marks *)
(* the entry instead of removing it, so that a query that was already      *)
(* under way does not bring the old document back.                         *)
(*                                                                         *)
(* Times are milliseconds of one clock, Date.now(): several steps may fall *)
(* into the same one.  0 stands for an invalidatedAt that is null.         *)
(***************************************************************************)
EXTENDS Naturals

CONSTANTS
    Loads,      \* queries for the user that may be under way at a time
    UserTTL,    \* USER_CACHE_TTL
    MaxQuery,   \* how long a query takes at most (socketTimeoutMS)
    MaxVersion, \* bound: changes of the user
    Gone,       \* the version that stands for a deleted user
    MaxTime,    \* bound: the clock
    Void        \* no entry, no user

\* CacheEntry
EntryType == [user : Nat \cup {Void}, expireAt : Nat, loadedAt : Nat, invalidatedAt : Nat]

ASSUME UserAuthCacheAssumption ==
    /\ UserTTL \in Nat /\ MaxQuery \in Nat
    /\ MaxVersion \in Nat /\ MaxTime \in Nat
    /\ Void \notin Nat /\ Void \notin EntryType

VARIABLES
    now,        \* the clock
    doc,        \* version of the user in the database
    replacedAt, \* when each version was replaced
    pending,    \* versions whose invalidation has not reached this instance
    told,       \* the highest version whose invalidation has
    entry,      \* userCache.get(userId), or Void
    load,       \* each query under way: when it began, what it has read
    raced       \* which of the three races have happened (see below)

userCacheVars == <<now, doc, replacedAt, pending, told, entry, load, raced>>

EntryOf(user, expireAt, loadedAt, invalidatedAt) ==
    [user |-> user, expireAt |-> expireAt, loadedAt |-> loadedAt,
     invalidatedAt |-> invalidatedAt]

LoadOf(startedAt, user) == [startedAt |-> startedAt, user |-> user]
Idle == LoadOf(0, Void)

UserCacheInit ==
    /\ now = 1
    /\ doc = 0
    /\ replacedAt = [v \in 0 .. MaxVersion |-> 0]
    /\ pending = {}
    /\ told = 0
    /\ entry = Void
    /\ load = [q \in Loads |-> Idle]
    /\ raced = {}

Higher(a, b) == IF a >= b THEN a ELSE b

Race(kind, happens) == raced' = IF happens THEN raced \cup {kind} ELSE raced

-----------------------------------------------------------------------------
(* loadValidUser *)

\* The entry is returned as long as it lives, unless it was marked after it had
\* been loaded.
Alive == entry # Void /\ entry.expireAt > now
ServedForever ==
    entry # Void /\ (entry.invalidatedAt = 0 \/ entry.invalidatedAt <= entry.loadedAt)
Served == Alive /\ (entry.invalidatedAt = 0 \/ entry.invalidatedAt <= entry.loadedAt)

LoadBegins(q) ==
    /\ load[q] = Idle /\ ~Served
    /\ load' = [load EXCEPT ![q] = LoadOf(now, Void)]
    /\ UNCHANGED <<now, doc, replacedAt, pending, told, entry, raced>>

\* The database answers the query; the answer has yet to arrive.
Find(q) ==
    /\ load[q].startedAt # 0 /\ load[q].user = Void
    /\ load' = [load EXCEPT ![q] = LoadOf(load[q].startedAt, doc)]
    /\ UNCHANGED <<now, doc, replacedAt, pending, told, entry, raced>>

\* A query that began no later than the entry was marked may carry an older user.
MarkNeeded(others) ==
    /\ entry # Void /\ entry.invalidatedAt # 0
    /\ \E q \in others : load[q].startedAt \in 1 .. entry.invalidatedAt

InvalidatedSinceQuery(q) == entry # Void /\ entry.invalidatedAt > load[q].startedAt
InvalidatedDuringQuery(q) == entry # Void /\ entry.invalidatedAt >= load[q].startedAt

\* The answer goes into the cache.  A mark from before the query began is dropped
\* with the entry it was on: the first race, when a slower query is under way.
LoadEnds(q) ==
    /\ load[q].user # Void
    /\ entry' = IF load[q].user = Gone THEN Void
                ELSE IF InvalidatedDuringQuery(q)
                THEN EntryOf(load[q].user, now + UserTTL, 0, entry.invalidatedAt)
                ELSE EntryOf(load[q].user, now + UserTTL, now, 0)
    /\ LET dropped == entry' = Void \/ entry'.invalidatedAt = 0
       IN  Race("overtaken", MarkNeeded(Loads \ {q}) /\ dropped)
    /\ load' = [load EXCEPT ![q] = Idle]
    /\ UNCHANGED <<now, doc, replacedAt, pending, told>>

\* The query fails, and with it the request.
LoadFails(q) ==
    /\ load[q].startedAt # 0
    /\ load' = [load EXCEPT ![q] = Idle]
    /\ UNCHANGED <<now, doc, replacedAt, pending, told, entry, raced>>

-----------------------------------------------------------------------------
(* Changes and their invalidations *)

\* The user is disabled, locked, given other roles, its tokens are revoked...
Change ==
    /\ doc < MaxVersion
    /\ doc' = doc + 1
    /\ replacedAt' = [replacedAt EXCEPT ![doc] = now]
    /\ pending' = pending \cup {doc'}
    /\ UNCHANGED <<now, told, entry, load, raced>>

\* invalidateUserCacheLocal.  An entry that exists keeps the time it expires.
\* Without an entry one is left that is never served.
Marker == EntryOf(Void, now + UserTTL, 0, now)

MarkForgotten == entry
Marked == IF entry = Void THEN Marker 
          ELSE EntryOf(entry.user, entry.expireAt, entry.loadedAt, now)

\* The second race: the entry was loaded in this very millisecond, so that the
\* mark does not count as later.
Invalidate(v) ==
    /\ v \in pending
    /\ pending' = pending \ {v}
    /\ told' = Higher(told, v)
    /\ entry' = Marked
    /\ Race("same time", entry # Void /\ entry.loadedAt = now)
    /\ UNCHANGED <<now, doc, replacedAt, load>>

\* The process that made the change died before, or the broadcast was lost.
Lose(v) ==
    /\ v \in pending
    /\ pending' = pending \ {v}
    /\ UNCHANGED <<now, doc, replacedAt, told, entry, load, raced>>

\* The clean-up every 30 s takes an expired entry, and its mark; so does, at any
\* time, the insertion of another user into a full cache.  The third race, when a
\* query from before the mark is under way.
Drop ==
    /\ entry # Void
    /\ entry' = Void
    /\ Race("dropped", MarkNeeded(Loads))
    /\ UNCHANGED <<now, doc, replacedAt, pending, told, load>>

Tick ==
    /\ now < MaxTime
    /\ \A q \in Loads : load[q].startedAt # 0 => now < load[q].startedAt + MaxQuery
    /\ now' = now + 1
    /\ UNCHANGED <<doc, replacedAt, pending, told, entry, load, raced>>

UserCacheNext ==
    \/ \E q \in Loads : LoadBegins(q) \/ Find(q) \/ LoadEnds(q) \/ LoadFails(q)
    \/ Change \/ \E v \in pending : Invalidate(v) \/ Lose(v)
    \/ Drop \/ Tick

UserCacheSpec == UserCacheInit /\ [][UserCacheNext]_userCacheVars

-----------------------------------------------------------------------------
(* Properties *)

\* What each variable holds.  No version comes from the future, and an entry that
\* is served has a user.
UserAuthCacheTypeOK ==
    /\ now \in 1 .. MaxTime
    /\ doc \in 0 .. MaxVersion
    /\ replacedAt \in [0 .. MaxVersion -> 0 .. now]
    /\ pending \subseteq 1 .. doc
    /\ told \in 0 .. doc
    /\ entry # Void =>
          /\ entry.user \in (0 .. doc) \cup {Void}
          /\ entry.expireAt \in 0 .. now + UserTTL
          /\ entry.loadedAt \in 0 .. now
          /\ entry.invalidatedAt \in 0 .. now
          /\ Served => entry.user # Void
    /\ \A q \in Loads : /\ load[q].startedAt \in 0 .. now
                        /\ load[q].user \in (0 .. doc) \cup {Void}
    /\ raced \subseteq {"overtaken", "same time", "dropped"}

\* auth.js: whatever is lost and however the steps interleave, no request is
\* authenticated with a user that was replaced longer ago than an entry and the
\* query that filled it can last.
StaleEndsInTime ==
    Served /\ entry.user < doc => now < replacedAt[entry.user] + UserTTL + MaxQuery

\* An invalidation that has reached the instance is only undone by one of the three
\* races: none of them, no old user.
StaleNeedsARace == Served /\ entry.user < told => raced # {}

\* auth.js:69-70, userAuthCache.js:50: an invalidation is not overwritten by a later
\* update of the cache; a query that it fell into does not revive old data, as long
\* as no two steps share a millisecond and no mark is dropped with its entry.
InvalidationSticks ==
    raced \subseteq {"overtaken"} /\ Served => entry.user >= told
=============================================================================
