-------------------------- MODULE StaleReadsProofs --------------------------
(***************************************************************************)
(* Theorems about the three parts of the system in which what was read     *)
(* once is used later, after others may have changed it: UserAuthCache,    *)
(* the users, LiveSockets, the sessions and the connections that hang on   *)
(* them, and WorkOrders, the devices and users that alarms and plans refer *)
(* to.  They hold for any number of queries, sessions, connections,        *)
(* requests and documents.  The modules share no name, and a step of one   *)
(* is no step of another.                                                  *)
(*                                                                         *)
(* Users: as long as no race has happened, whatever is older than the last *)
(* invalidation is guarded by a mark: an entry by its own, the answer of a *)
(* query by the mark on the entry that it would replace (MarkInv).  The    *)
(* age of a version is bounded where it is read (AgeInv).                  *)
(*                                                                         *)
(* Sessions: a query that has found usable a session that is revoked by    *)
(* now is overtaken by a generation, or the revocation is still to empty   *)
(* the entry (FindingsHold).                                               *)
(*                                                                         *)
(* Alarms and plans: every reference to what is being removed is one that  *)
(* the removal has claimed or will still come to, or was written while the *)
(* removal was under way (RemovalInv).                                     *)
(***************************************************************************)
EXTENDS UserAuthCache, LiveSockets, WorkOrders, FiniteSetTheorems, TLAPS

-----------------------------------------------------------------------------
(* The users *)

\* The types, as far as the proofs need them.
LoadType  == [startedAt : Nat, user : Nat \cup {Void}]

TypeInv ==
    /\ now \in Nat \ {0} /\ doc \in 0 .. MaxVersion
    /\ replacedAt \in [0 .. MaxVersion -> Nat]
    /\ pending \subseteq 1 .. doc
    /\ told \in 0 .. doc
    /\ entry \in EntryType \cup {Void}
    /\ load \in [Loads -> LoadType]
    /\ \A q \in Loads : /\ load[q].startedAt <= now
                        /\ load[q].user # Void => /\ load[q].startedAt # 0
                                                  /\ load[q].user <= doc
    /\ entry # Void => /\ entry.invalidatedAt <= now /\ entry.loadedAt <= now
                       /\ entry.user # Void => entry.user <= doc
                       /\ entry.user = Void => entry.invalidatedAt > entry.loadedAt

MarkInv ==
    raced = {} =>
        /\ \A q \in Loads :
              load[q].user # Void /\ load[q].user < told
                 => entry # Void /\ entry.invalidatedAt >= load[q].startedAt
        /\ entry # Void /\ entry.user # Void /\ entry.user < told
              => entry.invalidatedAt > entry.loadedAt

AgeInv ==
    /\ \A q \in Loads :
          /\ load[q].startedAt # 0 => now <= load[q].startedAt + MaxQuery
          /\ load[q].user # Void /\ load[q].user < doc
                => load[q].startedAt <= replacedAt[load[q].user]
    /\ entry # Void /\ entry.user # Void =>
          /\ entry.user < doc
                => entry.expireAt <= replacedAt[entry.user] + UserTTL + MaxQuery
          /\ entry.user = doc => entry.expireAt <= now + UserTTL

Inv == TypeInv /\ MarkInv /\ AgeInv

-----------------------------------------------------------------------------
\* invalidateUserCacheLocal leaves an entry that carries the mark of now.
LEMMA MarkedEntry ==
    ASSUME TypeInv
    PROVE  /\ Marked \in EntryType
           /\ Marked.invalidatedAt = now /\ Marked.loadedAt <= now
           /\ Marked.user # Void => /\ Marked.user <= doc
                                    /\ entry # Void /\ Marked.loadedAt = entry.loadedAt
           /\ Marked.user = Void => now > Marked.loadedAt
<1> USE UserAuthCacheAssumption DEF TypeInv, EntryType
<1>1. CASE entry = Void
  <2>1. Marked = [user |-> Void, expireAt |-> now + UserTTL, loadedAt |-> 0,
                  invalidatedAt |-> now]
    BY <1>1 DEF Marked, Marker, EntryOf
  <2> QED
    BY <2>1
<1>2. CASE entry # Void
  <2>1. Marked = [user |-> entry.user, expireAt |-> entry.expireAt,
                  loadedAt |-> entry.loadedAt, invalidatedAt |-> now]
    BY <1>2 DEF Marked, EntryOf
  <2>2. entry \in EntryType
    BY <1>2
  <2>3. entry.user = Void => now > entry.loadedAt
    BY <1>2, <2>2
  <2> QED
    BY <1>2, <2>1, <2>2, <2>3
<1> QED
  BY <1>1, <1>2

\* Each invariant in turn, one step per action.
LEMMA TypeStep ==
    ASSUME TypeInv, [UserCacheNext]_userCacheVars
    PROVE  TypeInv'
<1> USE UserAuthCacheAssumption DEF TypeInv, EntryType, LoadType
<1>1. ASSUME NEW q \in Loads, LoadBegins(q)
      PROVE  TypeInv'
  BY <1>1 DEF LoadBegins, Idle, LoadOf
<1>2. ASSUME NEW q \in Loads, Find(q)
      PROVE  TypeInv'
  BY <1>2 DEF Find, LoadOf
<1>3. ASSUME NEW q \in Loads, LoadEnds(q)
      PROVE  TypeInv'
  BY <1>3 DEF LoadEnds, Idle, LoadOf, EntryOf, InvalidatedDuringQuery, MarkNeeded, Race
<1>4. ASSUME NEW q \in Loads, LoadFails(q)
      PROVE  TypeInv'
  BY <1>4 DEF LoadFails, Idle, LoadOf
<1>5. ASSUME Change
      PROVE  TypeInv'
  BY <1>5 DEF Change
<1>6. ASSUME NEW v \in pending, Invalidate(v)
      PROVE  TypeInv'
  <2>1. told' \in 0 .. doc /\ pending' \subseteq 1 .. doc
    <3>1. v \in 1 .. doc /\ doc \in Nat /\ told \in 0 .. doc
      OBVIOUS
    <3>2. told' = Higher(told, v)
      BY <1>6 DEF Invalidate
    <3>3. pending' = pending \ {v}
      BY <1>6 DEF Invalidate
    <3>4. told' \in 0 .. doc
      BY <3>1, <3>2 DEF Higher
    <3> QED
      BY <3>3, <3>4
  <2>2. UNCHANGED <<now, doc, replacedAt, load>>
    BY <1>6 DEF Invalidate
  <2>3. /\ entry' \in EntryType
        /\ entry'.invalidatedAt = now /\ entry'.loadedAt <= now
        /\ entry'.user # Void => entry'.user <= doc
        /\ entry'.user = Void => now > entry'.loadedAt
    BY <1>6, MarkedEntry DEF Invalidate
  <2> QED
    BY <2>1, <2>2, <2>3
<1>7. ASSUME NEW v \in pending, Lose(v)
      PROVE  TypeInv'
  BY <1>7 DEF Lose
<1>8. ASSUME Drop
      PROVE  TypeInv'
  BY <1>8 DEF Drop, MarkNeeded, Race
<1>9. ASSUME Tick
      PROVE  TypeInv'
  BY <1>9 DEF Tick
<1>10. CASE UNCHANGED userCacheVars
  BY <1>10 DEF userCacheVars
<1> QED
  BY <1>1, <1>2, <1>3, <1>4, <1>5, <1>6, <1>7, <1>8, <1>9, <1>10 DEF UserCacheNext

\* Marks guard what is old.
LEMMA MarkStep ==
    ASSUME TypeInv, MarkInv, [UserCacheNext]_userCacheVars
    PROVE  MarkInv'
<1> USE UserAuthCacheAssumption DEF TypeInv, MarkInv, EntryType, LoadType
<1>1. ASSUME NEW q \in Loads, LoadBegins(q)
      PROVE  MarkInv'
  BY <1>1 DEF LoadBegins, Idle, LoadOf
<1>2. ASSUME NEW q \in Loads, Find(q)
      PROVE  MarkInv'
  BY <1>2 DEF Find, LoadOf
<1>3. ASSUME NEW q \in Loads, LoadEnds(q)
      PROVE  MarkInv'
  <2>1. SUFFICES ASSUME raced' = {} PROVE MarkInv'
    BY DEF MarkInv
  <2>2. /\ raced = {}
        /\ MarkNeeded(Loads \ {q}) => entry' # Void /\ entry'.invalidatedAt # 0
    BY <1>3, <2>1 DEF LoadEnds, Race
  <2>3. /\ load'[q] = [startedAt |-> 0, user |-> Void]
        /\ \A t \in Loads \ {q} : load'[t] = load[t]
        /\ told' = told
    BY <1>3 DEF LoadEnds, Idle, LoadOf
  <2>4. load[q].user # Void /\ load[q].user \in Nat
    BY <1>3 DEF LoadEnds
  <2>5. \A t \in Loads \ {q} : load[t].user # Void /\ load[t].user < told =>
           /\ entry # Void /\ entry.invalidatedAt >= load[t].startedAt
           /\ MarkNeeded(Loads \ {q})
    <3>1. TAKE t \in Loads \ {q}
    <3>2. HAVE load[t].user # Void /\ load[t].user < told
    <3>3. entry # Void /\ entry.invalidatedAt >= load[t].startedAt
      BY <2>2, <3>2
    <3>4. load[t].startedAt \in 1 .. entry.invalidatedAt
      BY <3>2, <3>3
    <3> QED
      BY <3>3, <3>4 DEF MarkNeeded
  <2>6. CASE load[q].user = Gone
    <3>1. entry' = Void
      BY <1>3, <2>6 DEF LoadEnds
    <3>2. ~MarkNeeded(Loads \ {q})
      BY <2>2, <3>1
    <3>3. \A t \in Loads : ~(load'[t].user # Void /\ load'[t].user < told')
      <4>1. TAKE t \in Loads
      <4>2. CASE t = q
        <5>1. load'[t].user = Void
          BY <2>3, <4>2
        <5> QED
          BY <5>1
      <4>3. CASE t # q
        <5>1. load'[t] = load[t] /\ told' = told
          BY <2>3, <4>3
        <5>2. ~(load[t].user # Void /\ load[t].user < told)
          BY <2>5, <3>2, <4>3
        <5> QED
          BY <5>1, <5>2
      <4> QED
        BY <4>2, <4>3
    <3> QED
      BY <2>3, <3>1, <3>3
  <2>7. CASE load[q].user # Gone /\ InvalidatedDuringQuery(q)
    <3>1. entry' = [user |-> load[q].user, expireAt |-> now + UserTTL, loadedAt |-> 0,
                    invalidatedAt |-> entry.invalidatedAt]
      BY <1>3, <2>7 DEF LoadEnds, EntryOf
    <3>2. entry # Void /\ entry.invalidatedAt > 0 /\ entry' # Void
      <4>1. load[q].startedAt # 0
        BY <2>4
      <4>2. entry # Void /\ entry.invalidatedAt >= load[q].startedAt
        BY <2>7 DEF InvalidatedDuringQuery
      <4> QED
        BY <3>1, <4>1, <4>2
    <3> QED
      BY <2>2, <2>3, <2>5, <3>1, <3>2
  <2>8. CASE load[q].user # Gone /\ ~InvalidatedDuringQuery(q)
    <3>1. entry' = [user |-> load[q].user, expireAt |-> now + UserTTL, loadedAt |-> now,
                    invalidatedAt |-> 0]
      BY <1>3, <2>8 DEF LoadEnds, EntryOf
    <3>2. ~(load[q].user < told)
      BY <2>2, <2>4, <2>8 DEF InvalidatedDuringQuery
    <3>3. ~MarkNeeded(Loads \ {q})
      BY <2>2, <3>1
    <3>4. \A t \in Loads : ~(load'[t].user # Void /\ load'[t].user < told')
      <4>1. TAKE t \in Loads
      <4>2. CASE t = q
        <5>1. load'[t].user = Void
          BY <2>3, <4>2
        <5> QED
          BY <5>1
      <4>3. CASE t # q
        <5>1. load'[t] = load[t] /\ told' = told
          BY <2>3, <4>3
        <5>2. ~(load[t].user # Void /\ load[t].user < told)
          BY <2>5, <3>3, <4>3
        <5> QED
          BY <5>1, <5>2
      <4> QED
        BY <4>2, <4>3
    <3>5. entry'.user = load[q].user
      BY <3>1
    <3> QED
      BY <2>3, <3>2, <3>4, <3>5
  <2> QED
    BY <2>6, <2>7, <2>8
<1>4. ASSUME NEW q \in Loads, LoadFails(q)
      PROVE  MarkInv'
  BY <1>4 DEF LoadFails, Idle, LoadOf
<1>5. ASSUME Change
      PROVE  MarkInv'
  BY <1>5 DEF Change
<1>6. ASSUME NEW v \in pending, Invalidate(v)
      PROVE  MarkInv'
  <2>1. SUFFICES ASSUME raced' = {} PROVE MarkInv'
    BY DEF MarkInv
  <2>2. entry # Void => entry.loadedAt # now
    BY <1>6, <2>1 DEF Invalidate, Race
  <2>3. load' = load /\ now \in Nat /\ now # 0
    BY <1>6 DEF Invalidate
  <2>4. entry' # Void /\ entry'.invalidatedAt = now
    BY <1>6, MarkedEntry DEF Invalidate
  <2>5. entry'.user # Void => entry # Void /\ entry'.loadedAt = entry.loadedAt
    BY <1>6, MarkedEntry DEF Invalidate
  <2>6. entry # Void => entry.loadedAt < now
    BY <2>2
  <2> QED
    BY <2>3, <2>4, <2>5, <2>6
<1>7. ASSUME NEW v \in pending, Lose(v)
      PROVE  MarkInv'
  BY <1>7 DEF Lose
<1>8. ASSUME Drop
      PROVE  MarkInv'
  <2>1. SUFFICES ASSUME raced' = {} PROVE MarkInv'
    BY DEF MarkInv
  <2>2. raced = {} /\ ~MarkNeeded(Loads)
    BY <1>8, <2>1 DEF Drop, Race
  <2>3. entry' = Void /\ entry # Void /\ UNCHANGED <<load, told>>
    BY <1>8 DEF Drop
  <2>4. \A q \in Loads : ~(load[q].user # Void /\ load[q].user < told)
    <3>1. TAKE q \in Loads
    <3>2. SUFFICES ASSUME load[q].user # Void /\ load[q].user < told PROVE FALSE
      OBVIOUS
    <3>3. load[q].startedAt # 0 /\ entry.invalidatedAt >= load[q].startedAt
      BY <2>2, <3>2
    <3>4. load[q].startedAt \in 1 .. entry.invalidatedAt /\ entry.invalidatedAt # 0
      BY <2>3, <3>3
    <3> QED
      BY <2>2, <2>3, <3>4 DEF MarkNeeded
  <2> QED
    BY <2>3, <2>4
<1>9. ASSUME Tick
      PROVE  MarkInv'
  BY <1>9 DEF Tick
<1>10. CASE UNCHANGED userCacheVars
  BY <1>10 DEF userCacheVars
<1> QED
  BY <1>1, <1>2, <1>3, <1>4, <1>5, <1>6, <1>7, <1>8, <1>9, <1>10 DEF UserCacheNext

\* How old things can be.
LEMMA AgeStep ==
    ASSUME TypeInv, AgeInv, [UserCacheNext]_userCacheVars
    PROVE  AgeInv'
<1> USE UserAuthCacheAssumption DEF TypeInv, AgeInv, EntryType, LoadType
<1>1. ASSUME NEW q \in Loads, LoadBegins(q)
      PROVE  AgeInv'
  BY <1>1 DEF LoadBegins, Idle, LoadOf
<1>2. ASSUME NEW q \in Loads, Find(q)
      PROVE  AgeInv'
  BY <1>2 DEF Find, LoadOf
<1>3. ASSUME NEW q \in Loads, LoadEnds(q)
      PROVE  AgeInv'
  BY <1>3 DEF LoadEnds, Idle, LoadOf, EntryOf, InvalidatedDuringQuery, MarkNeeded, Race
<1>4. ASSUME NEW q \in Loads, LoadFails(q)
      PROVE  AgeInv'
  BY <1>4 DEF LoadFails, Idle, LoadOf
<1>5. ASSUME Change
      PROVE  AgeInv'
  <2>1. /\ doc' = doc + 1 /\ replacedAt'[doc] = now
        /\ \A v \in 0 .. MaxVersion : v # doc => replacedAt'[v] = replacedAt[v]
    BY <1>5 DEF Change
  <2>2. \A q \in Loads : load[q].user # Void =>
           load[q].startedAt <= replacedAt'[load[q].user] /\ load[q].user <= doc
    <3>1. TAKE q \in Loads
    <3>2. HAVE load[q].user # Void
    <3>3. load[q].user \in 0 .. MaxVersion /\ load[q].user <= doc
      BY <3>2
    <3>4. CASE load[q].user = doc
      BY <2>1, <3>3, <3>4
    <3>5. CASE load[q].user < doc
      BY <2>1, <3>2, <3>3, <3>5
    <3> QED
      BY <3>3, <3>4, <3>5
  <2>3. entry # Void /\ entry.user # Void =>
           /\ entry.expireAt <= replacedAt'[entry.user] + UserTTL + MaxQuery
           /\ entry.user <= doc
    <3>0. SUFFICES ASSUME entry # Void, entry.user # Void
                   PROVE  /\ entry.expireAt <= replacedAt'[entry.user] + UserTTL + MaxQuery
                          /\ entry.user <= doc
      OBVIOUS
    <3>1. /\ entry.user \in 0 .. MaxVersion /\ entry.user <= doc /\ entry.expireAt \in Nat
          /\ doc \in Nat /\ now \in Nat /\ replacedAt[entry.user] \in Nat
          /\ entry.user < doc => entry.expireAt <= replacedAt[entry.user] + UserTTL + MaxQuery
          /\ entry.user = doc => entry.expireAt <= now + UserTTL
      BY <3>0
    <3> HIDE DEF TypeInv, AgeInv, EntryType, LoadType
    <3>2. CASE entry.user < doc
      <4>1. replacedAt'[entry.user] = replacedAt[entry.user]
        BY <2>1, <3>1, <3>2
      <4> QED
        BY <3>1, <3>2, <4>1
    <3>3. CASE entry.user = doc
      <4>1. replacedAt'[entry.user] = now
        BY <2>1, <3>3
      <4> QED
        BY <3>1, <3>3, <4>1
    <3> QED
      BY <3>1, <3>2, <3>3
  <2> QED
    BY <1>5, <2>1, <2>2, <2>3 DEF Change
<1>6. ASSUME NEW v \in pending, Invalidate(v)
      PROVE  AgeInv'
  BY <1>6 DEF Invalidate, Marked, Marker, EntryOf, Higher, Race
<1>7. ASSUME NEW v \in pending, Lose(v)
      PROVE  AgeInv'
  BY <1>7 DEF Lose
<1>8. ASSUME Drop
      PROVE  AgeInv'
  BY <1>8 DEF Drop, MarkNeeded, Race
<1>9. ASSUME Tick
      PROVE  AgeInv'
  BY <1>9 DEF Tick
<1>10. CASE UNCHANGED userCacheVars
  BY <1>10 DEF userCacheVars
<1> QED
  BY <1>1, <1>2, <1>3, <1>4, <1>5, <1>6, <1>7, <1>8, <1>9, <1>10 DEF UserCacheNext

LEMMA InvariantHolds == UserCacheSpec => []Inv
<1>1. UserCacheInit => Inv
  BY UserAuthCacheAssumption
     DEF UserCacheInit, Inv, TypeInv, MarkInv, AgeInv, EntryType, LoadType, Idle, LoadOf
<1> QED
  BY <1>1, TypeStep, MarkStep, AgeStep, PTL DEF UserCacheSpec, Inv

-----------------------------------------------------------------------------
\* An old user is only served after one of the three races (loadValidUser,
\* invalidateUserCacheLocal).
THEOREM RacesAreAll == UserCacheSpec => []StaleNeedsARace
<1>1. Inv => StaleNeedsARace
  BY UserAuthCacheAssumption
     DEF Inv, TypeInv, MarkInv, EntryType, StaleNeedsARace, Served, Alive
<1> QED
  BY <1>1, InvariantHolds, PTL

\* Whatever is lost, a replaced user is served no longer than an entry and the
\* query that filled it can last (USER_CACHE_TTL, socketTimeoutMS).
THEOREM StalenessIsBounded == UserCacheSpec => []StaleEndsInTime
<1>1. Inv => StaleEndsInTime
  BY UserAuthCacheAssumption
     DEF Inv, TypeInv, AgeInv, EntryType, StaleEndsInTime, Served, Alive
<1> QED
  BY <1>1, InvariantHolds, PTL

-----------------------------------------------------------------------------
(* The sessions and connections *)

SessionType == [status : {"active", "revoked"}, over : BOOLEAN]
CallType ==
    [step : {"none", "user", "userRead", "query", "found"}, session : Sessions \cup {None},
     usable : BOOLEAN, active : BOOLEAN, role : BOOLEAN, advanced : BOOLEAN, joins : BOOLEAN]
SocketType ==
    [authenticated : BOOLEAN, session : Sessions \cup {None}, slot : BOOLEAN, room : BOOLEAN]

\* A handler under way is about a session.
CallOK ==
    /\ call \in [Callers -> CallType]
    /\ \A c \in Callers : call[c].step # "none" => call[c].session \in Sessions

\* A connection holds a slot until it is authenticated, with a session; and the slots and
\* the connections of the user are counted by it.
SocketInv ==
    /\ connected \subseteq Sockets /\ IsFiniteSet(connected)
    /\ socket \in [Sockets -> SocketType]
    /\ \A k \in connected :
           /\ socket[k].slot <=> ~socket[k].authenticated
           /\ socket[k].authenticated => socket[k].session \in Sessions
    /\ \A k \in userConnections : k \in connected /\ socket[k].authenticated
    /\ slots = Cardinality({k \in connected : socket[k].slot})

StoreOK ==
    /\ session \in [Sessions -> SessionType] /\ account \in [active : BOOLEAN, role : BOOLEAN]
    /\ cache \in [Sessions -> {None, "usable", "unusable"}]

Types == StoreOK /\ CallOK /\ SocketInv

\* Somebody has still to learn that the session is revoked, or nobody will.
Pending(s) == s \in revoking.sessions \cup mail \cup uninformed

\* A query that found a session usable, and whose finding will be kept, is right, or
\* the revocation has still to be learnt of.
FindingsHold ==
    \A c \in Callers :
        call[c].step = "found" /\ call[c].usable /\ ~call[c].advanced =>
            NotRevoked(call[c].session) \/ Pending(call[c].session)

-----------------------------------------------------------------------------
(* The sockets *)

\* The connections after some of them have been closed, whatever has changed of the
\* rooms of the others.
LEMMA ClosesKeep ==
    ASSUME SocketInv, NEW ks, NEW sk \in [Sockets -> SocketType], Closes(ks, sk),
           \A k \in connected : /\ sk[k].authenticated = socket[k].authenticated
                                /\ sk[k].slot = socket[k].slot
                                /\ sk[k].session = socket[k].session
    PROVE  SocketInv'
<1> DEFINE gone == ks \cap connected
           held == {k \in gone : sk[k].slot}
           Slotted == {k \in connected : socket[k].slot}
<1>1. /\ connected' = connected \ gone /\ slots' = slots - Cardinality(held)
      /\ userConnections' = userConnections \ {k \in gone : sk[k].authenticated}
      /\ socket' = [k \in Sockets |-> IF k \in gone THEN NoSocket ELSE sk[k]]
  BY DEF Closes
<1>2. connected' \subseteq Sockets /\ IsFiniteSet(connected')
  BY <1>1, FS_Difference DEF SocketInv
<1>3. socket' \in [Sockets -> SocketType]
  <2>1. NoSocket \in SocketType
    BY DEF NoSocket, SocketType
  <2> QED BY <1>1, <2>1
<1>4. \A k \in connected' : k \in connected /\ k \notin gone /\ socket'[k] = sk[k]
  BY <1>1 DEF SocketInv
<1>5. \A k \in connected' :
          /\ socket'[k].slot <=> ~socket'[k].authenticated
          /\ socket'[k].authenticated => socket'[k].session \in Sessions
  BY <1>4, Zenon DEF SocketInv
<1>6. \A k \in userConnections' : k \in connected' /\ socket'[k].authenticated
  <2> SUFFICES ASSUME NEW k \in userConnections' PROVE k \in connected' /\ socket'[k].authenticated
    OBVIOUS
  <2>1. k \in userConnections /\ k \in connected /\ socket[k].authenticated
    BY <1>1 DEF SocketInv
  <2>2. sk[k].authenticated
    BY <2>1, Zenon
  <2>3. k \in connected'
    BY <1>1, <2>1, <2>2
  <2> QED BY <1>4, <2>2, <2>3
<1>7. slots' = Cardinality({k \in connected' : socket'[k].slot})
  <2>1. held = Slotted \cap gone
    BY Zenon
  <2>2. {k \in connected' : socket'[k].slot} = Slotted \ gone
    <3>1. \A k \in connected' : socket'[k].slot <=> socket[k].slot
      BY <1>4, Zenon
    <3> QED BY <1>1, <1>4, <3>1
  <2>3. IsFiniteSet(Slotted)
    <3>1. Slotted \in SUBSET connected
      OBVIOUS
    <3> QED BY <3>1, FS_Subset DEF SocketInv
  <2>4. Cardinality(Slotted \ gone) = Cardinality(Slotted) - Cardinality(Slotted \cap gone)
    BY <2>3, FS_Difference
  <2> QED BY <1>1, <2>1, <2>2, <2>4 DEF SocketInv
<1> QED BY <1>2, <1>3, <1>5, <1>6, <1>7 DEF SocketInv

\* A connection that is closed, or none.
LEMMA ClosesSome == ASSUME SocketInv, NEW ks, Closes(ks, socket) PROVE SocketInv'
BY ClosesKeep DEF SocketInv

\* A connection that enters or leaves the room.
LEMMA RoomChanges ==
    ASSUME SocketInv, NEW k \in connected, NEW in \in BOOLEAN,
           socket' = [socket EXCEPT ![k].room = in],
           UNCHANGED <<connected, slots, userConnections>>
    PROVE  SocketInv'
<1>1. k \in Sockets /\ socket \in [Sockets -> SocketType]
  BY DEF SocketInv
<1>2. socket' \in [Sockets -> SocketType]
  BY <1>1 DEF SocketType
<1>3. ASSUME NEW j \in Sockets
      PROVE  /\ socket'[j].authenticated = socket[j].authenticated
             /\ socket'[j].slot = socket[j].slot /\ socket'[j].session = socket[j].session
  BY <1>1 DEF SocketType
<1>4. {j \in connected : socket'[j].slot} = {j \in connected : socket[j].slot}
  <2>1. \A j \in connected : socket'[j].slot <=> socket[j].slot
    BY <1>3, Zenon DEF SocketInv
  <2> QED BY <2>1
<1>5. \A j \in connected :
           /\ socket'[j].slot <=> ~socket'[j].authenticated
           /\ socket'[j].authenticated => socket'[j].session \in Sessions
  BY <1>3, Zenon DEF SocketInv
<1>6. \A j \in userConnections : j \in connected /\ socket'[j].authenticated
  BY <1>3, Zenon DEF SocketInv
<1> QED BY <1>2, <1>4, <1>5, <1>6 DEF SocketInv

\* A connection that is admitted takes a slot.
LEMMA ConnectTakes == ASSUME SocketInv, NEW k \in Sockets, Connect(k) PROVE SocketInv'
<1>1. /\ k \notin connected /\ connected' = connected \cup {k} /\ slots' = slots + 1
      /\ socket' = [socket EXCEPT ![k] = [NoSocket EXCEPT !.slot = TRUE]]
      /\ UNCHANGED userConnections
  BY DEF Connect
<1> DEFINE new == [NoSocket EXCEPT !.slot = TRUE]
           Slotted == {j \in connected : socket[j].slot}
<1>2. new \in SocketType /\ new.slot /\ ~new.authenticated
  BY DEF NoSocket, SocketType
<1> HIDE DEF new
<1>3. /\ socket' \in [Sockets -> SocketType] /\ socket'[k] = new
      /\ \A j \in Sockets \ {k} : socket'[j] = socket[j]
  BY <1>1, <1>2 DEF new, SocketInv
<1>4. \A j \in connected : j # k /\ j \in Sockets /\ socket'[j] = socket[j]
  BY <1>1, <1>3 DEF SocketInv
<1>5. connected' \subseteq Sockets /\ IsFiniteSet(connected')
  BY <1>1, FS_AddElement DEF SocketInv
<1>6. \A j \in connected' :
           /\ socket'[j].slot <=> ~socket'[j].authenticated
           /\ socket'[j].authenticated => socket'[j].session \in Sessions
  BY <1>1, <1>2, <1>3, <1>4 DEF SocketInv
<1>7. \A j \in userConnections' : j \in connected' /\ socket'[j].authenticated
  BY <1>1, <1>4 DEF SocketInv
<1>8. {j \in connected' : socket'[j].slot} = Slotted \cup {k}
  BY <1>1, <1>2, <1>3, <1>4
<1>9. IsFiniteSet(Slotted)
  <2>1. Slotted \in SUBSET connected
    OBVIOUS
  <2> QED BY <2>1, FS_Subset DEF SocketInv
<1>10. Cardinality(Slotted \cup {k}) = Cardinality(Slotted) + 1
  BY <1>1, <1>9, FS_AddElement
<1> QED BY <1>1, <1>3, <1>5, <1>6, <1>7, <1>8, <1>10 DEF SocketInv

\* A connection that is authenticated gives its slot back.
LEMMA BindsRelease ==
    ASSUME SocketInv, CallOK, NEW k \in Sockets, call[k].step # "none", Binds(k)
    PROVE  SocketInv'
<1>1. CASE k \notin connected
  BY <1>1 DEF Binds, StillConnected, SocketInv, socketVars
<1>2. CASE k \in connected
  <2>1. /\ slots' = slots - (IF socket[k].slot THEN 1 ELSE 0)
        /\ socket' = [socket EXCEPT ![k] =
               [Release(k) EXCEPT !.authenticated = TRUE, !.session = call[k].session]]
        /\ userConnections' = userConnections \cup {k} /\ UNCHANGED connected
    BY <1>2 DEF Binds, StillConnected
  <2> DEFINE new == [Release(k) EXCEPT !.authenticated = TRUE, !.session = call[k].session]
             Slotted == {j \in connected : socket[j].slot}
  <2>2. call[k].session \in Sessions
    BY DEF CallOK, Callers
  <2>3. new \in SocketType /\ ~new.slot /\ new.authenticated /\ new.session \in Sessions
    BY <2>2 DEF Release, SocketInv, SocketType
  <2> HIDE DEF new
  <2>4. /\ socket' \in [Sockets -> SocketType] /\ socket'[k] = new
        /\ \A j \in Sockets \ {k} : socket'[j] = socket[j]
    BY <2>1, <2>3 DEF new, SocketInv
  <2>5. \A j \in connected \ {k} : socket'[j] = socket[j]
    BY <2>4 DEF SocketInv
  <2>6. \A j \in connected' :
             /\ socket'[j].slot <=> ~socket'[j].authenticated
             /\ socket'[j].authenticated => socket'[j].session \in Sessions
    BY <2>1, <2>3, <2>4, <2>5 DEF SocketInv
  <2>7. \A j \in userConnections' : j \in connected' /\ socket'[j].authenticated
    BY <1>2, <2>1, <2>3, <2>4, <2>5 DEF SocketInv
  <2>8. {j \in connected' : socket'[j].slot} = Slotted \ {k}
    BY <2>1, <2>3, <2>4, <2>5
  <2>9. IsFiniteSet(Slotted)
    <3>1. Slotted \in SUBSET connected
      OBVIOUS
    <3> QED BY <3>1, FS_Subset DEF SocketInv
  <2>10. Cardinality(Slotted \ {k}) = Cardinality(Slotted) - (IF socket[k].slot THEN 1 ELSE 0)
    <3>1. k \in Slotted <=> socket[k].slot
      BY <1>2
    <3>2. Cardinality(Slotted) \in Nat
      BY <2>9, FS_CardinalityType
    <3>3. Cardinality(Slotted \ {k}) =
              IF k \in Slotted THEN Cardinality(Slotted) - 1 ELSE Cardinality(Slotted)
      BY <2>9, FS_RemoveElement
    <3> HIDE DEF Slotted
    <3> QED BY <3>1, <3>2, <3>3
  <2> QED BY <2>1, <2>4, <2>6, <2>7, <2>8, <2>10 DEF SocketInv
<1> QED BY <1>1, <1>2

-----------------------------------------------------------------------------
(* The handlers under way *)

\* One handler goes on, or ends.
LEMMA CallMoves ==
    ASSUME CallOK, NEW c \in Callers, NEW to \in CallType,
           to.step # "none" => to.session \in Sessions, call' = [call EXCEPT ![c] = to]
    PROVE  CallOK'
BY DEF CallOK

LEMMA CallEnds ==
    ASSUME CallOK, NEW c \in Callers, call' = [call EXCEPT ![c] = NoCall] PROVE CallOK'
<1>1. NoCall \in CallType /\ NoCall.step = "none"
  BY DEF NoCall, CallType
<1> HIDE DEF NoCall
<1> QED BY <1>1, CallMoves

\* What asking for a session makes of a handler.
LEMMA Asking ==
    ASSUME CallOK, NEW c \in Callers, NEW s \in Sessions
    PROVE  Asks(c, s) \in CallType /\ Asks(c, s).step = "query" /\ Asks(c, s).session = s
<1>1. call[c] \in CallType
  BY DEF CallOK
<1>2. call[c].active \in BOOLEAN /\ call[c].role \in BOOLEAN /\ call[c].joins \in BOOLEAN
  BY <1>1 DEF CallType
<1> QED BY <1>2 DEF Asks, NoCall, CallType

\* Dropping entries of the cache changes no handler but for the generation.
LEMMA InvalidationKeepsCalls ==
    ASSUME CallOK, NEW ss, Invalidates(ss)
    PROVE  /\ CallOK'
           /\ \A c \in Callers : /\ call'[c].step = call[c].step /\ call'[c].advanced
                                 /\ call'[c].session = call[c].session
<1>1. ASSUME NEW c \in Callers
      PROVE  /\ call'[c] \in CallType
             /\ call'[c].step = call[c].step /\ call'[c].advanced
             /\ call'[c].session = call[c].session
  <2>1. call'[c] = [call[c] EXCEPT !.advanced = TRUE] /\ call[c] \in CallType
    BY DEF Invalidates, CallOK
  <2> QED BY <2>1 DEF CallType
<1>2. call' = [c \in Callers |-> call'[c]]
  BY DEF Invalidates
<1> QED BY <1>1, <1>2 DEF CallOK

-----------------------------------------------------------------------------
(* What the steps do to what is stored, and to what has still to be learnt *)

\* Void is revoked and nothing learnt.
NothingLearnt ==
    /\ \A s \in Sessions : NotRevoked(s)' = NotRevoked(s)
    /\ UNCHANGED <<revoking, mail, uninformed>>

\* A step of Connect, JoinRoom, ReadUser, ReadSession, CallFails and HttpAsks.
LEMMA HandlersMove ==
    ASSUME Types, NEW c \in Callers,
           \/ c \in Sockets /\ (Connect(c) \/ JoinRoom(c) \/ ReadUser(c))
           \/ ReadSession(c) \/ CallFails(c)
           \/ c = Http /\ \E s \in Sessions : HttpAsks(s)
    PROVE  /\ Types' /\ NothingLearnt /\ UNCHANGED cache
           /\ \A d \in Callers \ {c} : call'[d] = call[d]
           /\ call'[c].step = "found" /\ call'[c].usable => NotRevoked(call'[c].session)
<1>1. /\ call \in [Callers -> CallType] /\ call[c] \in CallType
      /\ account.active \in BOOLEAN /\ account.role \in BOOLEAN
  BY DEF Types, CallOK, StoreOK
<1>2. UNCHANGED <<session, account, cache, revoking, mail, uninformed>>
  BY DEF Connect, JoinRoom, ReadUser, ReadSession, CallFails, HttpAsks, storeVars, cacheVars
<1>3. StoreOK' /\ NothingLearnt
  BY <1>2 DEF Types, StoreOK, NothingLearnt, NotRevoked
<1> SUFFICES /\ CallOK' /\ SocketInv'
             /\ \A d \in Callers \ {c} : call'[d] = call[d]
             /\ call'[c].step = "found" /\ call'[c].usable => NotRevoked(call'[c].session)
  BY <1>2, <1>3 DEF Types, NotRevoked
<1>4. CASE c \in Sockets /\ Connect(c)
  <2>1. PICK s \in Sessions :
            call' = [call EXCEPT ![c] = [NoCall EXCEPT !.step = "user", !.session = s]]
    BY <1>4 DEF Connect
  <2> DEFINE to == [NoCall EXCEPT !.step = "user", !.session = s]
  <2>2. to \in CallType /\ to.step = "user" /\ to.session = s
    BY DEF NoCall, CallType
  <2> HIDE DEF to
  <2>3. call' = [call EXCEPT ![c] = to]
    BY <2>1 DEF to
  <2> QED BY <1>1, <1>4, <2>2, <2>3, CallMoves, ConnectTakes DEF Types
<1>5. CASE c \in Sockets /\ JoinRoom(c)
  <2> DEFINE to == [NoCall EXCEPT !.step = "user", !.joins = TRUE, !.session = socket[c].session]
  <2>1. socket[c].session \in Sessions
    BY <1>5 DEF JoinRoom, Types, SocketInv
  <2>2. to \in CallType /\ to.step = "user" /\ to.session = socket[c].session
    BY <2>1 DEF NoCall, CallType
  <2>3. call' = [call EXCEPT ![c] = to]
    BY <1>5 DEF JoinRoom
  <2> HIDE DEF to
  <2>4. SocketInv'
    BY <1>5 DEF JoinRoom, socketVars, Types, SocketInv
  <2> QED BY <1>1, <2>1, <2>2, <2>3, <2>4, CallMoves DEF Types
<1>6. CASE c \in Sockets /\ ReadUser(c)
  <2> DEFINE to == [call[c] EXCEPT !.step = "userRead", !.role = account.role,
                                   !.active = account.active]
  <2>1. to \in CallType /\ to.step = "userRead" /\ to.session = call[c].session
    BY <1>1 DEF CallType
  <2>2. call' = [call EXCEPT ![c] = to] /\ call[c].step = "user"
    BY <1>6 DEF ReadUser
  <2> HIDE DEF to
  <2>3. call[c].session \in Sessions
    BY <2>2 DEF Types, CallOK
  <2>4. SocketInv'
    BY <1>6 DEF ReadUser, socketVars, Types, SocketInv
  <2> QED BY <1>1, <2>1, <2>2, <2>3, <2>4, CallMoves DEF Types
<1>7. CASE ReadSession(c)
  <2>1. call[c].session \in Sessions
    BY <1>7 DEF ReadSession, Types, CallOK
  <2> DEFINE found == IsUsable(call[c].session)
             to == [call[c] EXCEPT !.step = "found", !.usable = found]
  <2>2. found \in BOOLEAN
    BY DEF IsUsable
  <2>3. found => NotRevoked(call[c].session)
    BY DEF IsUsable
  <2>4. call' = [call EXCEPT ![c] = to]
    BY <1>1, <1>7 DEF ReadSession
  <2> HIDE DEF found
  <2>5. /\ to \in CallType /\ to.step = "found" /\ to.session = call[c].session
        /\ to.usable = found
    BY <1>1, <2>2 DEF CallType
  <2> HIDE DEF to
  <2>6. SocketInv'
    BY <1>7 DEF ReadSession, socketVars, Types, SocketInv
  <2>7. CallOK'
    BY <2>1, <2>4, <2>5, CallMoves DEF Types
  <2>8. call'[c] = to /\ \A d \in Callers \ {c} : call'[d] = call[d]
    BY <1>1, <2>4
  <2> QED BY <2>3, <2>5, <2>6, <2>7, <2>8, Zenon
<1>8. CASE CallFails(c)
  <2>1. call' = [call EXCEPT ![c] = NoCall] /\ NoCall.step = "none"
    BY <1>8 DEF CallFails, NoCall
  <2>2. SocketInv'
    BY <1>8, ClosesSome DEF CallFails, socketVars, Types, SocketInv
  <2> HIDE DEF NoCall
  <2> QED BY <1>1, <2>1, <2>2, CallEnds DEF Types
<1>9. CASE c = Http /\ \E s \in Sessions : HttpAsks(s)
  <2>1. PICK s \in Sessions : HttpAsks(s)
    BY <1>9
  <2>2. call' = [call EXCEPT ![c] = Asks(c, s)]
    BY <1>9, <2>1 DEF HttpAsks
  <2>3. SocketInv'
    BY <2>1 DEF HttpAsks, socketVars, Types, SocketInv
  <2>4. CallOK'
    BY <2>2, Asking, CallMoves DEF Types
  <2>5. call'[c] = Asks(c, s) /\ \A d \in Callers \ {c} : call'[d] = call[d]
    BY <1>1, <2>2
  <2>6. Asks(c, s).step = "query"
    BY Asking DEF Types
  <2> QED BY <2>3, <2>4, <2>5, <2>6
<1> QED BY <1>4, <1>5, <1>6, <1>7, <1>8, <1>9

\* What a handshake or the joining of a room makes of the sockets.
LEMMA ConcludesKeep ==
    ASSUME Types, NEW k \in Sockets, NEW usable, call[k].step # "none", Concludes(k, usable)
    PROVE  SocketInv'
<1>1. CASE ~usable \/ ~call[k].active
  BY <1>1, ClosesSome DEF Concludes, Types
<1>2. CASE usable /\ call[k].active /\ call[k].joins
  <2>1. Joins(k)
    BY <1>2 DEF Concludes
  <2>2. CASE k \in connected
    <3>1. call[k].role \in BOOLEAN
      BY DEF Types, CallOK, CallType, Callers
    <3> DEFINE in == call[k].role
    <3>2. socket' = [socket EXCEPT ![k].room = in] /\ in \in BOOLEAN
      BY <2>1, <2>2, <3>1 DEF Joins
    <3> HIDE DEF in
    <3> QED BY <2>1, <2>2, <3>2, RoomChanges DEF Joins, Types
  <2>3. CASE k \notin connected
    BY <2>1, <2>3 DEF Joins, Types, SocketInv
  <2> QED BY <2>2, <2>3
<1>3. CASE usable /\ call[k].active /\ ~call[k].joins
  BY <1>3, BindsRelease DEF Concludes, Types
<1> QED BY <1>1, <1>2, <1>3

\* A handler that answers leaves a verdict in the cache, if any, that it has found.
LEMMA HandlersAnswer ==
    ASSUME Types, FindingsHold, NEW c \in Callers,
           \/ c \in Sockets /\ (UserAnswers(c) \/ SessionAnswers(c))
           \/ c = Http /\ HttpAnswers
    PROVE  /\ Types' /\ NothingLearnt
           /\ \A d \in Callers : call'[d].step = "found" => call'[d] = call[d]
           /\ \A s \in Sessions : cache'[s] = "usable" =>
                  cache[s] = "usable" \/ NotRevoked(s) \/ Pending(s)
<1>1. /\ call \in [Callers -> CallType] /\ cache \in [Sessions -> {None, "usable", "unusable"}]
  BY DEF Types, CallOK, StoreOK
<1>2. /\ UNCHANGED <<session, account, revoking, mail, uninformed>> /\ NothingLearnt
  BY DEF UserAnswers, SessionAnswers, HttpAnswers, storeVars, cacheVars, NothingLearnt, NotRevoked
<1>3. call[c].session \in Sessions /\ call[c].step # "none"
  BY DEF UserAnswers, SessionAnswers, HttpAnswers, Types, CallOK
<1>4. SocketInv'
  <2>1. CASE c \in Sockets /\ (UserAnswers(c) \/ SessionAnswers(c))
    <3>1. UNCHANGED socketVars \/ \E usable : Concludes(c, usable)
      BY <2>1 DEF UserAnswers, SessionAnswers
    <3> QED BY <1>3, <2>1, <3>1, ConcludesKeep DEF socketVars, Types, SocketInv
  <2>2. CASE HttpAnswers
    BY <2>2 DEF HttpAnswers, socketVars, Types, SocketInv
  <2> QED BY <2>1, <2>2
<1>5. CallOK' /\ \A d \in Callers : call'[d].step = "found" => call'[d] = call[d]
  <2>1. CASE call' = [call EXCEPT ![c] = NoCall]
    <3>1. NoCall.step # "found"
      BY DEF NoCall
    <3> HIDE DEF NoCall
    <3> QED BY <1>1, <2>1, <3>1, CallEnds DEF Types
  <2>2. CASE call' = [call EXCEPT ![c] = Asks(c, call[c].session)]
    <3>1. /\ Asks(c, call[c].session) \in CallType /\ Asks(c, call[c].session).step = "query"
          /\ Asks(c, call[c].session).session \in Sessions
      BY <1>3, Asking DEF Types
    <3> DEFINE to == Asks(c, call[c].session)
    <3> HIDE DEF to
    <3>2. to \in CallType /\ to.step = "query" /\ to.session \in Sessions
      BY <3>1 DEF to
    <3>3. call' = [call EXCEPT ![c] = to]
      BY <2>2 DEF to
    <3> QED BY <1>1, <3>2, <3>3, CallMoves DEF Types
  <2> QED BY <2>1, <2>2 DEF UserAnswers, SessionAnswers, HttpAnswers
<1>6. /\ cache' \in [Sessions -> {None, "usable", "unusable"}]
      /\ \A s \in Sessions : cache'[s] = "usable" =>
             cache[s] = "usable" \/ NotRevoked(s) \/ Pending(s)
  <2>1. CASE cache' = cache
    BY <1>1, <2>1
  <2>2. CASE cache' # cache
    <3>1. /\ call[c].step = "found" /\ ~call[c].advanced
          /\ cache' = [cache EXCEPT ![call[c].session] =
                 IF call[c].usable THEN "usable" ELSE "unusable"]
      BY <2>2 DEF UserAnswers, SessionAnswers, HttpAnswers, Keeps, cacheVars
    <3>2. call[c].usable => NotRevoked(call[c].session) \/ Pending(call[c].session)
      BY <3>1 DEF FindingsHold
    <3>3. ASSUME NEW s \in Sessions, cache'[s] = "usable"
          PROVE  cache[s] = "usable" \/ NotRevoked(s) \/ Pending(s)
      <4>1. CASE s # call[c].session
        BY <1>1, <3>1, <3>3, <4>1
      <4>2. CASE s = call[c].session
        <5>1. call[c].usable
          BY <1>1, <3>1, <3>3, <4>2
        <5> QED BY <3>2, <4>2, <5>1
      <4> QED BY <4>1, <4>2
    <3> QED BY <1>1, <3>1, <3>3
  <2> QED BY <2>1, <2>2
<1>7. StoreOK'
  BY <1>2, <1>6 DEF Types, StoreOK
<1> QED BY <1>2, <1>4, <1>5, <1>6, <1>7 DEF Types

\* Dropping all entries that somebody waits for.
LEMMA InvalidationTells ==
    ASSUME Types, FindingsHold, RevokedIsRefused, NEW ss, Invalidates(ss), SocketInv',
           UNCHANGED <<session, account, uninformed>>,
           \A s \in Sessions \ ss : Pending(s) => Pending(s)'
    PROVE  Types' /\ FindingsHold' /\ RevokedIsRefused'
<1>1. CallOK' /\ \A c \in Callers : call'[c].advanced
  BY InvalidationKeepsCalls DEF Types
<1>2. /\ cache' \in [Sessions -> {None, "usable", "unusable"}]
      /\ \A s \in Sessions : cache'[s] = "usable" => s \notin ss /\ cache[s] = "usable"
  <2>1. cache' = [s \in Sessions |-> IF s \in ss THEN None ELSE cache[s]]
    BY DEF Invalidates
  <2> QED BY <2>1, LiveSocketsAssumption DEF Types, StoreOK
<1>3. RevokedIsRefused'
  BY <1>2 DEF RevokedIsRefused, NotRevoked, Pending
<1> QED BY <1>1, <1>2, <1>3 DEF Types, StoreOK, FindingsHold

-----------------------------------------------------------------------------
(* The steps *)

\* Some sessions are revoked, and somebody has to learn of it, or nobody will.
LEMMA Revoking ==
    ASSUME Types, FindingsHold, RevokedIsRefused, NEW ss, Revoked(ss),
           \A s \in Sessions : s \in ss \/ Pending(s) => Pending(s)',
           UNCHANGED <<account, cache, call, socketVars>>
    PROVE  Types' /\ FindingsHold' /\ RevokedIsRefused'
<1>1. /\ session' \in [Sessions -> SessionType]
      /\ \A s \in Sessions \ ss : NotRevoked(s)' = NotRevoked(s)
  <2>1. \A s \in Sessions : session'[s] = IF s \in ss THEN [session[s] EXCEPT !.status = "revoked"]
                                          ELSE session[s]
    BY DEF Revoked
  <2>2. session' = [s \in Sessions |-> session'[s]]
    BY DEF Revoked
  <2>3. ASSUME NEW s \in Sessions PROVE session'[s] \in SessionType
    <3>1. session[s] \in SessionType
      BY DEF Types, StoreOK
    <3>2. session'[s] = [session[s] EXCEPT !.status = "revoked"] \/ session'[s] = session[s]
      BY <2>1
    <3> QED BY <3>1, <3>2 DEF SessionType
  <2> QED BY <2>1, <2>2, <2>3 DEF NotRevoked
<1>2. Types'
  BY <1>1 DEF Types, StoreOK, CallOK, SocketInv, socketVars
<1>3. ASSUME NEW s \in Sessions, NotRevoked(s) \/ Pending(s) PROVE NotRevoked(s)' \/ Pending(s)'
  BY <1>1, <1>3
<1>4. RevokedIsRefused'
  BY <1>3 DEF RevokedIsRefused, Pending
<1>5. FindingsHold'
  <2> SUFFICES ASSUME NEW c \in Callers, call[c].step = "found", call[c].usable, ~call[c].advanced
               PROVE  NotRevoked(call[c].session)' \/ Pending(call[c].session)'
    BY DEF FindingsHold, NotRevoked, Pending
  <2>1. call[c].session \in Sessions
    BY DEF Types, CallOK
  <2>2. NotRevoked(call[c].session) \/ Pending(call[c].session)
    BY DEF FindingsHold
  <2> QED BY <1>3, <2>1, <2>2
<1> QED BY <1>2, <1>4, <1>5

\* A step that neither revokes nor learns, and leaves what handlers have found alone.
LEMMA NothingRevoked ==
    ASSUME Types, FindingsHold, RevokedIsRefused, Types', NothingLearnt,
           \A c \in Callers : call'[c].step = "found" =>
               call'[c] = call[c] \/ (call'[c].usable => NotRevoked(call'[c].session)),
           \A s \in Sessions : cache'[s] = "usable" =>
               cache[s] = "usable" \/ NotRevoked(s) \/ Pending(s)
    PROVE  FindingsHold' /\ RevokedIsRefused'
<1>1. ASSUME NEW s \in Sessions, NotRevoked(s) \/ Pending(s) PROVE NotRevoked(s)' \/ Pending(s)'
  BY <1>1, Zenon DEF NothingLearnt, Pending
<1>2. RevokedIsRefused'
  <2> SUFFICES ASSUME NEW s \in Sessions, cache'[s] = "usable"
               PROVE  NotRevoked(s)' \/ Pending(s)'
    BY DEF RevokedIsRefused, Pending
  <2>1. NotRevoked(s) \/ Pending(s)
    BY DEF RevokedIsRefused, Pending
  <2> QED BY <1>1, <2>1
<1>3. FindingsHold'
  <2> SUFFICES ASSUME NEW c \in Callers, call'[c].step = "found", call'[c].usable,
                      ~call'[c].advanced, NEW s \in Sessions, s = call'[c].session
               PROVE  NotRevoked(s)' \/ Pending(s)'
    BY DEF FindingsHold, NotRevoked, Pending, Types, CallOK
  <2>1. NotRevoked(s) \/ Pending(s)
    BY Zenon DEF FindingsHold
  <2> QED BY <1>1, <2>1
<1> QED BY <1>2, <1>3

\* A step of the connections or of the sweep.
LEMMA SocketsMove ==
    ASSUME Types, FindingsHold, RevokedIsRefused, SocketInv',
           UNCHANGED <<storeVars, cacheVars, call>>
    PROVE  Types' /\ FindingsHold' /\ RevokedIsRefused'
<1>1. Types' /\ NothingLearnt
  BY DEF Types, StoreOK, CallOK, NothingLearnt, NotRevoked, storeVars, cacheVars
<1> QED BY <1>1, NothingRevoked DEF cacheVars

\* No step breaks the invariant.
LEMMA InvStays ==
    Types /\ FindingsHold /\ RevokedIsRefused /\ [Next]_vars =>
        Types' /\ FindingsHold' /\ RevokedIsRefused'
<1> SUFFICES ASSUME Types, FindingsHold, RevokedIsRefused, [Next]_vars
             PROVE  Types' /\ FindingsHold' /\ RevokedIsRefused'
  OBVIOUS
<1>1. CASE Revoke
  <2>1. PICK ss \in SUBSET Sessions, all \in BOOLEAN :
            /\ Revoked(ss) /\ revoking = NoRevocation
            /\ \/ /\ revoking' = [step |-> "marked", sessions |-> ss, all |-> all]
                  /\ UNCHANGED uninformed
               \/ uninformed' = uninformed \cup ss /\ UNCHANGED revoking
    BY <1>1 DEF Revoke
  <2>2. UNCHANGED <<account, mail, cache, call, socketVars>>
    BY <1>1 DEF Revoke
  <2>3. \A s \in Sessions : s \in ss \/ Pending(s) => Pending(s)'
    BY <2>1, <2>2 DEF Pending, NoRevocation
  <2> QED BY <2>1, <2>2, <2>3, Revoking
<1>2. CASE RevokeElsewhere
  <2>1. PICK ss \in SUBSET Sessions :
            /\ Revoked(ss)
            /\ \/ mail' = mail \cup ss /\ UNCHANGED uninformed
               \/ uninformed' = uninformed \cup ss /\ UNCHANGED mail
    BY <1>2 DEF RevokeElsewhere
  <2>2. UNCHANGED <<account, revoking, cache, call, socketVars>>
    BY <1>2 DEF RevokeElsewhere
  <2>3. \A s \in Sessions : s \in ss \/ Pending(s) => Pending(s)'
    BY <2>1, <2>2 DEF Pending
  <2> QED BY <2>1, <2>2, <2>3, Revoking
<1>3. CASE RevokeEnds
  <2>1. PICK ss \in {revoking.sessions, Sessions} : Invalidates(ss)
    BY <1>3 DEF RevokeEnds
  <2>2. /\ UNCHANGED <<session, account, mail, uninformed>>
        /\ revoking' = NoRevocation /\ \E ks : Closes(ks, socket)
    BY <1>3 DEF RevokeEnds, storeVars
  <2>3. SocketInv'
    BY <2>2, ClosesSome DEF Types
  <2>4. \A s \in Sessions \ ss : Pending(s) => Pending(s)'
    BY <2>1, <2>2 DEF Pending
  <2> QED BY <2>1, <2>2, <2>3, <2>4, InvalidationTells
<1>4. ASSUME NEW s \in Sessions, Hear(s) PROVE Types' /\ FindingsHold' /\ RevokedIsRefused'
  <2>1. /\ Invalidates({s}) /\ mail' = mail \ {s}
        /\ UNCHANGED <<session, account, revoking, uninformed, socketVars>>
    BY <1>4 DEF Hear, storeVars
  <2>2. SocketInv'
    BY <2>1 DEF socketVars, Types, SocketInv
  <2>3. \A t \in Sessions \ {s} : Pending(t) => Pending(t)'
    BY <2>1 DEF Pending
  <2> QED BY <2>1, <2>2, <2>3, InvalidationTells
<1>5. ASSUME NEW s \in Sessions, Forget(s) PROVE Types' /\ FindingsHold' /\ RevokedIsRefused'
  <2>1. /\ cache' = [cache EXCEPT ![s] = None]
        /\ UNCHANGED <<session, account, revoking, mail, uninformed, call, socketVars>>
    BY <1>5 DEF Forget, storeVars
  <2>2. /\ cache' \in [Sessions -> {None, "usable", "unusable"}]
        /\ \A t \in Sessions : cache'[t] = "usable" => cache[t] = "usable"
    BY <2>1, LiveSocketsAssumption DEF Types, StoreOK
  <2>3. Types' /\ NothingLearnt
    BY <2>1, <2>2 DEF Types, StoreOK, CallOK, SocketInv, socketVars, NothingLearnt, NotRevoked
  <2> QED BY <2>1, <2>2, <2>3, NothingRevoked
<1>6. ASSUME NEW c \in Callers,
             \/ c \in Sockets /\ (Connect(c) \/ JoinRoom(c) \/ ReadUser(c))
             \/ ReadSession(c) \/ CallFails(c)
             \/ c = Http /\ \E s \in Sessions : HttpAsks(s)
      PROVE  Types' /\ FindingsHold' /\ RevokedIsRefused'
  <2>1. /\ Types' /\ NothingLearnt /\ UNCHANGED cache
        /\ \A d \in Callers \ {c} : call'[d] = call[d]
        /\ call'[c].step = "found" /\ call'[c].usable => NotRevoked(call'[c].session)
    BY <1>6, HandlersMove
  <2> QED BY <2>1, NothingRevoked
<1>7. ASSUME NEW c \in Callers,
             \/ c \in Sockets /\ (UserAnswers(c) \/ SessionAnswers(c))
             \/ c = Http /\ HttpAnswers
      PROVE  Types' /\ FindingsHold' /\ RevokedIsRefused'
  BY <1>7, HandlersAnswer, NothingRevoked
<1>8. CASE /\ UNCHANGED <<cacheVars, call>> /\ SocketInv' /\ StoreOK'
           /\ \A s \in Sessions : NotRevoked(s)' = NotRevoked(s)
  <2>1. Types' /\ NothingLearnt
    BY <1>8 DEF Types, CallOK, NothingLearnt, cacheVars
  <2> QED BY <1>8, <2>1, NothingRevoked DEF cacheVars
<1>9. ASSUME NEW k \in Sockets, Disconnect(k) PROVE SocketInv'
  BY <1>9, ClosesSome DEF Disconnect, Types
<1>10. ASSUME NEW k \in Sockets, LeaveRoom(k) PROVE SocketInv'
  BY <1>10, RoomChanges DEF LeaveRoom, Types
<1>11. CASE SweepKicks
  <2>1. \E ks : Closes(ks, socket)
    BY <1>11 DEF SweepKicks
  <2>2. SocketInv'
    BY <2>1, ClosesSome DEF Types
  <2> QED BY <1>11, <2>2, SocketsMove DEF SweepKicks
<1>12. CASE SweepApplies
  <2> DEFINE sk == [k \in Sockets |->
                        IF k \in sweep.pending THEN [socket[k] EXCEPT !.room = RoomAfter(k)]
                        ELSE socket[k]]
  <2>1. \E ks : Closes(ks, sk)
    BY <1>12 DEF SweepApplies
  <2>2. ASSUME NEW k \in Sockets
        PROVE  /\ sk[k] \in SocketType
               /\ sk[k].authenticated = socket[k].authenticated
               /\ sk[k].slot = socket[k].slot /\ sk[k].session = socket[k].session
    <3> DEFINE room == RoomAfter(k)
    <3>1. room \in BOOLEAN
      BY DEF RoomAfter, KeepsRoomByRole
    <3>2. sk[k] = IF k \in sweep.pending THEN [socket[k] EXCEPT !.room = room] ELSE socket[k]
      OBVIOUS
    <3> HIDE DEF sk, room
    <3> QED BY <3>1, <3>2 DEF Types, SocketInv, SocketType
  <2>3. sk \in [Sockets -> SocketType]
    BY <2>2
  <2>4. connected \subseteq Sockets /\ SocketInv
    BY DEF Types, SocketInv
  <2> HIDE DEF sk
  <2>5. SocketInv'
    BY <2>1, <2>2, <2>3, <2>4, ClosesKeep
  <2> QED BY <1>12, <2>5, SocketsMove DEF SweepApplies
<1>13. CASE SweepBegins \/ SweepReadsSessions \/ SweepReadsUsers \/ SweepFails \/ UNCHANGED vars
  <2>1. UNCHANGED <<storeVars, cacheVars, call, socketVars>>
    BY <1>13 DEF SweepBegins, SweepReadsSessions, SweepReadsUsers, SweepFails, vars
  <2>2. SocketInv'
    BY <2>1 DEF socketVars, Types, SocketInv
  <2> QED BY <2>1, <2>2, SocketsMove
<1>14. ASSUME NEW s \in Sessions, RunsOut(s) PROVE Types' /\ FindingsHold' /\ RevokedIsRefused'
  <2>1. /\ session' = [session EXCEPT ![s].over = TRUE]
        /\ UNCHANGED <<account, cacheVars, call, socketVars>>
    BY <1>14 DEF RunsOut
  <2>2. /\ session' \in [Sessions -> SessionType]
        /\ \A t \in Sessions : session'[t].status = session[t].status
    BY <2>1 DEF Types, StoreOK, SessionType
  <2>3. \A t \in Sessions : NotRevoked(t)' = NotRevoked(t)
    BY <2>2, Zenon DEF NotRevoked
  <2>4. StoreOK' /\ SocketInv'
    BY <2>1, <2>2 DEF Types, StoreOK, cacheVars, socketVars, SocketInv
  <2> QED BY <1>8, <2>1, <2>3, <2>4
<1>15. ASSUME NEW field \in {"active", "role"}, Changes(field)
       PROVE  Types' /\ FindingsHold' /\ RevokedIsRefused'
  <2>1. /\ account' = [account EXCEPT ![field] = FALSE]
        /\ UNCHANGED <<session, cacheVars, call, socketVars>>
    BY <1>15 DEF Changes
  <2>2. account' \in [active : BOOLEAN, role : BOOLEAN]
    BY <2>1 DEF Types, StoreOK
  <2>3. StoreOK' /\ SocketInv' /\ \A t \in Sessions : NotRevoked(t)' = NotRevoked(t)
    BY <2>1, <2>2 DEF Types, StoreOK, cacheVars, socketVars, SocketInv, NotRevoked
  <2> QED BY <1>8, <2>1, <2>3
<1>16. ASSUME NEW k \in Sockets, Disconnect(k) \/ LeaveRoom(k)
       PROVE  Types' /\ FindingsHold' /\ RevokedIsRefused'
  BY <1>9, <1>10, <1>16, SocketsMove DEF Disconnect, LeaveRoom
<1>17. Sockets \subseteq Callers /\ Http \in Callers
  BY DEF Callers
<1> QED BY <1>1, <1>2, <1>3, <1>4, <1>5, <1>6, <1>7, <1>11, <1>12, <1>13, <1>14, <1>15, <1>16,
           <1>17 DEF Next

\* At the start nothing is cached, connected or under way.
LEMMA InvHolds == Init => Types /\ FindingsHold /\ RevokedIsRefused
<1> SUFFICES ASSUME Init PROVE Types /\ FindingsHold /\ RevokedIsRefused
  OBVIOUS
<1>1. StoreOK
  BY DEF Init, StoreOK, SessionType
<1>2. CallOK /\ FindingsHold
  <2>1. NoCall \in CallType /\ NoCall.step = "none"
    BY DEF NoCall, CallType
  <2> HIDE DEF NoCall
  <2> QED BY <2>1 DEF Init, CallOK, FindingsHold
<1>3. SocketInv
  <2>1. NoSocket \in SocketType
    BY DEF NoSocket, SocketType
  <2> HIDE DEF NoSocket
  <2>2. {k \in connected : socket[k].slot} = {}
    BY DEF Init
  <2> QED BY <2>1, <2>2, FS_EmptySet DEF Init, SocketInv
<1>4. RevokedIsRefused
  BY LiveSocketsAssumption DEF Init, RevokedIsRefused
<1> QED BY <1>1, <1>2, <1>3, <1>4 DEF Types

-----------------------------------------------------------------------------
(* The theorems *)

\* validateSession: no entry of the cache says usable of a session that is revoked, unless
\* the revocation has still to be learnt of here, or never will be; nor does a query that
\* was under way put it back.
THEOREM AlwaysRevokedIsRefused == Spec => []RevokedIsRefused
BY InvHolds, InvStays, PTL DEF Spec

\* The connections kept for the user are connections that exist, and the slots of the
\* address are counted right, whatever ends before a handshake does.
THEOREM AlwaysConnectionsAreKept == Spec => []ConnectionsAreKept
<1>1. Types => ConnectionsAreKept
  <2> SUFFICES ASSUME Types PROVE ConnectionsAreKept
    OBVIOUS
  <2>1. {k \in connected : socket[k].slot} = {k \in connected : ~socket[k].authenticated}
    BY Zenon DEF Types, SocketInv
  <2> QED BY <2>1 DEF Types, SocketInv, ConnectionsAreKept
<1> QED BY <1>1, InvHolds, InvStays, PTL DEF Spec

-----------------------------------------------------------------------------
(* What requests, alarms and plans hold *)

OrderOps == {"none", "report", "dispatch", "plan", "reassign", "devices", "start",
             "complete", "disable", "anonymise", "delete_device"}
OrderSteps == {"done", "write", "recheck", "strip", "alarms", "inspections",
               "findings", "device", "commit"}
OrderDocs == Alarms \cup Inspections

AlarmType ==
    [status : {"absent", "pending", "processing", "resolved", "false_alarm", "cancelled"},
     handler : Users \cup {Nothing}, device : Devices \cup {Nothing}, arrived : BOOLEAN]
InspectionType ==
    [status : OpenStatuses \cup {"absent", "completed", "cancelled", "deleted"},
     assigned : SUBSET Users, devices : SUBSET Devices, findings : SUBSET Devices,
     start : Nat, starts : Nat, reviewer : Users \cup {Nothing}]
OrderType ==
    [op : OrderOps, step : OrderSteps, doc : OrderDocs \cup {Nothing},
     users : SUBSET Users, devices : SUBSET Devices, seen : Nat, claims : SUBSET OrderDocs]

OrdersTyped ==
    /\ user \in [Users -> {"active", "disabled"}]
    /\ device \subseteq Devices
    /\ alarm \in [Alarms -> AlarmType]
    /\ inspection \in [Inspections -> InspectionType]
    /\ request \in [Requests -> OrderType]

\* A request works on a document of the right sort, and only one that has written
\* devices looks again.
Fits(q) ==
    /\ q.op = "dispatch" => q.doc \in Alarms
    /\ q.op \in {"reassign", "devices", "start", "complete"} => q.doc \in Inspections
    /\ q.step \in {"recheck", "strip"} =>
          q.doc \in OrderDocs /\ q.op \notin {"disable", "anonymise", "delete_device"}

\* Devices are found on a plan only when it is completed.
FindingsInv ==
    \A i \in Inspections : inspection[i].findings # {} => inspection[i].status = "completed"

\* What a transaction is going to release is open.
ClaimsAreOpen ==
    \A r \in Requests : request[r].op = "anonymise" =>
        /\ \A a \in request[r].claims \cap Alarms :
              alarm[a].status \in {"pending", "processing"}
        /\ \A i \in request[r].claims \cap Inspections : inspection[i].status \in OpenStatuses

OrdersInv ==
    /\ OrdersTyped
    /\ \A r \in Requests : Fits(request[r])
    /\ FindingsInv
    /\ ClaimsAreOpen

\* Which references to x a removal has already dealt with: all but those in docs;
\* any other was written while the removal was under way.
Cleared(x, docs) == \A item \in docs : x \in Refs(item) => <<item, x>> \in overlap

\* A device that is named by a plan, not by its findings.
Named(i, d) == d \in inspection[i].devices

DisableInv ==
    \A r \in Requests : Step(r, "disable", "inspections") =>
        \A u \in request[r].users : Cleared(u, Alarms)
AnonymiseInv ==
    \A r \in Requests : request[r].op = "anonymise" =>
        \A u \in request[r].users : Cleared(u, OrderDocs \ request[r].claims)
DeleteInv ==
    \A r \in Requests : request[r].op = "delete_device" =>
        \A d \in request[r].devices :
            /\ request[r].step = "commit" => Cleared(d, OrderDocs \ request[r].claims)
            /\ request[r].step \in {"inspections", "findings", "device"} => Cleared(d, Alarms)
            /\ request[r].step = "findings" =>
                  Cleared(d, {i \in Inspections : Named(i, d)})
            /\ request[r].step = "device" => Cleared(d, Inspections)

\* A user who is out of service is only waited for while somebody releases his
\* work, or will never do so, or was assigned meanwhile.
Disabling(u) == \E r \in Requests : request[r].op = "disable" /\ u \in request[r].users
StuckInv ==
    \A item \in OrderDocs : \A u \in (Refs(item) \cap Users) \ ActiveUsers :
        Disabling(u) \/ u \in cut \/ <<item, u>> \in overlap


LEMMA NoRequestIs ==
    /\ NoRequest \in OrderType /\ Fits(NoRequest)
    /\ NoRequest.op = "none" /\ NoRequest.step = "done" /\ NoRequest.claims = {}
    /\ NoRequest.users = {} /\ NoRequest.devices = {}
BY DEF NoRequest, Request, OrderType, OrderOps, OrderSteps, Fits

LEMMA OrderFields ==
    ASSUME NEW q \in OrderType
    PROVE  /\ q.op \in OrderOps /\ q.step \in OrderSteps /\ q.doc \in OrderDocs \cup {Nothing}
           /\ q.users \in SUBSET Users /\ q.devices \in SUBSET Devices
           /\ q.seen \in Nat /\ q.claims \in SUBSET OrderDocs
BY DEF OrderType

LEMMA GoesOne ==
    ASSUME request \in [Requests -> OrderType], NEW r \in Requests, NEW q \in OrderType,
           Goes(r, q)
    PROVE  /\ request' \in [Requests -> OrderType]
           /\ request'[r] = q
           /\ \A t \in Requests \ {r} : request'[t] = request[t]
BY DEF Goes

\* A request goes on: its fields are of their types, and it fits its document.
LEMMA OrderRequests ==
    ASSUME OrdersTyped, \A r \in Requests : Fits(request[r]), OrdersNext
    PROVE  request' \in [Requests -> OrderType] /\ \A r \in Requests : Fits(request'[r])
<1> DEFINE Goal == request' \in [Requests -> OrderType] /\ \A r \in Requests : Fits(request'[r])
<1>1. request \in [Requests -> OrderType] /\ device \subseteq Devices
  BY DEF OrdersTyped
<1>2. ASSUME NEW r \in Requests, NEW q \in OrderType, Fits(q), Goes(r, q)
      PROVE  Goal
  BY <1>1, <1>2, GoesOne
<1>3. ASSUME NEW r \in Requests, Answers(r)
      PROVE  Goal
  BY <1>2, <1>3, NoRequestIs DEF Answers
<1>4. CASE UNCHANGED request
  BY <1>1, <1>4
<1>5. ASSUME NEW r \in Requests, NEW op \in OrderOps, NEW step \in OrderSteps,
             NEW item \in OrderDocs \cup {Nothing}, NEW us \in SUBSET Users,
             NEW ds \in SUBSET Devices, Goes(r, Request(op, step, item, us, ds)),
             op = "dispatch" => item \in Alarms,
             op \in {"reassign", "devices", "start", "complete"} => item \in Inspections,
             step \notin {"recheck", "strip"}
      PROVE  Goal
  <2> DEFINE q == Request(op, step, item, us, ds)
  <2>1. q \in OrderType /\ q.op = op /\ q.step = step /\ q.doc = item
    BY <1>5 DEF Request, OrderType
  <2> HIDE DEF q
  <2>2. Fits(q)
    BY <1>5, <2>1 DEF Fits
  <2> QED
    BY <1>2, <1>5, <2>1, <2>2 DEF q
<1>6. ASSUME NEW r \in Requests, NEW item \in OrderDocs, Rechecks(r, item),
             request[r].op \notin {"disable", "anonymise", "delete_device", "dispatch"},
             request[r].op \in {"reassign", "devices", "start", "complete"} =>
                item \in Inspections
      PROVE  Goal
  <2> DEFINE q == [request[r] EXCEPT !.step = "recheck", !.doc = item]
  <2>1. q \in OrderType /\ Fits(q)
    BY <1>1, <1>6 DEF OrderType, OrderSteps, Fits
  <2>2. Answers(r) \/ Goes(r, q)
    BY <1>6 DEF Rechecks
  <2> HIDE DEF q
  <2> QED
    BY <1>2, <1>3, <2>1, <2>2
<1>7. ASSUME NEW r \in Requests, RequestStep(r)
      PROVE  Goal
  <2>1. CASE ReportAlarm(r)
    <3>1. PICK ds \in {{}} \cup {{d} : d \in device} :
             Goes(r, Request("report", "write", Nothing, {}, ds))
      BY <2>1 DEF ReportAlarm
    <3>2. ds \in SUBSET Devices
      BY <1>1
    <3> QED
      BY <1>5, <3>1, <3>2 DEF OrderOps, OrderSteps
  <2>2. CASE ReportWrites(r)
    <3>1. PICK a \in Alarms : \/ Answers(r)
                              \/ Goes(r, [request[r] EXCEPT !.step = "recheck", !.doc = a])
      BY <2>2 DEF ReportWrites
    <3> DEFINE q == [request[r] EXCEPT !.step = "recheck", !.doc = a]
    <3>2. request[r].op = "report" /\ request[r] \in OrderType
      BY <1>1, <2>2 DEF ReportWrites, Step
    <3>3. q \in OrderType /\ q.op = "report" /\ q.doc = a
      BY <3>2 DEF OrderType, OrderSteps, OrderDocs
    <3>4. Fits(q)
      BY <3>3 DEF Fits, OrderDocs
    <3> HIDE DEF q
    <3> QED
      BY <1>2, <1>3, <3>1, <3>3, <3>4 DEF q
  <2>3. CASE Dispatch(r)
    <3>1. PICK a \in OpenAlarms, h \in ActiveUsers :
             Goes(r, Request("dispatch", "write", a, {h}, {}))
      BY <2>3 DEF Dispatch
    <3>2. a \in Alarms /\ a \in OrderDocs \cup {Nothing} /\ {h} \in SUBSET Users
          /\ {} \in SUBSET Devices
      BY DEF OpenAlarms, ActiveUsers, OrderDocs
    <3> QED
      BY <1>5, <3>1, <3>2 DEF OrderOps, OrderSteps
  <2>4. CASE Plan(r)
    <3>1. PICK us \in Assignments, ds \in SUBSET device :
             Goes(r, Request("plan", "write", Nothing, us, ds))
      BY <2>4 DEF Plan
    <3>2. us \in SUBSET Users /\ ds \in SUBSET Devices
      BY <1>1 DEF Assignments, ActiveUsers
    <3> QED
      BY <1>5, <3>1, <3>2 DEF OrderOps, OrderSteps
  <2>5. CASE PlanWrites(r)
    <3>1. PICK i \in Inspections : Rechecks(r, i)
      BY <2>5 DEF PlanWrites
    <3>2. request[r].op = "plan" /\ i \in OrderDocs
      BY <2>5 DEF PlanWrites, Step, OrderDocs
    <3> QED
      BY <1>6, <3>1, <3>2
  <2>6. CASE Reassign(r)
    <3>1. PICK i \in OpenInspections, us \in Assignments :
             Goes(r, Request("reassign", "write", i, us, {}))
      BY <2>6 DEF Reassign
    <3>2. i \in Inspections /\ i \in OrderDocs \cup {Nothing} /\ us \in SUBSET Users
          /\ {} \in SUBSET Devices
      BY DEF OpenInspections, Assignments, ActiveUsers, OrderDocs
    <3> QED
      BY <1>5, <3>1, <3>2 DEF OrderOps, OrderSteps
  <2>7. CASE ChangeDevices(r)
    <3>1. PICK i \in OpenInspections, ds \in SUBSET device :
             Goes(r, Request("devices", "write", i, {}, ds))
      BY <2>7 DEF ChangeDevices
    <3>2. i \in Inspections /\ i \in OrderDocs \cup {Nothing} /\ ds \in SUBSET Devices
          /\ {} \in SUBSET Users
      BY <1>1 DEF OpenInspections, OrderDocs
    <3> QED
      BY <1>5, <3>1, <3>2 DEF OrderOps, OrderSteps
  <2>8. CASE ChangeDevicesWrites(r) \/ CompleteWrites(r)
    <3>1. request[r].doc \in Inspections /\ request[r].doc \in OrderDocs
          /\ request[r].op \in {"devices", "complete"}
      BY <2>8 DEF ChangeDevicesWrites, CompleteWrites, Step, Fits, OrderDocs
    <3>2. Answers(r) \/ Rechecks(r, request[r].doc)
      BY <2>8 DEF ChangeDevicesWrites, CompleteWrites
    <3> QED
      BY <1>3, <1>6, <3>1, <3>2
  <2>9. CASE Start(r)
    <3>1. PICK i \in OpenInspections, u \in Users :
             Goes(r, [Request("start", "write", i, {u}, {}) EXCEPT !.seen = inspection[i].start])
      BY <2>9 DEF Start
    <3> DEFINE q == [Request("start", "write", i, {u}, {}) EXCEPT !.seen = inspection[i].start]
    <3>2. i \in Inspections /\ inspection[i].start \in Nat
      BY DEF OpenInspections, OrdersTyped, InspectionType
    <3>3. q \in OrderType /\ Fits(q)
      BY <3>2 DEF Request, OrderType, OrderOps, OrderSteps, OrderDocs, Fits
    <3> HIDE DEF q
    <3> QED
      BY <1>2, <3>1, <3>3 DEF q
  <2>10. CASE Complete(r)
    <3>1. PICK i \in OpenInspections, u \in Users, ds \in SUBSET device :
             Goes(r, Request("complete", "write", i, {u}, ds))
      BY <2>10 DEF Complete
    <3>2. i \in Inspections /\ i \in OrderDocs \cup {Nothing} /\ {u} \in SUBSET Users
          /\ ds \in SUBSET Devices
      BY <1>1 DEF OpenInspections, OrderDocs
    <3> QED
      BY <1>5, <3>1, <3>2 DEF OrderOps, OrderSteps
  <2>11. CASE Recheck(r)
    <3> DEFINE missing == request[r].devices \ device
               q == [request[r] EXCEPT !.step = "strip", !.devices = missing]
    <3>1. q \in OrderType /\ Fits(q)
      BY <1>1, <2>11 DEF Recheck, OrderType, OrderSteps, Fits
    <3>2. Answers(r) \/ Goes(r, q)
      BY <2>11 DEF Recheck
    <3> HIDE DEF q
    <3> QED
      BY <1>2, <1>3, <3>1, <3>2
  <2>12. CASE DispatchWrites(r) \/ ReassignWrites(r) \/ StartWrites(r) \/ Strip(r) \/ Fail(r)
    BY <1>3, <2>12 DEF DispatchWrites, ReassignWrites, StartWrites, Strip, Fail
  <2> QED
    BY <1>7, <2>1, <2>2, <2>3, <2>4, <2>5, <2>6, <2>7, <2>8, <2>9, <2>10, <2>11, <2>12
       DEF RequestStep
<1>8. ASSUME NEW r \in Requests, NEW step \in OrderSteps \ {"recheck", "strip"},
             request[r].op \in {"disable", "anonymise", "delete_device"},
             Goes(r, [request[r] EXCEPT !.step = step])
      PROVE  Goal
  <2> DEFINE q == [request[r] EXCEPT !.step = step]
  <2>1. q \in OrderType /\ Fits(q)
    BY <1>1, <1>8 DEF OrderType, Fits
  <2> HIDE DEF q
  <2> QED
    BY <1>2, <1>8, <2>1 DEF q
<1>9. ASSUME NEW r \in Requests, RemovalStep(r)
      PROVE  Goal
  <2>1. CASE Disable(r)
    <3>1. PICK u \in Users : Goes(r, Request("disable", "alarms", Nothing, {u}, {}))
      BY <2>1 DEF Disable
    <3>2. {u} \in SUBSET Users /\ {} \in SUBSET Devices
      OBVIOUS
    <3> QED
      BY <1>5, <3>1, <3>2 DEF OrderOps, OrderSteps
  <2>2. CASE Anonymise(r)
    <3>1. PICK u \in Users :
             Goes(r, [Request("anonymise", "commit", Nothing, {u}, {})
                      EXCEPT !.claims = HeldAlarms({u}) \cup HeldInspections({u})])
      BY <2>2 DEF Anonymise
    <3> DEFINE held == HeldAlarms({u}) \cup HeldInspections({u})
               q == [Request("anonymise", "commit", Nothing, {u}, {}) EXCEPT !.claims = held]
    <3>2. held \subseteq OrderDocs
      BY DEF HeldAlarms, HeldInspections, OrderDocs
    <3> HIDE DEF held
    <3>3. q \in OrderType /\ Fits(q)
      BY <3>2 DEF Request, OrderType, OrderOps, OrderSteps, Fits
    <3> HIDE DEF q
    <3> QED
      BY <1>2, <3>1, <3>3 DEF q, held
  <2>3. CASE DeleteDevice(r)
    <3>1. PICK d \in device :
             \/ Goes(r, Request("delete_device", "alarms", Nothing, {}, {d}))
             \/ Goes(r, [Request("delete_device", "alarms", Nothing, {}, {d})
                         EXCEPT !.step = "commit", !.claims = Referring({d})])
      BY <2>3 DEF DeleteDevice
    <3> DEFINE q == [Request("delete_device", "alarms", Nothing, {}, {d})
                     EXCEPT !.step = "commit", !.claims = Referring({d})]
    <3>2. Referring({d}) \subseteq OrderDocs /\ {d} \in SUBSET Devices /\ {} \in SUBSET Users
      BY <1>1 DEF Referring, OrderDocs
    <3>3. q \in OrderType /\ Fits(q)
      BY <3>2 DEF Request, OrderType, OrderOps, OrderSteps, Fits
    <3> HIDE DEF q
    <3>4. CASE Goes(r, q)
      BY <1>2, <3>3, <3>4
    <3>5. CASE Goes(r, Request("delete_device", "alarms", Nothing, {}, {d}))
      BY <1>5, <3>2, <3>5 DEF OrderOps, OrderSteps
    <3> QED
      BY <3>1, <3>4, <3>5 DEF q
  <2>4. CASE DisableReleasesAlarms(r) \/ DeleteClearsAlarms(r)
             \/ DeleteClearsInspections(r) \/ DeleteClearsFindings(r)
    <3>1. PICK step \in OrderSteps \ {"recheck", "strip"} :
             Goes(r, [request[r] EXCEPT !.step = step])
      BY <2>4 DEF DisableReleasesAlarms, DeleteClearsAlarms, DeleteClearsInspections,
         DeleteClearsFindings, OrderSteps
    <3>2. request[r].op \in {"disable", "delete_device"}
      BY <2>4 DEF DisableReleasesAlarms, DeleteClearsAlarms, DeleteClearsInspections,
         DeleteClearsFindings, Step
    <3> QED
      BY <1>8, <3>1, <3>2
  <2>5. CASE DisableReleasesInspections(r) \/ AnonymiseCommits(r) \/ DeleteCommits(r)
             \/ DeleteEnds(r)
    BY <1>3, <2>5 DEF DisableReleasesInspections, AnonymiseCommits, DeleteCommits, DeleteEnds
  <2> QED
    BY <1>9, <2>1, <2>2, <2>3, <2>4, <2>5 DEF RemovalStep
<1>10. CASE SingleUpdate
  BY <1>4, <1>10 DEF SingleUpdate, Arrive, Resolve, FalseAlarm, CancelAlarm, AlarmStep,
     CancelInspection, DeleteInspection, MarkOverdue, Review, InspectionStep, Enable
<1> HIDE DEF Goal
<1> QED
  BY <1>7, <1>9, <1>10 DEF OrdersNext, Goal

-----------------------------------------------------------------------------
(* What a step may do to a document *)

OpenAlarmStatuses == {"pending", "processing"}

\* A device may be taken from it; it is handled, or released; or it is reported.
AlarmMoves(a) ==
    \/ /\ alarm'[a].status = alarm[a].status /\ alarm'[a].handler = alarm[a].handler
       /\ alarm'[a].device \in {alarm[a].device, Nothing}
    \/ /\ alarm[a].status \in OpenAlarmStatuses /\ alarm'[a].device = alarm[a].device
       /\ ~Claimed(a) \/ alarm'[a].status = "pending"
    \/ /\ alarm[a].status = "absent" /\ alarm'[a].status = "pending"
       /\ \A d \in Devices : alarm'[a].device = d => Rechecking(a, d)'

\* Devices may be taken from it; it is released; written by a request; reviewed;
\* deleted; or planned.
InspectionMoves(i) ==
    \/ /\ inspection'[i].status = inspection[i].status
       /\ inspection'[i].assigned = inspection[i].assigned
       /\ inspection'[i].reviewer = inspection[i].reviewer
       /\ inspection'[i].devices \subseteq inspection[i].devices
       /\ inspection'[i].findings \subseteq inspection[i].findings
    \/ /\ inspection[i].status \in OpenStatuses
       /\ inspection'[i].status = inspection[i].status
       /\ inspection'[i].devices = inspection[i].devices
       /\ inspection'[i].findings = inspection[i].findings
    \/ /\ inspection[i].status \in OpenStatuses /\ ~Claimed(i)
       /\ \A d \in inspection'[i].devices \ inspection[i].devices : Rechecking(i, d)'
       /\ \/ inspection'[i].findings = inspection[i].findings
          \/ /\ inspection'[i].status = "completed"
             /\ \A d \in inspection'[i].findings : Rechecking(i, d)'
    \/ /\ inspection[i].status = "completed" /\ inspection[i].reviewer = Nothing
       /\ ~Claimed(i)
       /\ inspection'[i].status = inspection[i].status
       /\ inspection'[i].assigned = inspection[i].assigned
       /\ inspection'[i].devices = inspection[i].devices
       /\ inspection'[i].findings = inspection[i].findings
    \/ /\ ~Claimed(i) /\ inspection'[i].status = "deleted"
       /\ inspection'[i].devices = {} /\ inspection'[i].findings = {}
    \/ /\ inspection[i].status = "absent"
       /\ inspection'[i].findings = inspection[i].findings
       /\ \A d \in inspection'[i].devices : Rechecking(i, d)'

DocumentsMove ==
    /\ alarm' \in [Alarms -> AlarmType]
    /\ inspection' \in [Inspections -> InspectionType]
    /\ \A a \in Alarms : AlarmMoves(a)
    /\ \A i \in Inspections : InspectionMoves(i)

LEMMA AlarmsStay ==
    ASSUME OrdersTyped, UNCHANGED alarm
    PROVE  alarm' \in [Alarms -> AlarmType] /\ \A a \in Alarms : AlarmMoves(a)
BY DEF OrdersTyped, AlarmMoves

LEMMA InspectionsStay ==
    ASSUME OrdersTyped, UNCHANGED inspection
    PROVE  /\ inspection' \in [Inspections -> InspectionType]
           /\ \A i \in Inspections : InspectionMoves(i)
BY DEF OrdersTyped, InspectionMoves

LEMMA OneAlarmMoves ==
    ASSUME OrdersTyped, NEW a \in Alarms, NEW q \in AlarmType,
           alarm' = [alarm EXCEPT ![a] = q], alarm'[a] = q => AlarmMoves(a),
           UNCHANGED inspection
    PROVE  DocumentsMove
<1>1. alarm \in [Alarms -> AlarmType]
  BY DEF OrdersTyped
<1>2. alarm' \in [Alarms -> AlarmType] /\ alarm'[a] = q
      /\ \A b \in Alarms \ {a} : alarm'[b] = alarm[b]
  BY <1>1
<1>3. \A b \in Alarms : AlarmMoves(b)
  BY <1>2 DEF AlarmMoves
<1> QED
  BY <1>2, <1>3, InspectionsStay DEF DocumentsMove

LEMMA OneInspectionMoves ==
    ASSUME OrdersTyped, NEW i \in Inspections, NEW q \in InspectionType,
           inspection' = [inspection EXCEPT ![i] = q], inspection'[i] = q => InspectionMoves(i),
           UNCHANGED alarm
    PROVE  DocumentsMove
<1>1. inspection \in [Inspections -> InspectionType]
  BY DEF OrdersTyped
<1>2. inspection' \in [Inspections -> InspectionType] /\ inspection'[i] = q
      /\ \A j \in Inspections \ {i} : inspection'[j] = inspection[j]
  BY <1>1
<1>3. \A j \in Inspections : InspectionMoves(j)
  BY <1>2 DEF InspectionMoves
<1> QED
  BY <1>2, <1>3, AlarmsStay DEF DocumentsMove

\* After a write that named devices, every one of them will be looked up again.
LEMMA RechecksThem ==
    ASSUME OrdersTyped, NEW r \in Requests, NEW item \in OrderDocs, Rechecks(r, item),
           NEW d \in request[r].devices
    PROVE  Rechecking(item, d)'
<1>1. request'[r] = [request[r] EXCEPT !.step = "recheck", !.doc = item]
  BY DEF OrdersTyped, Rechecks, Goes
<1>2. request[r] \in OrderType
  BY DEF OrdersTyped
<1>3. request'[r].step = "recheck" /\ request'[r].doc = item /\ d \in request'[r].devices
  BY <1>1, <1>2 DEF OrderType
<1> QED
  BY <1>3 DEF Rechecking

LEMMA AlarmUpdates ==
    ASSUME OrdersTyped, NEW a \in Alarms, NEW u \in Users,
           Arrive(a, u) \/ Resolve(a, u) \/ FalseAlarm(a, u) \/ CancelAlarm(a, u)
    PROVE  DocumentsMove
<1>1. alarm[a] \in AlarmType
  BY DEF OrdersTyped
<1>2. UNCHANGED inspection /\ ~Claimed(a)
  BY DEF Arrive, Resolve, FalseAlarm, CancelAlarm, AlarmStep
<1>3. ASSUME NEW q \in AlarmType, q.device = alarm[a].device,
             alarm[a].status \in OpenAlarmStatuses, alarm' = [alarm EXCEPT ![a] = q]
      PROVE  DocumentsMove
  <2>1. alarm'[a] = q => AlarmMoves(a)
    BY <1>2, <1>3 DEF AlarmMoves
  <2> QED
    BY <1>2, <1>3, <2>1, OneAlarmMoves
<1>4. CASE Arrive(a, u)
  <2> DEFINE q == [alarm[a] EXCEPT !.arrived = TRUE]
  <2>1. q \in AlarmType /\ q.device = alarm[a].device
    BY <1>1 DEF AlarmType
  <2> QED
    BY <1>3, <1>4, <2>1 DEF Arrive, AlarmStep, OpenAlarmStatuses
<1>5. ASSUME NEW s \in {"resolved", "false_alarm", "cancelled"},
             alarm[a].status \in OpenAlarmStatuses,
             alarm' = [alarm EXCEPT ![a] = [alarm[a] EXCEPT !.status = s]]
      PROVE  DocumentsMove
  <2> DEFINE q == [alarm[a] EXCEPT !.status = s]
  <2>1. q \in AlarmType /\ q.device = alarm[a].device
    BY <1>1 DEF AlarmType
  <2> QED
    BY <1>3, <1>5, <2>1
<1>6. CASE Resolve(a, u) \/ FalseAlarm(a, u) \/ CancelAlarm(a, u)
  <2>1. /\ alarm[a].status \in OpenAlarmStatuses
        /\ \E s \in {"resolved", "false_alarm", "cancelled"} :
              alarm' = [alarm EXCEPT ![a] = [alarm[a] EXCEPT !.status = s]]
    BY <1>6 DEF Resolve, FalseAlarm, CancelAlarm, AlarmStep, OpenAlarmStatuses
  <2> QED
    BY <1>5, <2>1
<1> QED
  BY <1>4, <1>6

LEMMA InspectionUpdates ==
    ASSUME OrdersTyped, FindingsInv, NEW i \in Inspections,
           \/ CancelInspection(i) \/ DeleteInspection(i) \/ MarkOverdue(i)
           \/ \E u \in Users : Review(i, u)
    PROVE  DocumentsMove
<1>1. inspection[i] \in InspectionType
  BY DEF OrdersTyped
<1>2. UNCHANGED alarm /\ ~Claimed(i)
  BY DEF CancelInspection, DeleteInspection, MarkOverdue, Review, InspectionStep
<1>3. CASE CancelInspection(i) \/ MarkOverdue(i)
  <2>1. /\ inspection[i].status \in OpenStatuses
        /\ \E s \in {"cancelled", "overdue"} :
              inspection' = [inspection EXCEPT ![i] = [inspection[i] EXCEPT !.status = s]]
    BY <1>3 DEF CancelInspection, MarkOverdue, InspectionStep, OverdueMarkable
  <2>2. PICK s \in {"cancelled", "overdue"} :
           inspection' = [inspection EXCEPT ![i] = [inspection[i] EXCEPT !.status = s]]
    BY <2>1
  <2> DEFINE q == [inspection[i] EXCEPT !.status = s]
  <2>3. /\ q \in InspectionType /\ q.devices = inspection[i].devices
        /\ q.findings = inspection[i].findings
    BY <1>1 DEF InspectionType, OpenStatuses
  <2>4. inspection'[i] = q => InspectionMoves(i)
    BY <1>2, <2>1, <2>3 DEF InspectionMoves
  <2> HIDE DEF q
  <2> QED
    BY <1>2, <2>2, <2>3, <2>4, OneInspectionMoves DEF q
<1>4. CASE DeleteInspection(i)
  <2> DEFINE q == [NoInspection EXCEPT !.status = "deleted"]
  <2>1. q \in InspectionType /\ q.status = "deleted" /\ q.devices = {} /\ q.findings = {}
    BY DEF InspectionType, NoInspection
  <2>2. inspection'[i] = q => InspectionMoves(i)
    BY <1>2, <2>1 DEF InspectionMoves
  <2>3. inspection' = [inspection EXCEPT ![i] = q]
    BY <1>4 DEF DeleteInspection, InspectionStep
  <2> HIDE DEF q
  <2> QED
    BY <1>2, <2>1, <2>2, <2>3, OneInspectionMoves
<1>5. ASSUME NEW u \in Users, Review(i, u)
      PROVE  DocumentsMove
  <2> DEFINE q == [inspection[i] EXCEPT !.reviewer = u]
  <2>1. /\ q \in InspectionType /\ q.status = inspection[i].status
        /\ q.assigned = inspection[i].assigned /\ q.devices = inspection[i].devices
        /\ q.findings = inspection[i].findings
    BY <1>1 DEF InspectionType
  <2>2. /\ inspection[i].status = "completed" /\ inspection[i].reviewer = Nothing
        /\ inspection' = [inspection EXCEPT ![i] = q]
    BY <1>5 DEF Review, InspectionStep
  <2> HIDE DEF q
  <2>3. inspection'[i] = q => InspectionMoves(i)
    BY <1>2, <2>1, <2>2 DEF InspectionMoves
  <2> QED
    BY <1>2, <2>1, <2>2, <2>3, OneInspectionMoves
<1> QED
  BY <1>3, <1>4, <1>5

LEMMA NothingMoves ==
    ASSUME OrdersTyped, UNCHANGED <<alarm, inspection>>
    PROVE  DocumentsMove
BY AlarmsStay, InspectionsStay DEF DocumentsMove

\* The writes of requests to alarms.
LEMMA AlarmWrites ==
    ASSUME OrdersTyped, \A t \in Requests : Fits(request[t]), NEW r \in Requests,
           ReportWrites(r) \/ DispatchWrites(r)
    PROVE  DocumentsMove
<1>1. request[r] \in OrderType /\ alarm \in [Alarms -> AlarmType] /\ Fits(request[r])
  BY DEF OrdersTyped
<1>2. CASE ReportWrites(r)
  <2> DEFINE ds == request[r].devices
             named == IF ds = {} THEN Nothing ELSE CHOOSE d \in ds : TRUE
  <2>1. PICK a \in Alarms :
           /\ alarm[a] = NoAlarm
           /\ alarm' = [alarm EXCEPT ![a] =
                  [@ EXCEPT !.status = "pending", !.device = named]]
           /\ ds # {} => Goes(r, [request[r] EXCEPT !.step = "recheck", !.doc = a])
    BY <1>2 DEF ReportWrites
  <2>2. named \in ds \cup {Nothing} /\ ds \in SUBSET Devices
    BY <1>1 DEF OrderType
  <2>3. Nothing \notin Devices
    BY WorkOrdersAssumption
  <2>4. ASSUME NEW d \in Devices, named = d
        PROVE  Rechecking(a, d)'
    <3>1. d \in ds
      BY <2>2, <2>3, <2>4
    <3>2. request'[r] = [request[r] EXCEPT !.step = "recheck", !.doc = a]
      BY <2>1, <3>1 DEF OrdersTyped, Goes
    <3>3. request'[r].step = "recheck" /\ request'[r].doc = a /\ d \in request'[r].devices
      BY <1>1, <3>1, <3>2 DEF OrderType
    <3> QED
      BY <3>3 DEF Rechecking
  <2> HIDE DEF named
  <2> DEFINE q == [NoAlarm EXCEPT !.status = "pending", !.device = named]
  <2>5. q \in AlarmType /\ q.status = "pending" /\ q.device = named
    BY <2>2 DEF NoAlarm, AlarmType
  <2>6. alarm' = [alarm EXCEPT ![a] = q] /\ alarm[a].status = "absent"
    BY <1>1, <2>1 DEF NoAlarm
  <2> HIDE DEF q
  <2>7. alarm'[a] = q => AlarmMoves(a)
    BY <2>4, <2>5, <2>6 DEF AlarmMoves
  <2>8. UNCHANGED inspection
    BY <1>2 DEF ReportWrites
  <2> QED
    BY <2>5, <2>6, <2>7, <2>8, OneAlarmMoves
<1>3. CASE DispatchWrites(r)
  <2>1. PICK a \in Alarms : a = request[r].doc /\ ~Claimed(a) /\ UNCHANGED inspection
    BY <1>1, <1>3 DEF DispatchWrites, Step, Fits
  <2>2. CASE UNCHANGED alarm
    BY <2>1, <2>2, NothingMoves
  <2>3. CASE ~UNCHANGED alarm
    <3>1. /\ alarm[a].status = "pending"
          /\ \E h \in request[r].users :
                alarm' = [alarm EXCEPT ![a] = [@ EXCEPT !.status = "processing", !.handler = h]]
      BY <1>3, <2>1, <2>3 DEF DispatchWrites
    <3>2. PICK h \in request[r].users :
             alarm' = [alarm EXCEPT ![a] = [alarm[a] EXCEPT !.status = "processing", !.handler = h]]
      BY <1>1, <2>1, <3>1
    <3> DEFINE q == [alarm[a] EXCEPT !.status = "processing", !.handler = h]
    <3>3. h \in Users /\ alarm[a] \in AlarmType
      BY <1>1, <2>1 DEF OrderType
    <3>4. q \in AlarmType /\ q.device = alarm[a].device
      BY <3>3 DEF AlarmType
    <3> HIDE DEF q
    <3>5. alarm'[a] = q => AlarmMoves(a)
      BY <2>1, <3>1, <3>4 DEF AlarmMoves, OpenAlarmStatuses
    <3>6. alarm' = [alarm EXCEPT ![a] = q]
      BY <3>2 DEF q
    <3> QED
      BY <2>1, <3>4, <3>5, <3>6, OneAlarmMoves
  <2> QED
    BY <2>2, <2>3
<1> QED
  BY <1>2, <1>3

\* The writes of requests to inspections.
LEMMA PlanWritesMove ==
    ASSUME OrdersTyped, NEW r \in Requests, PlanWrites(r)
    PROVE  DocumentsMove
<1>1. request[r] \in OrderType /\ inspection \in [Inspections -> InspectionType]
  BY DEF OrdersTyped
<1>2. PICK i \in Inspections :
         /\ inspection[i].status = "absent"
         /\ inspection' = [inspection EXCEPT ![i] =
                [@ EXCEPT !.status = "pending", !.assigned = request[r].users,
                          !.devices = request[r].devices]]
         /\ Rechecks(r, i)
  BY DEF PlanWrites
<1> DEFINE q == [inspection[i] EXCEPT !.status = "pending", !.assigned = request[r].users,
                                      !.devices = request[r].devices]
<1>3. /\ q \in InspectionType /\ q.devices = request[r].devices
      /\ q.findings = inspection[i].findings
  BY <1>1 DEF InspectionType, OrderType, OpenStatuses
<1>4. inspection' = [inspection EXCEPT ![i] = q]
  BY <1>1, <1>2
<1> HIDE DEF q
<1>5. \A d \in request[r].devices : Rechecking(i, d)'
  BY <1>2, RechecksThem DEF OrderDocs
<1>6. inspection'[i] = q => InspectionMoves(i)
  BY <1>2, <1>3, <1>5 DEF InspectionMoves
<1>7. UNCHANGED alarm
  BY DEF PlanWrites
<1> QED
  BY <1>3, <1>4, <1>6, <1>7, OneInspectionMoves

LEMMA InspectionWrites ==
    ASSUME OrdersTyped, \A t \in Requests : Fits(request[t]), FindingsInv, NEW r \in Requests,
           ReassignWrites(r) \/ ChangeDevicesWrites(r) \/ StartWrites(r) \/ CompleteWrites(r)
    PROVE  DocumentsMove
<1>1. request[r] \in OrderType /\ inspection \in [Inspections -> InspectionType]
  BY DEF OrdersTyped
<1>2. PICK i \in Inspections :
         /\ i = request[r].doc /\ i \in OrderDocs /\ ~Claimed(i) /\ UNCHANGED alarm
         /\ inspection[i] \in InspectionType
  BY <1>1 DEF ReassignWrites, ChangeDevicesWrites, StartWrites, CompleteWrites, Step, Fits, OrderDocs
<1>3. CASE UNCHANGED inspection
  BY <1>2, <1>3, NothingMoves
<1>4. ASSUME NEW q \in InspectionType, inspection' = [inspection EXCEPT ![i] = q],
             inspection[i].status \in OpenStatuses,
             \A d \in q.devices \ inspection[i].devices : Rechecking(i, d)',
             \/ q.findings = inspection[i].findings
             \/ q.status = "completed" /\ \A d \in q.findings : Rechecking(i, d)'
      PROVE  DocumentsMove
  <2>1. inspection'[i] = q => InspectionMoves(i)
    BY <1>2, <1>4 DEF InspectionMoves
  <2> QED
    BY <1>2, <1>4, <2>1, OneInspectionMoves
<1>5. CASE ReassignWrites(r) /\ ~UNCHANGED inspection
  <2> DEFINE q == [inspection[i] EXCEPT !.assigned = request[r].users]
  <2>1. inspection[i].status = "pending" /\ inspection' = [inspection EXCEPT ![i] = q]
    BY <1>2, <1>5 DEF ReassignWrites
  <2>2. /\ q \in InspectionType /\ q.devices = inspection[i].devices
        /\ q.findings = inspection[i].findings
    BY <1>1, <1>2 DEF InspectionType, OrderType
  <2> HIDE DEF q
  <2> QED
    BY <1>4, <2>1, <2>2 DEF OpenStatuses
<1>6. CASE ChangeDevicesWrites(r) /\ ~UNCHANGED inspection
  <2> DEFINE q == [inspection[i] EXCEPT !.devices = request[r].devices]
  <2>1. /\ inspection[i].status = "pending" /\ inspection' = [inspection EXCEPT ![i] = q]
        /\ Rechecks(r, i)
    BY <1>2, <1>6 DEF ChangeDevicesWrites
  <2>2. /\ q \in InspectionType /\ q.devices = request[r].devices
        /\ q.findings = inspection[i].findings
    BY <1>1, <1>2 DEF InspectionType, OrderType
  <2> HIDE DEF q
  <2>3. \A d \in q.devices : Rechecking(i, d)'
    BY <1>2, <2>1, <2>2, RechecksThem
  <2> QED
    BY <1>4, <2>1, <2>2, <2>3 DEF OpenStatuses
<1>7. CASE StartWrites(r) /\ ~UNCHANGED inspection
  <2> DEFINE time == StartTime(i, request[r].seen)
             next == inspection[i].starts + 1
             q == [inspection[i] EXCEPT !.status = "in_progress", !.starts = next, !.start = time]
  <2>1. /\ inspection[i].status \in OpenStatuses
        /\ inspection' = [inspection EXCEPT ![i] =
               [@ EXCEPT !.status = "in_progress", !.starts = next, !.start = time]]
    BY <1>2, <1>7 DEF StartWrites, Startable
  <2>2. time \in Nat /\ next \in Nat
    BY <1>1, <1>2 DEF StartTime, InspectionType, OrderType
  <2> HIDE DEF time, next
  <2>3. /\ q \in InspectionType /\ q.devices = inspection[i].devices
        /\ q.findings = inspection[i].findings
    BY <1>1, <1>2, <2>2 DEF InspectionType, OpenStatuses
  <2>4. inspection' = [inspection EXCEPT ![i] = q]
    BY <1>1, <1>2, <2>1
  <2> HIDE DEF q
  <2> QED
    BY <1>4, <2>1, <2>3, <2>4
<1>8. CASE CompleteWrites(r) /\ ~UNCHANGED inspection
  <2> DEFINE q == [inspection[i] EXCEPT !.status = "completed", !.findings = request[r].devices]
  <2>1. /\ inspection[i].status \in OpenStatuses
        /\ inspection' = [inspection EXCEPT ![i] =
               [@ EXCEPT !.status = "completed", !.findings = request[r].devices]]
        /\ Rechecks(r, i)
    BY <1>2, <1>8 DEF CompleteWrites, Submittable
  <2>2. /\ q \in InspectionType /\ q.devices = inspection[i].devices
        /\ q.findings = request[r].devices /\ q.status = "completed"
    BY <1>1, <1>2 DEF InspectionType, OrderType
  <2>3. inspection' = [inspection EXCEPT ![i] = q]
    BY <1>1, <1>2, <2>1
  <2> HIDE DEF q
  <2>4. \A d \in q.findings : Rechecking(i, d)'
    BY <1>2, <2>1, <2>2, RechecksThem
  <2> QED
    BY <1>4, <2>1, <2>2, <2>3, <2>4
<1> QED
  BY <1>3, <1>5, <1>6, <1>7, <1>8

LEMMA StripMoves ==
    ASSUME OrdersTyped, \A t \in Requests : Fits(request[t]), NEW r \in Requests, Strip(r)
    PROVE  DocumentsMove
<1> DEFINE ds == request[r].devices
<1>1. PICK item \in OrderDocs : item = request[r].doc
  BY DEF OrdersTyped, Strip, Fits
<1>2. CASE item \in Alarms
  <2> DEFINE q == AlarmWithout(alarm[item], ds)
  <2>1. alarm[item] \in AlarmType /\ alarm \in [Alarms -> AlarmType]
    BY <1>2 DEF OrdersTyped
  <2>2. alarm' = [alarm EXCEPT ![item] = q] /\ UNCHANGED inspection
    BY <1>1, <1>2, <2>1 DEF Strip
  <2>3. /\ q \in AlarmType /\ q.status = alarm[item].status /\ q.handler = alarm[item].handler
        /\ q.device \in {alarm[item].device, Nothing}
    BY <2>1 DEF AlarmWithout, AlarmType
  <2> HIDE DEF q
  <2>4. alarm'[item] = q => AlarmMoves(item)
    BY <2>3 DEF AlarmMoves
  <2> QED
    BY <1>2, <2>2, <2>3, <2>4, OneAlarmMoves
<1>3. CASE item \notin Alarms
  <2> DEFINE q == InspectionWithout(inspection[item], ds)
  <2>1. /\ inspection[item] \in InspectionType /\ item \in Inspections
        /\ inspection \in [Inspections -> InspectionType]
    BY <1>1, <1>3 DEF OrdersTyped, OrderDocs
  <2>2. inspection' = [inspection EXCEPT ![item] = q] /\ UNCHANGED alarm
    BY <1>1, <1>3, <2>1 DEF Strip
  <2>3. /\ q \in InspectionType /\ q.status = inspection[item].status
        /\ q.assigned = inspection[item].assigned /\ q.reviewer = inspection[item].reviewer
        /\ q.devices \subseteq inspection[item].devices
        /\ q.findings \subseteq inspection[item].findings
    BY <2>1 DEF InspectionWithout, InspectionType
  <2> HIDE DEF q
  <2>4. inspection'[item] = q => InspectionMoves(item)
    BY <2>3 DEF InspectionMoves
  <2> QED
    BY <2>1, <2>2, <2>3, <2>4, OneInspectionMoves
<1> QED
  BY <1>2, <1>3

\* The clean-ups of removals.
LEMMA ReleasedAre ==
    ASSUME OrdersTyped, NEW docs,
           \A a \in docs \cap Alarms : alarm[a].status \in OpenAlarmStatuses,
           alarm' = ReleasedAlarms(docs)
    PROVE  alarm' \in [Alarms -> AlarmType] /\ \A a \in Alarms : AlarmMoves(a)
<1> SUFFICES ASSUME NEW a \in Alarms
             PROVE  alarm'[a] \in AlarmType /\ AlarmMoves(a)
  BY DEF ReleasedAlarms
<1>1. alarm[a] \in AlarmType
  BY DEF OrdersTyped
<1>2. CASE a \in docs
  <2>1. alarm'[a] = [alarm[a] EXCEPT !.status = "pending", !.handler = Nothing, !.arrived = FALSE]
    BY <1>2 DEF ReleasedAlarms
  <2>2. alarm'[a] \in AlarmType
    BY <1>1, <2>1 DEF AlarmType
  <2>3. alarm'[a].status = "pending" /\ alarm'[a].device = alarm[a].device
    BY <1>1, <2>1 DEF AlarmType
  <2> QED
    BY <1>2, <2>2, <2>3 DEF AlarmMoves
<1>3. CASE a \notin docs
  BY <1>1, <1>3 DEF ReleasedAlarms, AlarmMoves
<1> QED
  BY <1>2, <1>3

LEMMA ReleasedPlansAre ==
    ASSUME OrdersTyped, NEW docs, NEW us,
           \A i \in docs \cap Inspections : inspection[i].status \in OpenStatuses,
           inspection' = ReleasedInspections(docs, us)
    PROVE  /\ inspection' \in [Inspections -> InspectionType]
           /\ \A i \in Inspections : InspectionMoves(i)
<1> SUFFICES ASSUME NEW i \in Inspections
             PROVE  inspection'[i] \in InspectionType /\ InspectionMoves(i)
  BY DEF ReleasedInspections
<1>1. inspection[i] \in InspectionType
  BY DEF OrdersTyped
<1>2. CASE i \in docs
  <2>1. inspection'[i] = [inspection[i] EXCEPT !.assigned = @ \ us]
    BY <1>2 DEF ReleasedInspections
  <2>2. /\ inspection'[i] \in InspectionType
        /\ inspection'[i].status = inspection[i].status
        /\ inspection'[i].devices = inspection[i].devices
        /\ inspection'[i].findings = inspection[i].findings
    BY <1>1, <2>1 DEF InspectionType
  <2> QED
    BY <1>2, <2>2 DEF InspectionMoves
<1>3. CASE i \notin docs
  BY <1>1, <1>3 DEF ReleasedInspections, InspectionMoves
<1> QED
  BY <1>2, <1>3

LEMMA RemovalMoves ==
    ASSUME OrdersTyped, ClaimsAreOpen, NEW r \in Requests, RemovalStep(r)
    PROVE  DocumentsMove
<1> DEFINE us == request[r].users  ds == request[r].devices  docs == request[r].claims
<1>1. CASE UNCHANGED <<alarm, inspection>>
  BY <1>1, NothingMoves
<1>2. CASE DisableReleasesAlarms(r)
  <2>1. \A a \in HeldAlarms(us) \cap Alarms : alarm[a].status \in OpenAlarmStatuses
    BY DEF HeldAlarms, OpenAlarmStatuses
  <2>2. alarm' = ReleasedAlarms(HeldAlarms(us)) /\ UNCHANGED inspection
    BY <1>2 DEF DisableReleasesAlarms
  <2> QED
    BY <2>1, <2>2, ReleasedAre, InspectionsStay DEF DocumentsMove
<1>3. CASE DisableReleasesInspections(r)
  <2>1. \A i \in HeldInspections(us) \cap Inspections : inspection[i].status \in OpenStatuses
    BY DEF HeldInspections
  <2>2. inspection' = ReleasedInspections(HeldInspections(us), us) /\ UNCHANGED alarm
    BY <1>3 DEF DisableReleasesInspections
  <2> QED
    BY <2>1, <2>2, ReleasedPlansAre, AlarmsStay DEF DocumentsMove
<1>4. CASE AnonymiseCommits(r)
  <2>1. /\ \A a \in docs \cap Alarms : alarm[a].status \in OpenAlarmStatuses
        /\ \A i \in docs \cap Inspections : inspection[i].status \in OpenStatuses
    BY <1>4 DEF AnonymiseCommits, Step, ClaimsAreOpen, OpenAlarmStatuses
  <2>2. alarm' = ReleasedAlarms(docs) /\ inspection' = ReleasedInspections(docs, us)
    BY <1>4 DEF AnonymiseCommits
  <2>3. alarm' \in [Alarms -> AlarmType] /\ \A a \in Alarms : AlarmMoves(a)
    BY <2>1, <2>2, ReleasedAre
  <2>4. /\ inspection' \in [Inspections -> InspectionType]
        /\ \A i \in Inspections : InspectionMoves(i)
    BY <2>1, <2>2, ReleasedPlansAre
  <2> QED
    BY <2>3, <2>4 DEF DocumentsMove
<1>5. ASSUME alarm' = [a \in Alarms |-> alarm'[a]],
             \A a \in Alarms : alarm'[a] \in {alarm[a], AlarmWithout(alarm[a], ds)}
      PROVE  alarm' \in [Alarms -> AlarmType] /\ \A a \in Alarms : AlarmMoves(a)
  <2> SUFFICES ASSUME NEW a \in Alarms
               PROVE  alarm'[a] \in AlarmType /\ AlarmMoves(a)
    BY <1>5
  <2>1. alarm[a] \in AlarmType
    BY DEF OrdersTyped
  <2>2. /\ alarm'[a] \in AlarmType
        /\ alarm'[a].status = alarm[a].status /\ alarm'[a].handler = alarm[a].handler
        /\ alarm'[a].device \in {alarm[a].device, Nothing}
    BY <1>5, <2>1 DEF AlarmWithout, AlarmType
  <2> QED
    BY <2>2 DEF AlarmMoves
<1>6. ASSUME inspection' = [i \in Inspections |-> inspection'[i]],
             \A i \in Inspections :
                inspection'[i] \in {inspection[i], InspectionWithout(inspection[i], ds),
                                    [inspection[i] EXCEPT !.devices = @ \ ds],
                                    [inspection[i] EXCEPT !.findings = @ \ ds]}
      PROVE  /\ inspection' \in [Inspections -> InspectionType]
             /\ \A i \in Inspections : InspectionMoves(i)
  <2> SUFFICES ASSUME NEW i \in Inspections
               PROVE  inspection'[i] \in InspectionType /\ InspectionMoves(i)
    BY <1>6
  <2>1. inspection[i] \in InspectionType
    BY DEF OrdersTyped
  <2>2. ASSUME NEW left \in SUBSET Devices, NEW found \in SUBSET Devices,
               left \subseteq inspection[i].devices, found \subseteq inspection[i].findings,
               inspection'[i] = [inspection[i] EXCEPT !.devices = left, !.findings = found]
        PROVE  /\ inspection'[i] \in InspectionType
               /\ inspection'[i].status = inspection[i].status
               /\ inspection'[i].assigned = inspection[i].assigned
               /\ inspection'[i].reviewer = inspection[i].reviewer
               /\ inspection'[i].devices \subseteq inspection[i].devices
               /\ inspection'[i].findings \subseteq inspection[i].findings
    BY <2>1, <2>2 DEF InspectionType
  <2> DEFINE old == inspection[i]
  <2>3. old.devices \in SUBSET Devices /\ old.findings \in SUBSET Devices
    BY <2>1 DEF InspectionType
  <2>4. /\ old = [old EXCEPT !.devices = old.devices, !.findings = old.findings]
        /\ [old EXCEPT !.devices = @ \ ds]
              = [old EXCEPT !.devices = old.devices \ ds, !.findings = old.findings]
        /\ [old EXCEPT !.findings = @ \ ds]
              = [old EXCEPT !.devices = old.devices, !.findings = old.findings \ ds]
        /\ InspectionWithout(old, ds)
              = [old EXCEPT !.devices = old.devices \ ds, !.findings = old.findings \ ds]
    BY <2>1 DEF InspectionType, InspectionWithout
  <2>5. inspection'[i] \in {old, InspectionWithout(old, ds), [old EXCEPT !.devices = @ \ ds],
                            [old EXCEPT !.findings = @ \ ds]}
    BY <1>6
  <2>6. PICK left \in {old.devices, old.devices \ ds}, found \in {old.findings, old.findings \ ds} :
           inspection'[i] = [old EXCEPT !.devices = left, !.findings = found]
    <3> HIDE DEF old
    <3> QED
      BY <2>4, <2>5
  <2>7. /\ left \in SUBSET Devices /\ found \in SUBSET Devices
        /\ left \subseteq old.devices /\ found \subseteq old.findings
    BY <2>3, <2>6
  <2>8. /\ inspection'[i] \in InspectionType
        /\ inspection'[i].status = inspection[i].status
        /\ inspection'[i].assigned = inspection[i].assigned
        /\ inspection'[i].reviewer = inspection[i].reviewer
        /\ inspection'[i].devices \subseteq inspection[i].devices
        /\ inspection'[i].findings \subseteq inspection[i].findings
    BY <2>2, <2>6, <2>7
  <2> QED
    BY <2>8 DEF InspectionMoves
<1>7. CASE DeleteCommits(r)
  <2>1. /\ alarm' = [a \in Alarms |-> alarm'[a]]
        /\ \A a \in Alarms : alarm'[a] \in {alarm[a], AlarmWithout(alarm[a], ds)}
    BY <1>7 DEF DeleteCommits
  <2>2. /\ inspection' = [i \in Inspections |-> inspection'[i]]
        /\ \A i \in Inspections :
              inspection'[i] \in {inspection[i], InspectionWithout(inspection[i], ds)}
    BY <1>7 DEF DeleteCommits
  <2> HIDE DEF ds
  <2> QED
    BY <1>5, <1>6, <2>1, <2>2 DEF DocumentsMove
<1>8. CASE DeleteClearsAlarms(r)
  <2>1. /\ alarm' = [a \in Alarms |-> alarm'[a]]
        /\ \A a \in Alarms : alarm'[a] \in {alarm[a], AlarmWithout(alarm[a], ds)}
        /\ UNCHANGED inspection
    BY <1>8 DEF DeleteClearsAlarms
  <2> HIDE DEF ds
  <2> QED
    BY <1>5, <2>1, InspectionsStay DEF DocumentsMove
<1>9. CASE DeleteClearsInspections(r)
  <2>1. /\ inspection' = [i \in Inspections |-> inspection'[i]]
        /\ \A i \in Inspections : inspection'[i] = [inspection[i] EXCEPT !.devices = @ \ ds]
        /\ UNCHANGED alarm
    BY <1>9 DEF DeleteClearsInspections
  <2> HIDE DEF ds
  <2> QED
    BY <1>6, <2>1, AlarmsStay DEF DocumentsMove
<1>10. CASE DeleteClearsFindings(r)
  <2>1. /\ inspection' = [i \in Inspections |-> inspection'[i]]
        /\ \A i \in Inspections : inspection'[i] = [inspection[i] EXCEPT !.findings = @ \ ds]
        /\ UNCHANGED alarm
    BY <1>10 DEF DeleteClearsFindings
  <2> HIDE DEF ds
  <2> QED
    BY <1>6, <2>1, AlarmsStay DEF DocumentsMove
<1>11. CASE Disable(r) \/ Anonymise(r) \/ DeleteDevice(r) \/ DeleteEnds(r)
  BY <1>1, <1>11 DEF Disable, Anonymise, DeleteDevice, DeleteEnds
<1> QED
  BY <1>2, <1>3, <1>4, <1>7, <1>8, <1>9, <1>10, <1>11 DEF RemovalStep

LEMMA OrderDocuments ==
    ASSUME OrdersInv, OrdersNext
    PROVE  DocumentsMove
<1>1. OrdersTyped /\ (\A r \in Requests : Fits(request[r])) /\ FindingsInv /\ ClaimsAreOpen
  BY DEF OrdersInv
<1>2. ASSUME NEW r \in Requests, RequestStep(r)
      PROVE  DocumentsMove
  <2>1. CASE ReportWrites(r) \/ DispatchWrites(r)
    BY <1>1, <2>1, AlarmWrites
  <2>2. CASE PlanWrites(r)
    BY <1>1, <2>2, PlanWritesMove
  <2>3. CASE ReassignWrites(r) \/ ChangeDevicesWrites(r) \/ StartWrites(r) \/ CompleteWrites(r)
    BY <1>1, <2>3, InspectionWrites
  <2>4. CASE Strip(r)
    BY <1>1, <2>4, StripMoves
  <2>5. CASE UNCHANGED <<alarm, inspection>>
    BY <1>1, <2>5, NothingMoves
  <2>6. CASE ReportAlarm(r) \/ Dispatch(r) \/ Plan(r) \/ Reassign(r) \/ ChangeDevices(r)
             \/ Start(r) \/ Complete(r) \/ Recheck(r) \/ Fail(r)
    BY <2>5, <2>6 DEF ReportAlarm, Dispatch, Plan, Reassign, ChangeDevices, Start, Complete,
       Recheck, Fail
  <2> QED
    BY <1>2, <2>1, <2>2, <2>3, <2>4, <2>6 DEF RequestStep
<1>3. ASSUME NEW u \in Users, Enable(u)
      PROVE  DocumentsMove
  BY <1>1, <1>3, NothingMoves DEF Enable
<1>4. CASE SingleUpdate
  BY <1>1, <1>3, <1>4, AlarmUpdates, InspectionUpdates DEF SingleUpdate
<1> QED
  BY <1>1, <1>2, <1>4, RemovalMoves DEF OrdersNext

-----------------------------------------------------------------------------
(* What requests, alarms and plans hold, at all times *)

LEMMA UsersAndDevices ==
    ASSUME OrdersTyped, OrdersNext
    PROVE  user' \in [Users -> {"active", "disabled"}] /\ device' \subseteq Devices
<1>1. user \in [Users -> {"active", "disabled"}] /\ device \subseteq Devices
  BY DEF OrdersTyped
<1>2. CASE UNCHANGED <<user, device>>
  BY <1>1, <1>2
<1>3. ASSUME NEW r \in Requests, RequestStep(r)
      PROVE  UNCHANGED <<user, device>>
  BY <1>3 DEF RequestStep, ReportAlarm, ReportWrites, Dispatch, DispatchWrites, Plan, PlanWrites,
     Reassign, ReassignWrites, ChangeDevices, ChangeDevicesWrites, Start, StartWrites, Complete,
     CompleteWrites, Recheck, Strip, Fail
<1>4. ASSUME NEW r \in Requests, RemovalStep(r)
      PROVE  /\ user' \in [Users -> {"active", "disabled"}]
             /\ device' \subseteq device
  BY <1>1, <1>4 DEF RemovalStep, Disable, DisableReleasesAlarms, DisableReleasesInspections,
     Anonymise, AnonymiseCommits, DeleteDevice, DeleteCommits, DeleteClearsAlarms,
     DeleteClearsInspections, DeleteClearsFindings, DeleteEnds
<1>5. CASE SingleUpdate
  BY <1>1, <1>5 DEF SingleUpdate, Arrive, Resolve, FalseAlarm, CancelAlarm, AlarmStep,
     CancelInspection, DeleteInspection, MarkOverdue, Review, InspectionStep, Enable
<1> QED
  BY <1>1, <1>2, <1>3, <1>4, <1>5 DEF OrdersNext

LEMMA FindingsStep ==
    ASSUME OrdersTyped, FindingsInv, DocumentsMove
    PROVE  FindingsInv'
<1> SUFFICES ASSUME NEW i \in Inspections, inspection'[i].findings # {}
             PROVE  inspection'[i].status = "completed"
  BY DEF FindingsInv
<1>1. InspectionMoves(i)
  BY DEF DocumentsMove
<1>2. inspection[i].findings # {} => inspection[i].status = "completed"
  BY DEF FindingsInv
<1> QED
  BY <1>1, <1>2 DEF InspectionMoves, OpenStatuses

\* A request is only changed by its own steps, and none of those that write alarms
\* and plans begins a removal.
Removals == {"disable", "anonymise", "delete_device"}

LEMMA OneActs ==
    ASSUME OrdersTyped, OrdersNext, NEW t \in Requests, request'[t] # request[t]
    PROVE  RequestStep(t) \/ RemovalStep(t)
<1>1. request \in [Requests -> OrderType]
  BY DEF OrdersTyped
<1>2. ~SingleUpdate
  BY DEF SingleUpdate, Arrive, Resolve, FalseAlarm, CancelAlarm, AlarmStep,
     CancelInspection, DeleteInspection, MarkOverdue, Review, InspectionStep, Enable
<1>3. PICK r \in Requests : RequestStep(r) \/ RemovalStep(r)
  BY <1>2 DEF OrdersNext
<1>4. ASSUME NEW q, Goes(r, q)
      PROVE  t = r
  BY <1>1, <1>4 DEF Goes
<1>5. ASSUME NEW item, Rechecks(r, item)
      PROVE  t = r
  BY <1>4, <1>5 DEF Rechecks, Answers
<1>6. ASSUME RequestStep(r)
      PROVE  t = r
  <2>1. CASE ReportAlarm(r) \/ ReportWrites(r) \/ Dispatch(r) \/ DispatchWrites(r)
    BY <1>4, <2>1 DEF ReportAlarm, ReportWrites, Dispatch, DispatchWrites, Answers
  <2>2. CASE Plan(r) \/ Reassign(r) \/ ChangeDevices(r) \/ Start(r) \/ Complete(r)
    BY <1>4, <2>2 DEF Plan, Reassign, ChangeDevices, Start, Complete
  <2>3. CASE PlanWrites(r) \/ ChangeDevicesWrites(r) \/ CompleteWrites(r)
    BY <1>4, <1>5, <2>3 DEF PlanWrites, ChangeDevicesWrites, CompleteWrites, Answers
  <2>4. CASE ReassignWrites(r) \/ StartWrites(r) \/ Recheck(r) \/ Strip(r) \/ Fail(r)
    BY <1>4, <2>4 DEF ReassignWrites, StartWrites, Recheck, Strip, Fail, Answers
  <2> QED
    BY <1>6, <2>1, <2>2, <2>3, <2>4 DEF RequestStep
<1>7. ASSUME RemovalStep(r)
      PROVE  t = r
  BY <1>4, <1>7 DEF RemovalStep, Disable, DisableReleasesAlarms, DisableReleasesInspections,
     Anonymise, AnonymiseCommits, DeleteDevice, DeleteCommits, DeleteClearsAlarms,
     DeleteClearsInspections, DeleteClearsFindings, DeleteEnds, Answers
<1> QED
  BY <1>3, <1>6, <1>7

LEMMA NoRemovalBegins ==
    ASSUME OrdersTyped, \A t \in Requests : Fits(request[t]), NEW r \in Requests, RequestStep(r)
    PROVE  request'[r].op \notin Removals
<1>1. request \in [Requests -> OrderType] /\ Fits(request[r]) /\ request[r] \in OrderType
  BY DEF OrdersTyped
<1>2. ASSUME NEW q, Goes(r, q), q.op \notin Removals
      PROVE  request'[r].op \notin Removals
  BY <1>1, <1>2 DEF Goes
<1>3. ASSUME Answers(r)
      PROVE  request'[r].op \notin Removals
  BY <1>2, <1>3, NoRequestIs DEF Answers, Removals
<1>4. ASSUME NEW op, NEW step, NEW item, NEW us, NEW ds, op \notin Removals,
             Goes(r, Request(op, step, item, us, ds))
      PROVE  request'[r].op \notin Removals
  <2>1. Request(op, step, item, us, ds).op = op
    BY DEF Request
  <2> QED
    BY <1>2, <1>4, <2>1
<1>5. ASSUME NEW item, request[r].op \notin Removals,
             Goes(r, [request[r] EXCEPT !.step = "recheck", !.doc = item])
      PROVE  request'[r].op \notin Removals
  <2>1. [request[r] EXCEPT !.step = "recheck", !.doc = item].op = request[r].op
    BY <1>1 DEF OrderType
  <2> QED
    BY <1>2, <1>5, <2>1
<1>6. CASE ReportAlarm(r) \/ Dispatch(r) \/ Plan(r) \/ Reassign(r) \/ ChangeDevices(r)
           \/ Complete(r)
  <2>1. \E op \in OrderOps \ Removals : \E step, item, us, ds :
           Goes(r, Request(op, step, item, us, ds))
    BY <1>6 DEF ReportAlarm, Dispatch, Plan, Reassign, ChangeDevices, Complete, OrderOps,
       Removals
  <2> QED
    BY <1>4, <2>1
<1>7. CASE Start(r)
  <2>1. PICK i \in OpenInspections, u \in Users :
           Goes(r, [Request("start", "write", i, {u}, {}) EXCEPT !.seen = inspection[i].start])
    BY <1>7 DEF Start
  <2>2. [Request("start", "write", i, {u}, {}) EXCEPT !.seen = inspection[i].start].op = "start"
    BY DEF Request
  <2> QED
    BY <1>2, <2>1, <2>2 DEF Removals
<1>8. CASE ReportWrites(r) \/ PlanWrites(r) \/ ChangeDevicesWrites(r) \/ CompleteWrites(r)
  <2>1. /\ request[r].op \notin Removals
        /\ \/ Answers(r)
           \/ \E item : Goes(r, [request[r] EXCEPT !.step = "recheck", !.doc = item])
    BY <1>8 DEF ReportWrites, PlanWrites, ChangeDevicesWrites, CompleteWrites, Step, Removals,
       Rechecks
  <2> QED
    BY <1>3, <1>5, <2>1
<1>9. CASE DispatchWrites(r) \/ ReassignWrites(r) \/ StartWrites(r) \/ Strip(r) \/ Fail(r)
  BY <1>3, <1>9 DEF DispatchWrites, ReassignWrites, StartWrites, Strip, Fail
<1>10. CASE Recheck(r)
  <2> DEFINE q == [request[r] EXCEPT !.step = "strip", !.devices = request[r].devices \ device]
  <2>1. q.op = request[r].op /\ request[r].op \notin Removals
    BY <1>1, <1>10 DEF OrderType, Recheck, Fits, Removals
  <2>2. Answers(r) \/ Goes(r, q)
    BY <1>10 DEF Recheck
  <2> HIDE DEF q
  <2> QED
    BY <1>2, <1>3, <2>1, <2>2
<1> QED
  BY <1>6, <1>7, <1>8, <1>9, <1>10 DEF RequestStep

\* What the request of a removal becomes.
LEMMA GoesOn ==
    ASSUME OrdersTyped, NEW r \in Requests, NEW step,
           Goes(r, [request[r] EXCEPT !.step = step])
    PROVE  /\ request'[r].step = step /\ request'[r].op = request[r].op
           /\ request'[r].users = request[r].users /\ request'[r].devices = request[r].devices
           /\ request'[r].claims = request[r].claims
<1>1. request'[r] = [request[r] EXCEPT !.step = step] /\ request[r] \in OrderType
  BY DEF OrdersTyped, Goes
<1> QED
  BY <1>1 DEF OrderType

LEMMA DisableBegins ==
    ASSUME OrdersTyped, NEW r \in Requests, Disable(r)
    PROVE  /\ request'[r].op = "disable" /\ request'[r].step = "alarms"
           /\ \E u \in Users : /\ request'[r].users = {u}
                               /\ user' = [user EXCEPT ![u] = "disabled"]
<1>1. PICK u \in Users : /\ user' = [user EXCEPT ![u] = "disabled"]
                         /\ Goes(r, Request("disable", "alarms", Nothing, {u}, {}))
  BY DEF Disable
<1>2. request'[r] = Request("disable", "alarms", Nothing, {u}, {})
  BY <1>1 DEF OrdersTyped, Goes
<1>3. /\ request'[r].op = "disable" /\ request'[r].step = "alarms"
      /\ request'[r].users = {u}
  BY <1>2 DEF Request
<1> QED
  BY <1>1, <1>3

LEMMA AnonymiseBegins ==
    ASSUME OrdersTyped, NEW r \in Requests, Anonymise(r)
    PROVE  /\ request'[r].op = "anonymise" /\ request'[r].step = "commit"
           /\ \E u \in Users : /\ request'[r].users = {u}
                               /\ request'[r].claims = HeldAlarms({u}) \cup HeldInspections({u})
<1>1. PICK u \in Users :
         Goes(r, [Request("anonymise", "commit", Nothing, {u}, {})
                  EXCEPT !.claims = HeldAlarms({u}) \cup HeldInspections({u})])
  BY DEF Anonymise
<1>2. request'[r] = [Request("anonymise", "commit", Nothing, {u}, {})
                     EXCEPT !.claims = HeldAlarms({u}) \cup HeldInspections({u})]
  BY <1>1 DEF OrdersTyped, Goes
<1> QED
  BY <1>2 DEF Request

LEMMA DeleteBegins ==
    ASSUME OrdersTyped, NEW r \in Requests, DeleteDevice(r)
    PROVE  /\ request'[r].op = "delete_device"
           /\ \E d \in device :
                 /\ request'[r].devices = {d}
                 /\ \/ request'[r].step = "alarms"
                    \/ request'[r].step = "commit" /\ request'[r].claims = Referring({d})
<1> DEFINE Begun(d) == Request("delete_device", "alarms", Nothing, {}, {d})
           Claiming(d) == [Begun(d) EXCEPT !.step = "commit", !.claims = Referring({d})]
<1>1. PICK d \in device : Goes(r, Begun(d)) \/ Goes(r, Claiming(d))
  BY DEF DeleteDevice
<1>2. request'[r] = Begun(d) \/ request'[r] = Claiming(d)
  BY <1>1 DEF OrdersTyped, Goes
<1>3. /\ Begun(d).op = "delete_device" /\ Begun(d).step = "alarms" /\ Begun(d).devices = {d}
      /\ Claiming(d).op = "delete_device" /\ Claiming(d).step = "commit"
      /\ Claiming(d).devices = {d} /\ Claiming(d).claims = Referring({d})
  BY DEF Request
<1> HIDE DEF Begun, Claiming
<1> QED
  BY <1>2, <1>3

LEMMA AnswersNothing ==
    ASSUME OrdersTyped, NEW r \in Requests, Answers(r)
    PROVE  request'[r].op = "none" /\ request'[r].step = "done"
BY NoRequestIs DEF OrdersTyped, Answers, Goes

LEMMA RemovalActs ==
    ASSUME OrdersTyped, \A r \in Requests : Fits(request[r]), OrdersNext, NEW t \in Requests,
           request'[t] # request[t]
    PROVE  /\ request'[t].op = "disable" => Disable(t) \/ DisableReleasesAlarms(t)
           /\ request'[t].op = "anonymise" => Anonymise(t)
           /\ request'[t].op = "delete_device" =>
                 \/ DeleteDevice(t) \/ DeleteClearsAlarms(t)
                 \/ DeleteClearsInspections(t) \/ DeleteClearsFindings(t)
<1> SUFFICES ASSUME request'[t].op \in Removals
             PROVE  /\ request'[t].op = "disable" => Disable(t) \/ DisableReleasesAlarms(t)
                    /\ request'[t].op = "anonymise" => Anonymise(t)
                    /\ request'[t].op = "delete_device" =>
                          \/ DeleteDevice(t) \/ DeleteClearsAlarms(t)
                          \/ DeleteClearsInspections(t) \/ DeleteClearsFindings(t)
  BY DEF Removals
<1>1. RemovalStep(t)
  BY OneActs, NoRemovalBegins
<1>2. ~Answers(t)
  BY AnswersNothing DEF Removals
<1>3. \/ Disable(t) \/ DisableReleasesAlarms(t) \/ Anonymise(t) \/ DeleteDevice(t)
      \/ DeleteClearsAlarms(t) \/ DeleteClearsInspections(t) \/ DeleteClearsFindings(t)
  BY <1>1, <1>2 DEF RemovalStep, DisableReleasesInspections, AnonymiseCommits, DeleteCommits,
     DeleteEnds
<1>4. Disable(t) => request'[t].op = "disable"
  BY DisableBegins
<1>5. Anonymise(t) => request'[t].op = "anonymise"
  BY AnonymiseBegins
<1>6. DeleteDevice(t) => request'[t].op = "delete_device"
  BY DeleteBegins
<1>7. DisableReleasesAlarms(t) => request'[t].op = "disable"
  BY GoesOn DEF DisableReleasesAlarms, Step
<1>8. DeleteClearsAlarms(t) \/ DeleteClearsInspections(t) \/ DeleteClearsFindings(t)
         => request'[t].op = "delete_device"
  BY GoesOn DEF DeleteClearsAlarms, DeleteClearsInspections, DeleteClearsFindings, Step
<1> QED
  BY <1>3, <1>4, <1>5, <1>6, <1>7, <1>8

LEMMA ClaimsStep ==
    ASSUME OrdersInv, OrdersNext
    PROVE  ClaimsAreOpen'
<1>1. /\ OrdersTyped /\ (\A t \in Requests : Fits(request[t])) /\ ClaimsAreOpen
      /\ request \in [Requests -> OrderType]
  BY DEF OrdersInv, OrdersTyped
<1>2. SUFFICES ASSUME NEW t \in Requests, request'[t].op = "anonymise"
               PROVE  /\ \A a \in request'[t].claims \cap Alarms :
                            alarm'[a].status \in {"pending", "processing"}
                      /\ \A i \in request'[t].claims \cap Inspections :
                            inspection'[i].status \in OpenStatuses
  BY DEF ClaimsAreOpen
<1>3. CASE request'[t] = request[t]
  <2>1. /\ \A a \in request[t].claims \cap Alarms :
              alarm[a].status \in {"pending", "processing"} /\ Claimed(a)
        /\ \A i \in request[t].claims \cap Inspections :
              inspection[i].status \in OpenStatuses /\ Claimed(i)
    BY <1>1, <1>2, <1>3 DEF ClaimsAreOpen, Claimed
  <2>2. (\A a \in Alarms : AlarmMoves(a)) /\ \A i \in Inspections : InspectionMoves(i)
    BY OrderDocuments DEF DocumentsMove
  <2>3. ASSUME NEW a \in request[t].claims \cap Alarms
        PROVE  alarm'[a].status \in {"pending", "processing"}
    BY <2>1, <2>2 DEF AlarmMoves
  <2>4. ASSUME NEW i \in request[t].claims \cap Inspections
        PROVE  inspection'[i].status \in OpenStatuses
    BY <2>1, <2>2 DEF InspectionMoves, OpenStatuses
  <2> QED
    BY <1>3, <2>3, <2>4
<1>4. CASE request'[t] # request[t]
  <2>1. Anonymise(t)
    BY <1>1, <1>2, <1>4, RemovalActs
  <2>2. PICK u \in Users : request'[t].claims = HeldAlarms({u}) \cup HeldInspections({u})
    BY <1>1, <2>1, AnonymiseBegins
  <2>3. UNCHANGED <<alarm, inspection>>
    BY <2>1 DEF Anonymise
  <2>4. Alarms \cap Inspections = {}
    BY WorkOrdersAssumption
  <2> QED
    BY <2>2, <2>3, <2>4 DEF HeldAlarms, HeldInspections
<1> QED
  BY <1>3, <1>4

LEMMA OrdersInvInit ==
    ASSUME OrdersInit
    PROVE  OrdersInv
<1>1. NoAlarm \in AlarmType /\ NoInspection \in InspectionType
      /\ NoInspection.findings = {}
  BY DEF NoAlarm, NoInspection, AlarmType, InspectionType
<1>2. OrdersTyped
  BY <1>1, NoRequestIs DEF OrdersInit, OrdersTyped
<1>3. \A r \in Requests : request[r] = NoRequest
  BY DEF OrdersInit
<1>4. FindingsInv
  BY <1>1 DEF OrdersInit, FindingsInv
<1> QED
  BY <1>2, <1>3, <1>4, NoRequestIs DEF OrdersInv, ClaimsAreOpen

LEMMA OrdersInvStep ==
    ASSUME OrdersInv, OrdersNext
    PROVE  OrdersInv'
<1>1. OrdersTyped /\ (\A r \in Requests : Fits(request[r])) /\ FindingsInv
  BY DEF OrdersInv
<1>2. request' \in [Requests -> OrderType] /\ \A r \in Requests : Fits(request'[r])
  BY <1>1, OrderRequests
<1>3. DocumentsMove
  BY OrderDocuments
<1>4. OrdersTyped'
  BY <1>1, <1>2, <1>3, UsersAndDevices DEF DocumentsMove, OrdersTyped
<1>5. FindingsInv' /\ ClaimsAreOpen'
  BY <1>1, <1>3, FindingsStep, ClaimsStep
<1> QED
  BY <1>2, <1>4, <1>5 DEF OrdersInv, Fits

LEMMA OrdersInvStutters ==
    ASSUME OrdersInv, UNCHANGED orderVars
    PROVE  OrdersInv'
BY DEF OrdersInv, orderVars, OrdersTyped, Fits, FindingsInv, ClaimsAreOpen

\* What alarms, plans and the requests that work on them hold: above all that a
\* transaction which releases the work of a user it makes anonymous has claimed
\* open documents only, whatever is written between its reads and its commit.
THEOREM OrdersInvariant == OrdersSpec => []OrdersInv
<1>1. OrdersInv /\ [OrdersNext]_orderVars => OrdersInv'
  BY OrdersInvStep, OrdersInvStutters
<1> QED
  BY <1>1, OrdersInvInit, PTL DEF OrdersSpec

\* What was closed stays as it was (dispatchAlarm, completeInspection,
\* releaseOpenAssignments): no late request, scheduler run or release of a user's work
\* touches the status, the handler or the assignees of a closed alarm or plan.
THEOREM ClosedStaysClosed == OrdersSpec => ClosedIsFinal
<1> DEFINE Final ==
       /\ \A a \in Alarms :
             alarm[a].status \in {"resolved", "false_alarm", "cancelled"} =>
                 /\ alarm'[a].status = alarm[a].status
                 /\ alarm'[a].handler = alarm[a].handler
       /\ \A i \in Inspections :
             inspection[i].status \in {"completed", "cancelled"} =>
                 \/ inspection'[i].status = "deleted"
                 \/ /\ inspection'[i].status = inspection[i].status
                    /\ inspection'[i].assigned = inspection[i].assigned
                    /\ inspection[i].reviewer # Nothing =>
                           inspection'[i].reviewer = inspection[i].reviewer
<1>1. ASSUME OrdersInv, OrdersNext
      PROVE  Final
  <2>1. (\A a \in Alarms : AlarmMoves(a)) /\ \A i \in Inspections : InspectionMoves(i)
    BY <1>1, OrderDocuments DEF DocumentsMove
  <2>2. ASSUME NEW a \in Alarms, alarm[a].status \in {"resolved", "false_alarm", "cancelled"}
        PROVE  alarm'[a].status = alarm[a].status /\ alarm'[a].handler = alarm[a].handler
    BY <2>1, <2>2 DEF AlarmMoves, OpenAlarmStatuses
  <2>3. ASSUME NEW i \in Inspections, inspection[i].status \in {"completed", "cancelled"}
        PROVE  \/ inspection'[i].status = "deleted"
               \/ /\ inspection'[i].status = inspection[i].status
                  /\ inspection'[i].assigned = inspection[i].assigned
                  /\ inspection[i].reviewer # Nothing =>
                         inspection'[i].reviewer = inspection[i].reviewer
    BY <2>1, <2>3 DEF InspectionMoves, OpenStatuses
  <2> QED
    BY <2>2, <2>3
<1>2. OrdersInv /\ [OrdersNext]_orderVars => [Final]_orderVars
  BY <1>1
<1> QED
  BY <1>2, OrdersInvariant, PTL DEF OrdersSpec, ClosedIsFinal

-----------------------------------------------------------------------------
(* What documents refer to *)

LEMMA RefsAre ==
    ASSUME OrdersTyped
    PROVE  /\ \A a \in Alarms, u \in Users :
                 u \in Refs(a) <=> alarm[a].status = "processing" /\ alarm[a].handler = u
           /\ \A a \in Alarms, d \in Devices : d \in Refs(a) <=> alarm[a].device = d
           /\ \A i \in Inspections, u \in Users :
                 u \in Refs(i) <=> inspection[i].status \in OpenStatuses
                                   /\ u \in inspection[i].assigned
           /\ \A i \in Inspections, d \in Devices :
                 d \in Refs(i) <=> d \in inspection[i].devices \cup inspection[i].findings
<1>1. /\ Users \cap Devices = {} /\ Alarms \cap Inspections = {}
      /\ Nothing \notin Users /\ Nothing \notin Devices
  BY WorkOrdersAssumption
<1>2. ASSUME NEW a \in Alarms
      PROVE  /\ \A u \in Users :
                   u \in Refs(a) <=> alarm[a].status = "processing" /\ alarm[a].handler = u
             /\ \A d \in Devices : d \in Refs(a) <=> alarm[a].device = d
  <2>1. alarm[a].handler \in Users \cup {Nothing} /\ alarm[a].device \in Devices \cup {Nothing}
    BY DEF OrdersTyped, AlarmType
  <2> QED
    BY <1>1, <2>1 DEF Refs
<1>3. ASSUME NEW i \in Inspections
      PROVE  /\ \A u \in Users :
                   u \in Refs(i) <=> inspection[i].status \in OpenStatuses
                                     /\ u \in inspection[i].assigned
             /\ \A d \in Devices :
                   d \in Refs(i) <=> d \in inspection[i].devices \cup inspection[i].findings
  <2>1. /\ inspection[i].assigned \subseteq Users /\ inspection[i].devices \subseteq Devices
        /\ inspection[i].findings \subseteq Devices /\ i \notin Alarms
    BY <1>1 DEF OrdersTyped, InspectionType
  <2> QED
    BY <1>1, <2>1 DEF Refs
<1> QED
  BY <1>2, <1>3

LEMMA RefsBecome ==
    ASSUME OrdersTyped'
    PROVE  /\ \A a \in Alarms, u \in Users :
                 u \in Refs(a)' <=> alarm'[a].status = "processing" /\ alarm'[a].handler = u
           /\ \A a \in Alarms, d \in Devices : d \in Refs(a)' <=> alarm'[a].device = d
           /\ \A i \in Inspections, u \in Users :
                 u \in Refs(i)' <=> inspection'[i].status \in OpenStatuses
                                    /\ u \in inspection'[i].assigned
           /\ \A i \in Inspections, d \in Devices :
                 d \in Refs(i)' <=> d \in inspection'[i].devices \cup inspection'[i].findings
<1>1. /\ Users \cap Devices = {} /\ Alarms \cap Inspections = {}
      /\ Nothing \notin Users /\ Nothing \notin Devices
  BY WorkOrdersAssumption
<1>2. ASSUME NEW a \in Alarms
      PROVE  /\ \A u \in Users :
                   u \in Refs(a)' <=> alarm'[a].status = "processing" /\ alarm'[a].handler = u
             /\ \A d \in Devices : d \in Refs(a)' <=> alarm'[a].device = d
  <2>1. alarm'[a].handler \in Users \cup {Nothing} /\ alarm'[a].device \in Devices \cup {Nothing}
    BY DEF OrdersTyped, AlarmType
  <2> QED
    BY <1>1, <2>1 DEF Refs
<1>3. ASSUME NEW i \in Inspections
      PROVE  /\ \A u \in Users :
                   u \in Refs(i)' <=> inspection'[i].status \in OpenStatuses
                                      /\ u \in inspection'[i].assigned
             /\ \A d \in Devices :
                   d \in Refs(i)' <=> d \in inspection'[i].devices \cup inspection'[i].findings
  <2>1. /\ inspection'[i].assigned \subseteq Users /\ inspection'[i].devices \subseteq Devices
        /\ inspection'[i].findings \subseteq Devices /\ i \notin Alarms
    BY <1>1 DEF OrdersTyped, InspectionType
  <2> QED
    BY <1>1, <2>1 DEF Refs
<1> QED
  BY <1>2, <1>3

\* A reference that overlapped a removal stays marked as long as it stands, and a new
\* one to what is being removed, or out of service, is marked.
LEMMA OverlapsAre ==
    ASSUME OrdersNext, NEW item \in OrderDocs, NEW x \in Users \cup Devices, x \in Refs(item)',
           \/ <<item, x>> \in overlap
           \/ x \notin Refs(item) /\ (Removing(x) \/ x \in Users \ ActiveUsers)
    PROVE  <<item, x>> \in overlap'
<1>1. CASE UNCHANGED <<alarm, inspection>>
  <2>1. Refs(item)' = Refs(item)
    BY <1>1 DEF Refs
  <2> QED
    BY <1>1, <2>1 DEF OrdersNext, Overlaps
<1>2. CASE ~UNCHANGED <<alarm, inspection>>
  <2>1. overlap' = {p \in (Alarms \cup Inspections) \X (Users \cup Devices) :
            /\ p[2] \in Refs(p[1])'
            /\ \/ p \in overlap
               \/ p[2] \notin Refs(p[1]) /\ (Removing(p[2]) \/ p[2] \in Users \ ActiveUsers)}
    BY <1>2 DEF OrdersNext, Overlaps
  <2> QED
    BY <2>1 DEF OrderDocs
<1> QED
  BY <1>1, <1>2

LEMMA ClearedStays ==
    ASSUME OrdersNext, NEW x \in Users \cup Devices, Removing(x), NEW docs \in SUBSET OrderDocs,
           Cleared(x, docs)
    PROVE  Cleared(x, docs)'
BY OverlapsAre DEF Cleared

-----------------------------------------------------------------------------
(* What a removal has dealt with *)

LEMMA DisableStep ==
    ASSUME OrdersInv, DisableInv, OrdersNext
    PROVE  DisableInv'
<1>1. /\ OrdersTyped /\ (\A r \in Requests : Fits(request[r])) /\ OrdersTyped'
      /\ request \in [Requests -> OrderType]
  BY OrdersInvStep DEF OrdersInv, OrdersTyped
<1>2. SUFFICES ASSUME NEW t \in Requests, request'[t].op = "disable",
                      request'[t].step = "inspections", NEW u \in request'[t].users
               PROVE  Cleared(u, Alarms)'
  BY DEF DisableInv, Step
<1>3. CASE request'[t] = request[t]
  <2>1. Cleared(u, Alarms) /\ Removing(u) /\ u \in Users
    BY <1>1, <1>2, <1>3 DEF DisableInv, Step, Removing, OrderType
  <2> QED
    BY <2>1, ClearedStays DEF OrderDocs
<1>4. CASE request'[t] # request[t]
  <2>1. DisableReleasesAlarms(t)
    BY <1>1, <1>2, <1>4, RemovalActs, DisableBegins
  <2>2. u \in request[t].users /\ u \in Users
    BY <1>1, <1>2, <2>1, GoesOn DEF DisableReleasesAlarms, OrderType
  <2>3. ASSUME NEW a \in Alarms, u \in Refs(a)'
        PROVE  FALSE
    <3>1. alarm'[a].status = "processing" /\ alarm'[a].handler = u
      BY <1>1, <2>2, <2>3, RefsBecome
    <3>2. alarm' = ReleasedAlarms(HeldAlarms(request[t].users))
      BY <2>1 DEF DisableReleasesAlarms
    <3>3. CASE a \in HeldAlarms(request[t].users)
      <4>1. alarm'[a] = [alarm[a] EXCEPT !.status = "pending", !.handler = Nothing,
                                         !.arrived = FALSE]
        BY <3>2, <3>3 DEF ReleasedAlarms
      <4> QED
        BY <1>1, <3>1, <4>1 DEF OrdersTyped, AlarmType
    <3>4. CASE a \notin HeldAlarms(request[t].users)
      BY <2>2, <3>1, <3>2, <3>4 DEF ReleasedAlarms, HeldAlarms
    <3> QED
      BY <3>3, <3>4
  <2> QED
    BY <2>3 DEF Cleared
<1> QED
  BY <1>3, <1>4

LEMMA AnonymiseStep ==
    ASSUME OrdersInv, AnonymiseInv, OrdersNext
    PROVE  AnonymiseInv'
<1>1. /\ OrdersTyped /\ (\A r \in Requests : Fits(request[r])) /\ OrdersTyped'
      /\ request \in [Requests -> OrderType]
  BY OrdersInvStep DEF OrdersInv, OrdersTyped
<1>2. SUFFICES ASSUME NEW t \in Requests, request'[t].op = "anonymise",
                      NEW u \in request'[t].users
               PROVE  \A item \in OrderDocs \ request'[t].claims :
                         u \in Refs(item)' => <<item, u>> \in overlap'
  BY DEF AnonymiseInv, Cleared
<1>3. CASE request'[t] = request[t]
  <2>1. PICK docs \in SUBSET OrderDocs : docs = OrderDocs \ request[t].claims
    OBVIOUS
  <2>2. Cleared(u, docs) /\ Removing(u) /\ u \in Users
    BY <1>1, <1>2, <1>3, <2>1 DEF AnonymiseInv, Removing, OrderType
  <2>3. Cleared(u, docs)'
    BY <2>2, ClearedStays
  <2> QED
    BY <1>3, <2>1, <2>3 DEF Cleared
<1>4. CASE request'[t] # request[t]
  <2>1. Anonymise(t)
    BY <1>1, <1>2, <1>4, RemovalActs
  <2>2. u \in Users /\ request'[t].claims = HeldAlarms({u}) \cup HeldInspections({u})
    BY <1>1, <1>2, <2>1, AnonymiseBegins
  <2>3. UNCHANGED <<alarm, inspection>>
    BY <2>1 DEF Anonymise
  <2>4. ASSUME NEW item \in OrderDocs, u \in Refs(item)'
        PROVE  item \in request'[t].claims
    <3>1. CASE item \in Alarms
      BY <1>1, <2>2, <2>3, <2>4, <3>1, RefsBecome DEF HeldAlarms
    <3>2. CASE item \in Inspections
      BY <1>1, <2>2, <2>3, <2>4, <3>2, RefsBecome DEF HeldInspections
    <3> QED
      BY <3>1, <3>2 DEF OrderDocs
  <2> QED
    BY <2>4
<1> QED
  BY <1>3, <1>4

LEMMA NewlyNamed ==
    ASSUME OrdersInv, OrdersNext, NEW i \in Inspections, NEW d \in Devices, Named(i, d)',
           ~Named(i, d)
    PROVE  d \notin Refs(i)
<1>1. OrdersTyped /\ FindingsInv /\ InspectionMoves(i)
  BY OrderDocuments DEF OrdersInv, DocumentsMove
<1>2. inspection[i].findings = {}
  BY <1>1 DEF FindingsInv, InspectionMoves, OpenStatuses, Named
<1> QED
  BY <1>1, <1>2, RefsAre DEF Named

LEMMA DeleteStep ==
    ASSUME OrdersInv, DeleteInv, OrdersNext
    PROVE  DeleteInv'
<1>1. /\ OrdersTyped /\ (\A r \in Requests : Fits(request[r])) /\ OrdersTyped'
      /\ request \in [Requests -> OrderType]
  BY OrdersInvStep DEF OrdersInv, OrdersTyped
<1>2. SUFFICES ASSUME NEW t \in Requests, request'[t].op = "delete_device",
                      NEW d \in request'[t].devices
               PROVE  /\ request'[t].step = "commit" =>
                            \A item \in OrderDocs \ request'[t].claims :
                               d \in Refs(item)' => <<item, d>> \in overlap'
                      /\ request'[t].step \in {"inspections", "findings", "device"} =>
                            Cleared(d, Alarms)'
                      /\ request'[t].step = "findings" =>
                            \A i \in Inspections : Named(i, d)' =>
                               (d \in Refs(i)' => <<i, d>> \in overlap')
                      /\ request'[t].step = "device" => Cleared(d, Inspections)'
  BY DEF DeleteInv, Cleared
<1>3. CASE request'[t] = request[t]
  <2>1. Removing(d) /\ d \in Devices
    BY <1>1, <1>2, <1>3 DEF Removing, OrderType
  <2>2. ASSUME request'[t].step = "commit", NEW item \in OrderDocs \ request'[t].claims,
               d \in Refs(item)'
        PROVE  <<item, d>> \in overlap'
    <3>1. d \in Refs(item) => <<item, d>> \in overlap
      BY <1>2, <1>3, <2>2 DEF DeleteInv, Cleared
    <3> QED
      BY <2>1, <2>2, <3>1, OverlapsAre
  <2>3. request'[t].step \in {"inspections", "findings", "device"} => Cleared(d, Alarms)'
    <3>1. request'[t].step \in {"inspections", "findings", "device"} => Cleared(d, Alarms)
      BY <1>2, <1>3 DEF DeleteInv
    <3> QED
      BY <2>1, <3>1, ClearedStays DEF OrderDocs
  <2>4. ASSUME request'[t].step = "findings", NEW i \in Inspections, Named(i, d)',
               d \in Refs(i)'
        PROVE  <<i, d>> \in overlap'
    <3>1. Named(i, d) => (d \in Refs(i) => <<i, d>> \in overlap)
      BY <1>2, <1>3, <2>4 DEF DeleteInv, Cleared
    <3>2. ~Named(i, d) => d \notin Refs(i)
      BY <2>1, <2>4, NewlyNamed
    <3> QED
      BY <2>1, <2>4, <3>1, <3>2, OverlapsAre DEF OrderDocs
  <2>5. request'[t].step = "device" => Cleared(d, Inspections)'
    <3>1. request'[t].step = "device" => Cleared(d, Inspections)
      BY <1>2, <1>3 DEF DeleteInv
    <3> QED
      BY <2>1, <3>1, ClearedStays DEF OrderDocs
  <2> QED
    BY <2>2, <2>3, <2>4, <2>5
<1>4. CASE DeleteDevice(t)
  <2>1. /\ d \in Devices
        /\ \/ request'[t].step = "alarms"
           \/ request'[t].step = "commit" /\ request'[t].claims = Referring({d})
    BY <1>1, <1>2, <1>4, DeleteBegins DEF OrdersTyped
  <2>2. UNCHANGED <<alarm, inspection>>
    BY <1>4 DEF DeleteDevice
  <2>3. ASSUME NEW item \in OrderDocs, d \in Refs(item)'
        PROVE  item \in Referring({d})
    <3>1. CASE item \in Alarms
      BY <1>1, <2>1, <2>2, <2>3, <3>1, RefsBecome DEF Referring
    <3>2. CASE item \in Inspections
      BY <1>1, <2>1, <2>2, <2>3, <3>2, RefsBecome DEF Referring
    <3> QED
      BY <3>1, <3>2 DEF OrderDocs
  <2> QED
    BY <2>1, <2>3
<1>5. CASE DeleteClearsAlarms(t)
  <2>1. request'[t].step = "inspections" /\ d \in request[t].devices /\ d \in Devices
    BY <1>1, <1>2, <1>5, GoesOn DEF DeleteClearsAlarms, OrderType
  <2>2. ASSUME NEW a \in Alarms
        PROVE  d \notin Refs(a)'
    <3>1. alarm'[a] = AlarmWithout(alarm[a], request[t].devices) /\ alarm[a] \in AlarmType
      BY <1>1, <1>5 DEF DeleteClearsAlarms, OrdersTyped
    <3>2. alarm'[a].device # d
      BY <2>1, <3>1, WorkOrdersAssumption DEF AlarmWithout, AlarmType
    <3> QED
      BY <1>1, <2>1, <3>2, RefsBecome
  <2> QED
    BY <2>1, <2>2 DEF Cleared
<1>6. CASE DeleteClearsInspections(t)
  <2>1. /\ request'[t].step = "findings" /\ d \in request[t].devices /\ d \in Devices
        /\ request[t].op = "delete_device" /\ request[t].step = "inspections"
    BY <1>1, <1>2, <1>6, GoesOn DEF DeleteClearsInspections, Step, OrderType
  <2>2. Cleared(d, Alarms) /\ Removing(d)
    BY <2>1 DEF DeleteInv, Removing
  <2>3. Cleared(d, Alarms)'
    BY <2>1, <2>2, ClearedStays DEF OrderDocs
  <2>4. ASSUME NEW i \in Inspections
        PROVE  ~Named(i, d)'
    BY <1>1, <1>6, <2>1 DEF DeleteClearsInspections, Named, OrdersTyped, InspectionType
  <2> QED
    BY <2>1, <2>3, <2>4
<1>7. CASE DeleteClearsFindings(t)
  <2>1. /\ request'[t].step = "device" /\ d \in request[t].devices /\ d \in Devices
        /\ request[t].op = "delete_device" /\ request[t].step = "findings"
    BY <1>1, <1>2, <1>7, GoesOn DEF DeleteClearsFindings, Step, OrderType
  <2>2. /\ Cleared(d, Alarms) /\ Removing(d)
        /\ Cleared(d, {i \in Inspections : Named(i, d)})
    BY <2>1 DEF DeleteInv, Removing
  <2>3. Cleared(d, Alarms)'
    BY <2>1, <2>2, ClearedStays DEF OrderDocs
  <2>4. ASSUME NEW i \in Inspections, d \in Refs(i)'
        PROVE  <<i, d>> \in overlap'
    <3>1. d \in inspection'[i].devices \cup inspection'[i].findings
      BY <1>1, <2>1, <2>4, RefsBecome
    <3>2. /\ inspection'[i] = [inspection[i] EXCEPT !.findings = @ \ request[t].devices]
          /\ inspection[i] \in InspectionType
      BY <1>1, <1>7 DEF DeleteClearsFindings, OrdersTyped
    <3>3. d \in inspection[i].devices
      BY <2>1, <3>1, <3>2 DEF InspectionType
    <3>4. d \in Refs(i) => <<i, d>> \in overlap
      BY <2>2, <3>3 DEF Cleared, Named
    <3> QED
      BY <2>1, <2>2, <2>4, <3>4, OverlapsAre DEF OrderDocs
  <2> QED
    BY <2>1, <2>3, <2>4 DEF Cleared
<1> QED
  BY <1>1, <1>2, <1>3, <1>4, <1>5, <1>6, <1>7, RemovalActs

-----------------------------------------------------------------------------
(* Users out of service *)

\* Only the end of a release or the user's return takes him off the list of those
\* whose release was cut short; documents stay on it.
LEMMA CutStays ==
    ASSUME OrdersNext, NEW x \in cut, x \notin cut'
    PROVE  \/ \E r \in Requests : DisableReleasesInspections(r) /\ x \in request[r].users
           \/ \E u \in Users : Enable(u) /\ x = u
<1>1. ASSUME NEW r \in Requests, RequestStep(r)
      PROVE  FALSE
  BY <1>1 DEF RequestStep, ReportAlarm, ReportWrites, Dispatch, DispatchWrites, Plan, PlanWrites,
     Reassign, ReassignWrites, ChangeDevices, ChangeDevicesWrites, Start, StartWrites, Complete,
     CompleteWrites, Recheck, Strip, Fail
<1>2. ASSUME NEW r \in Requests, RemovalStep(r)
      PROVE  DisableReleasesInspections(r) /\ x \in request[r].users
  BY <1>2 DEF RemovalStep, Disable, DisableReleasesAlarms, DisableReleasesInspections,
     Anonymise, AnonymiseCommits, DeleteDevice, DeleteCommits, DeleteClearsAlarms,
     DeleteClearsInspections, DeleteClearsFindings, DeleteEnds
<1>3. CASE SingleUpdate
  BY <1>3 DEF SingleUpdate, Arrive, Resolve, FalseAlarm, CancelAlarm, AlarmStep,
     CancelInspection, DeleteInspection, MarkOverdue, Review, InspectionStep, Enable
<1> QED
  BY <1>1, <1>2, <1>3 DEF OrdersNext

\* Who leaves the service, leaves it by one of two steps.
LEMMA UsersLeave ==
    ASSUME OrdersTyped, OrdersNext, NEW u \in ActiveUsers, u \notin ActiveUsers'
    PROVE  \E r \in Requests :
              \/ Disable(r) /\ u \in request'[r].users
              \/ AnonymiseCommits(r) /\ u \in request[r].users
<1>1. user \in [Users -> {"active", "disabled"}] /\ u \in Users /\ user[u] = "active"
      /\ user'[u] # "active"
  BY DEF OrdersTyped, ActiveUsers
<1>2. ASSUME NEW r \in Requests, RequestStep(r)
      PROVE  FALSE
  BY <1>1, <1>2 DEF RequestStep, ReportAlarm, ReportWrites, Dispatch, DispatchWrites, Plan,
     PlanWrites, Reassign, ReassignWrites, ChangeDevices, ChangeDevicesWrites, Start, StartWrites,
     Complete, CompleteWrites, Recheck, Strip, Fail
<1>3. ASSUME NEW r \in Requests, RemovalStep(r)
      PROVE  \/ Disable(r) /\ u \in request'[r].users
             \/ AnonymiseCommits(r) /\ u \in request[r].users
  <2>1. Disable(r) \/ AnonymiseCommits(r)
    BY <1>1, <1>3 DEF RemovalStep, DisableReleasesAlarms, DisableReleasesInspections,
       Anonymise, DeleteDevice, DeleteCommits, DeleteClearsAlarms,
       DeleteClearsInspections, DeleteClearsFindings, DeleteEnds
  <2>2. CASE Disable(r)
    <3>1. PICK w \in Users : /\ request'[r].users = {w}
                             /\ user' = [user EXCEPT ![w] = "disabled"]
      BY <2>2, DisableBegins
    <3>2. u = w
      BY <1>1, <3>1
    <3> QED
      BY <2>2, <3>1, <3>2
  <2>3. CASE AnonymiseCommits(r)
    BY <1>1, <2>3 DEF AnonymiseCommits
  <2> QED
    BY <2>1, <2>2, <2>3
<1>4. ASSUME SingleUpdate
      PROVE  FALSE
  BY <1>1, <1>4 DEF SingleUpdate, Arrive, Resolve, FalseAlarm, CancelAlarm, AlarmStep,
     CancelInspection, DeleteInspection, MarkOverdue, Review, InspectionStep, Enable
<1> QED
  BY <1>2, <1>3, <1>4 DEF OrdersNext

\* A release that ends leaves only what was assigned while it ran.
LEMMA ReleaseEnds ==
    ASSUME OrdersInv, DisableInv, OrdersNext, NEW r \in Requests, DisableReleasesInspections(r),
           NEW u \in request[r].users, NEW item \in OrderDocs, u \in Refs(item)'
    PROVE  <<item, u>> \in overlap'
<1>1. OrdersTyped /\ OrdersTyped' /\ Step(r, "disable", "inspections")
  BY OrdersInvStep DEF OrdersInv, DisableReleasesInspections
<1>2. u \in Users /\ Removing(u)
  BY <1>1 DEF OrdersTyped, OrderType, Step, Removing
<1>3. CASE item \in Alarms
  <2>1. u \in Refs(item) => <<item, u>> \in overlap
    BY <1>1, <1>3 DEF DisableInv, Cleared
  <2> QED
    BY <1>2, <2>1, OverlapsAre
<1>4. CASE item \in Inspections
  <2>1. inspection'[item].status \in OpenStatuses /\ u \in inspection'[item].assigned
    BY <1>1, <1>2, <1>4, RefsBecome
  <2>2. inspection[item] \in InspectionType
    BY <1>1, <1>4 DEF OrdersTyped
  <2>3. inspection' = ReleasedInspections(HeldInspections(request[r].users), request[r].users)
    BY DEF DisableReleasesInspections
  <2>4. item \notin HeldInspections(request[r].users)
    <3>1. SUFFICES ASSUME item \in HeldInspections(request[r].users)
                   PROVE  FALSE
      OBVIOUS
    <3>2. inspection'[item] = [inspection[item] EXCEPT !.assigned = @ \ request[r].users]
      BY <1>4, <2>3, <3>1 DEF ReleasedInspections
    <3> QED
      BY <2>1, <2>2, <3>2 DEF InspectionType
  <2>5. inspection'[item] = inspection[item]
    BY <1>4, <2>3, <2>4 DEF ReleasedInspections
  <2> QED
    BY <1>4, <2>1, <2>4, <2>5 DEF HeldInspections
<1> QED
  BY <1>3, <1>4 DEF OrderDocs

LEMMA AnonymiseEnds ==
    ASSUME OrdersInv, AnonymiseInv, OrdersNext, NEW r \in Requests, AnonymiseCommits(r),
           NEW u \in request[r].users, NEW item \in OrderDocs, u \in Refs(item)'
    PROVE  <<item, u>> \in overlap'
<1>1. /\ OrdersTyped /\ OrdersTyped' /\ request[r].op = "anonymise"
      /\ alarm' = ReleasedAlarms(request[r].claims)
      /\ inspection' = ReleasedInspections(request[r].claims, request[r].users)
  BY OrdersInvStep DEF OrdersInv, AnonymiseCommits, Step
<1>2. u \in Users /\ Removing(u)
  BY <1>1 DEF OrdersTyped, OrderType, Removing
<1>3. item \notin request[r].claims
  <2>1. SUFFICES ASSUME item \in request[r].claims
                 PROVE  FALSE
    OBVIOUS
  <2>2. CASE item \in Alarms
    <3>1. /\ alarm'[item] = [alarm[item] EXCEPT !.status = "pending", !.handler = Nothing,
                                              !.arrived = FALSE]
          /\ alarm[item] \in AlarmType
      BY <1>1, <2>1, <2>2 DEF ReleasedAlarms, OrdersTyped
    <3>2. alarm'[item].status = "pending"
      BY <3>1 DEF AlarmType
    <3> QED
      BY <1>1, <1>2, <2>2, <3>2, RefsBecome
  <2>3. CASE item \in Inspections
    <3>1. /\ inspection'[item] = [inspection[item] EXCEPT !.assigned = @ \ request[r].users]
          /\ inspection[item] \in InspectionType
      BY <1>1, <2>1, <2>3 DEF ReleasedInspections, OrdersTyped
    <3>2. u \notin inspection'[item].assigned
      BY <3>1 DEF InspectionType
    <3> QED
      BY <1>1, <1>2, <2>3, <3>2, RefsBecome
  <2> QED
    BY <2>2, <2>3 DEF OrderDocs
<1>4. u \in Refs(item) => <<item, u>> \in overlap
  BY <1>1, <1>3 DEF AnonymiseInv, Cleared
<1> QED
  BY <1>2, <1>4, OverlapsAre

LEMMA StuckStep ==
    ASSUME OrdersInv, DisableInv, AnonymiseInv, StuckInv, OrdersNext
    PROVE  StuckInv'
<1>1. OrdersTyped /\ (\A r \in Requests : Fits(request[r])) /\ request \in [Requests -> OrderType]
  BY DEF OrdersInv, OrdersTyped
<1>2. SUFFICES ASSUME NEW item \in OrderDocs, NEW u \in Users, u \in Refs(item)',
                      u \notin ActiveUsers'
               PROVE  Disabling(u)' \/ u \in cut' \/ <<item, u>> \in overlap'
  BY DEF StuckInv
<1>3. CASE u \in ActiveUsers
  <2>1. PICK r \in Requests : \/ Disable(r) /\ u \in request'[r].users
                              \/ AnonymiseCommits(r) /\ u \in request[r].users
    BY <1>1, <1>2, <1>3, UsersLeave
  <2>2. CASE Disable(r) /\ u \in request'[r].users
    BY <1>1, <2>2, DisableBegins DEF Disabling
  <2>3. CASE AnonymiseCommits(r) /\ u \in request[r].users
    BY <1>2, <2>3, AnonymiseEnds
  <2> QED
    BY <2>1, <2>2, <2>3
<1>4. CASE u \notin ActiveUsers /\ u \notin Refs(item)
  BY <1>2, <1>4, OverlapsAre
<1>5. CASE u \notin ActiveUsers /\ u \in Refs(item)
  <2>1. Disabling(u) \/ u \in cut \/ <<item, u>> \in overlap
    BY <1>5 DEF StuckInv
  <2>2. CASE Disabling(u)
    <3>1. PICK r \in Requests : request[r].op = "disable" /\ u \in request[r].users
      BY <2>2 DEF Disabling
    <3>2. CASE request'[r] = request[r]
      BY <3>1, <3>2 DEF Disabling
    <3>3. CASE request'[r] # request[r] /\ RequestStep(r)
      <4>1. request[r] # NoRequest /\ request[r].step \notin {"recheck", "strip"}
        BY <1>1, <3>1, NoRequestIs DEF Fits
      <4>2. Fail(r)
        BY <3>1, <3>3, <4>1 DEF RequestStep, ReportAlarm, ReportWrites, Dispatch, DispatchWrites,
           Plan, PlanWrites, Reassign, ReassignWrites, ChangeDevices, ChangeDevicesWrites, Start,
           StartWrites, Complete, CompleteWrites, Recheck, Strip, Step
      <4> QED
        BY <3>1, <4>2 DEF Fail
    <3>4. CASE request'[r] # request[r] /\ RemovalStep(r)
      <4>1. request[r] # NoRequest
        BY <3>1, NoRequestIs
      <4>2. DisableReleasesAlarms(r) \/ DisableReleasesInspections(r)
        BY <3>1, <3>4, <4>1 DEF RemovalStep, Disable, Anonymise, AnonymiseCommits, DeleteDevice,
           DeleteCommits, DeleteClearsAlarms, DeleteClearsInspections, DeleteClearsFindings,
           DeleteEnds, Step
      <4>3. CASE DisableReleasesAlarms(r)
        BY <1>1, <3>1, <4>3, GoesOn DEF DisableReleasesAlarms, Disabling
      <4>4. CASE DisableReleasesInspections(r)
        BY <1>2, <3>1, <4>4, ReleaseEnds
      <4> QED
        BY <4>2, <4>3, <4>4
    <3> QED
      BY <1>1, <3>2, <3>3, <3>4, OneActs
  <2>3. CASE u \in cut
    <3>1. ASSUME NEW w \in Users, Enable(w), u = w
          PROVE  u \in ActiveUsers'
      BY <1>1, <3>1 DEF Enable, ActiveUsers, OrdersTyped
    <3>2. ASSUME NEW r \in Requests, DisableReleasesInspections(r), u \in request[r].users
          PROVE  <<item, u>> \in overlap'
      BY <1>2, <3>2, ReleaseEnds
    <3> QED
      BY <1>2, <2>3, <3>1, <3>2, CutStays
  <2>4. CASE <<item, u>> \in overlap
    BY <1>2, <2>4, OverlapsAre
  <2> QED
    BY <2>1, <2>2, <2>3, <2>4
<1> QED
  BY <1>3, <1>4, <1>5

-----------------------------------------------------------------------------
(* Devices deleted *)

\* A reference to a device is written by requests that will look again.
LEMMA NewDevices ==
    ASSUME OrdersInv, OrdersNext, NEW item \in OrderDocs, NEW d \in Devices, d \in Refs(item)',
           d \notin Refs(item)
    PROVE  Rechecking(item, d)'
<1>1. OrdersTyped /\ OrdersTyped' /\ DocumentsMove
  BY OrdersInvStep, OrderDocuments DEF OrdersInv
<1>2. CASE item \in Alarms
  <2>1. alarm'[item].device = d /\ alarm[item].device # d
    BY <1>1, <1>2, RefsAre, RefsBecome
  <2>2. AlarmMoves(item) /\ Nothing \notin Devices
    BY <1>1, <1>2, WorkOrdersAssumption DEF DocumentsMove
  <2> QED
    BY <2>1, <2>2 DEF AlarmMoves
<1>3. CASE item \in Inspections
  <2>1. /\ d \in inspection'[item].devices \cup inspection'[item].findings
        /\ d \notin inspection[item].devices /\ d \notin inspection[item].findings
    BY <1>1, <1>3, RefsAre, RefsBecome
  <2>2. InspectionMoves(item)
    BY <1>1, <1>3 DEF DocumentsMove
  <2> QED
    BY <2>1, <2>2 DEF InspectionMoves
<1> QED
  BY <1>2, <1>3 DEF OrderDocs

LEMMA DevicesLeave ==
    ASSUME OrdersNext, NEW d \in device, d \notin device'
    PROVE  \E r \in Requests : (DeleteCommits(r) \/ DeleteEnds(r)) /\ d \in request[r].devices
<1>1. ASSUME NEW r \in Requests, RequestStep(r)
      PROVE  FALSE
  BY <1>1 DEF RequestStep, ReportAlarm, ReportWrites, Dispatch, DispatchWrites, Plan, PlanWrites,
     Reassign, ReassignWrites, ChangeDevices, ChangeDevicesWrites, Start, StartWrites, Complete,
     CompleteWrites, Recheck, Strip, Fail
<1>2. ASSUME NEW r \in Requests, RemovalStep(r)
      PROVE  (DeleteCommits(r) \/ DeleteEnds(r)) /\ d \in request[r].devices
  BY <1>2 DEF RemovalStep, Disable, DisableReleasesAlarms, DisableReleasesInspections,
     Anonymise, AnonymiseCommits, DeleteDevice, DeleteCommits, DeleteClearsAlarms,
     DeleteClearsInspections, DeleteClearsFindings, DeleteEnds
<1>3. ASSUME SingleUpdate
      PROVE  FALSE
  BY <1>3 DEF SingleUpdate, Arrive, Resolve, FalseAlarm, CancelAlarm, AlarmStep,
     CancelInspection, DeleteInspection, MarkOverdue, Review, InspectionStep, Enable
<1> QED
  BY <1>1, <1>2, <1>3 DEF OrdersNext

\* A deletion that ends leaves only references written while it ran.
LEMMA DeletionEnds ==
    ASSUME OrdersInv, DeleteInv, OrdersNext, NEW r \in Requests,
           DeleteCommits(r) \/ DeleteEnds(r), NEW d \in request[r].devices,
           NEW item \in OrderDocs, d \in Refs(item)'
    PROVE  <<item, d>> \in overlap'
<1>1. OrdersTyped /\ OrdersTyped' /\ request[r].op = "delete_device"
  BY OrdersInvStep DEF OrdersInv, DeleteCommits, DeleteEnds, Step
<1>2. d \in Devices /\ Removing(d)
  BY <1>1 DEF OrdersTyped, OrderType, Removing
<1>3. CASE DeleteEnds(r)
  <2>1. Cleared(d, Alarms) /\ Cleared(d, Inspections)
    BY <1>1, <1>3 DEF DeleteInv, DeleteEnds, Step
  <2> QED
    BY <1>2, <2>1, OverlapsAre DEF Cleared, OrderDocs
<1>4. CASE DeleteCommits(r)
  <2>1. d \in Refs(item) /\ item \notin request[r].claims => <<item, d>> \in overlap
    BY <1>1, <1>4 DEF DeleteInv, Cleared, DeleteCommits, Step
  <2>2. item \notin request[r].claims
    <3>1. SUFFICES ASSUME item \in request[r].claims
                   PROVE  FALSE
      OBVIOUS
    <3>2. CASE item \in Alarms
      <4>1. alarm'[item] = AlarmWithout(alarm[item], request[r].devices) /\ alarm[item] \in AlarmType
        BY <1>1, <1>4, <3>1, <3>2 DEF DeleteCommits, OrdersTyped
      <4>2. alarm'[item].device # d
        BY <1>2, <4>1, WorkOrdersAssumption DEF AlarmWithout, AlarmType
      <4> QED
        BY <1>1, <1>2, <3>2, <4>2, RefsBecome
    <3>3. CASE item \in Inspections
      <4>1. /\ inspection'[item] = InspectionWithout(inspection[item], request[r].devices)
            /\ inspection[item] \in InspectionType
        BY <1>1, <1>4, <3>1, <3>3 DEF DeleteCommits, OrdersTyped
      <4>2. d \notin inspection'[item].devices /\ d \notin inspection'[item].findings
        BY <4>1 DEF InspectionWithout, InspectionType
      <4> QED
        BY <1>1, <1>2, <3>3, <4>2, RefsBecome
    <3> QED
      BY <3>2, <3>3 DEF OrderDocs
  <2> QED
    BY <1>2, <2>1, <2>2, OverlapsAre
<1> QED
  BY <1>3, <1>4

LEMMA DanglingStep ==
    ASSUME OrdersInv, DeleteInv, DanglingNeedsOverlap, OrdersNext
    PROVE  DanglingNeedsOverlap'
<1>1. /\ OrdersTyped /\ (\A r \in Requests : Fits(request[r])) /\ OrdersTyped'
      /\ request \in [Requests -> OrderType]
  BY OrdersInvStep DEF OrdersInv, OrdersTyped
<1>2. SUFFICES ASSUME NEW item \in OrderDocs, NEW d \in Devices, d \in Refs(item)',
                      d \notin device'
               PROVE  Rechecking(item, d)' \/ item \in cut' \/ <<item, d>> \in overlap'
  BY DEF DanglingNeedsOverlap, OrderDocs
<1>3. CASE d \notin Refs(item)
  BY <1>2, <1>3, NewDevices
<1>4. CASE d \in device
  BY <1>2, <1>4, DevicesLeave, DeletionEnds
<1>5. CASE d \in Refs(item) /\ d \notin device
  <2>1. Rechecking(item, d) \/ item \in cut \/ <<item, d>> \in overlap
    BY <1>5 DEF DanglingNeedsOverlap, OrderDocs
  <2>2. CASE Rechecking(item, d)
    <3>1. PICK r \in Requests : /\ request[r].step \in {"recheck", "strip"}
                                /\ request[r].doc = item /\ d \in request[r].devices
      BY <2>2 DEF Rechecking
    <3>2. CASE request'[r] = request[r]
      BY <3>1, <3>2 DEF Rechecking
    <3>3. CASE RequestStep(r)
      <4>1. request[r] # NoRequest
        BY <3>1, NoRequestIs
      <4>2. Recheck(r) \/ Strip(r) \/ Fail(r)
        BY <3>1, <3>3, <4>1 DEF RequestStep, ReportAlarm, ReportWrites, Dispatch, DispatchWrites,
           Plan, PlanWrites, Reassign, ReassignWrites, ChangeDevices, ChangeDevicesWrites, Start,
           StartWrites, Complete, CompleteWrites, Step
      <4>3. CASE Recheck(r)
        <5>1. request'[r] = [request[r] EXCEPT !.step = "strip",
                                               !.devices = request[r].devices \ device]
          BY <1>1, <1>5, <3>1, <4>3 DEF Recheck, Goes
        <5>2. request[r] \in OrderType
          BY <1>1
        <5>3. request'[r].step = "strip" /\ request'[r].doc = item /\ d \in request'[r].devices
          BY <1>5, <3>1, <5>1, <5>2 DEF OrderType
        <5> QED
          BY <5>3 DEF Rechecking
      <4>4. CASE Strip(r)
        <5>1. CASE item \in Alarms
          <6>1. /\ alarm'[item] = AlarmWithout(alarm[item], request[r].devices)
                /\ alarm[item] \in AlarmType
            BY <1>1, <3>1, <4>4, <5>1 DEF Strip, OrdersTyped
          <6>2. alarm'[item].device # d
            BY <3>1, <6>1, WorkOrdersAssumption DEF AlarmWithout, AlarmType
          <6> QED
            BY <1>1, <1>2, <5>1, <6>2, RefsBecome
        <5>2. CASE item \notin Alarms
          <6>1. /\ item \in Inspections /\ inspection[item] \in InspectionType
                /\ inspection'[item] = InspectionWithout(inspection[item], request[r].devices)
            BY <1>1, <1>2, <3>1, <4>4, <5>2 DEF Strip, OrdersTyped, OrderDocs
          <6>2. d \notin inspection'[item].devices /\ d \notin inspection'[item].findings
            BY <3>1, <6>1 DEF InspectionWithout, InspectionType
          <6> QED
            BY <1>1, <1>2, <6>1, <6>2, RefsBecome
        <5> QED
          BY <5>1, <5>2
      <4>5. CASE Fail(r)
        BY <3>1, <4>5 DEF Fail
      <4> QED
        BY <4>2, <4>3, <4>4, <4>5
    <3>4. CASE RemovalStep(r)
      <4>1. request[r] # NoRequest /\ request[r].op \notin Removals
        BY <1>1, <3>1, NoRequestIs DEF Fits, Removals
      <4> QED
        BY <3>4, <4>1 DEF RemovalStep, Disable, DisableReleasesAlarms, DisableReleasesInspections,
           Anonymise, AnonymiseCommits, DeleteDevice, DeleteCommits, DeleteClearsAlarms,
           DeleteClearsInspections, DeleteClearsFindings, DeleteEnds, Step, Removals
    <3> QED
      BY <1>1, <3>2, <3>3, <3>4, OneActs
  <2>3. CASE item \in cut
    <3>1. item \notin Users
      BY WorkOrdersAssumption DEF OrderDocs
    <3>2. ASSUME NEW r \in Requests
          PROVE  item \notin request[r].users
      BY <1>1, <3>1 DEF OrderType
    <3> QED
      BY <2>3, <3>1, <3>2, CutStays
  <2>4. CASE <<item, d>> \in overlap
    BY <1>2, <2>4, OverlapsAre
  <2> QED
    BY <2>1, <2>2, <2>3, <2>4
<1> QED
  BY <1>3, <1>4, <1>5

-----------------------------------------------------------------------------
(* The two theorems about references that outlive what they refer to *)

RemovalInv == DisableInv /\ AnonymiseInv /\ DeleteInv

LEMMA RemovalInvInit ==
    ASSUME OrdersInit
    PROVE  RemovalInv /\ StuckInv /\ DanglingNeedsOverlap
<1>1. /\ \A r \in Requests : request[r].op = "none"
      /\ \A u \in Users : user[u] = "active"
      /\ device = Devices
  BY NoRequestIs DEF OrdersInit
<1>2. RemovalInv
  BY <1>1 DEF RemovalInv, DisableInv, AnonymiseInv, DeleteInv, Step
<1> QED
  BY <1>1, <1>2 DEF StuckInv, DanglingNeedsOverlap, ActiveUsers

LEMMA RemovalInvStutters ==
    ASSUME RemovalInv /\ StuckInv /\ DanglingNeedsOverlap, UNCHANGED orderVars
    PROVE  (RemovalInv /\ StuckInv /\ DanglingNeedsOverlap)'
BY DEF RemovalInv, DisableInv, AnonymiseInv, DeleteInv, StuckInv, DanglingNeedsOverlap,
   orderVars, Cleared, Refs, Named, Step, Rechecking, Disabling, ActiveUsers

\* What a removal has not yet dealt with is what it claimed or will still come to;
\* from it the two properties of references follow together.
THEOREM RemovalsDealWithAll ==
    OrdersSpec => [](RemovalInv /\ StuckInv /\ DanglingNeedsOverlap)
<1> DEFINE Dealt == RemovalInv /\ StuckInv /\ DanglingNeedsOverlap
<1>1. OrdersInv /\ Dealt /\ OrdersNext => Dealt'
  BY DisableStep, AnonymiseStep, DeleteStep, StuckStep, DanglingStep DEF RemovalInv
<1>2. OrdersInv /\ Dealt /\ [OrdersNext]_orderVars => Dealt'
  BY <1>1, RemovalInvStutters
<1>3. OrdersInit => Dealt
  BY RemovalInvInit
<1> HIDE DEF Dealt
<1>4. OrdersSpec => []Dealt
  BY <1>2, <1>3, OrdersInvariant, PTL DEF OrdersSpec
<1> QED
  BY <1>4 DEF Dealt

\* A reference to a deleted device is about to be looked up again, or the request
\* that wrote it failed first, or it was written while the deletion was under way
\* (deleteDevice, detachDevice, removeMissingDeviceRefs).
THEOREM DanglingReferencesAreExplained == OrdersSpec => []DanglingNeedsOverlap
BY RemovalsDealWithAll, PTL

\* An alarm or an open plan that waits for a user who is out of service is about to
\* be released, or its release failed half way, or it was assigned while the user
\* left, on the strength of an older status (releaseOpenAssignments).
THEOREM StuckAssignmentsAreExplained == OrdersSpec => []StuckNeedsOverlap
<1>1. StuckInv => StuckNeedsOverlap
  BY DEF StuckInv, StuckNeedsOverlap, Disabling, Removing, OrderDocs
<1> QED
  BY <1>1, RemovalsDealWithAll, PTL
=============================================================================
