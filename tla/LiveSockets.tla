------------------------------ MODULE LiveSockets ------------------------------
(***************************************************************************)
(* The login sessions of one user as one server process sees them: the     *)
(* cache of validateSession, and the WebSocket connections opened with     *)
(* those sessions.                                                         *)
(*                                                                         *)
(* A session that is revoked in this process empties its entry of the      *)
(* cache and closes its connections at once; one revoked elsewhere is      *)
(* heard of by a message, which may be lost and closes nothing.  What was  *)
(* under way meanwhile, a query, a handshake, a room being joined, works   *)
(* with what it read before.  A periodic sweep reads the database again.   *)
(*                                                                         *)
(* Between two awaits the process does one thing at a time: every action   *)
(* below is what it does from one await to the next.                       *)
(***************************************************************************)
EXTENDS Naturals, FiniteSets

CONSTANTS
    Sessions,
    Sockets,   \* identifiers of connections, used again after a connection is forgotten
    Http,      \* stands for the HTTP requests that validate a session
    MaxUnauth, \* MAX_UNAUTHENTICATED_PER_IP; the connections come from one address
    None

ASSUME LiveSocketsAssumption ==
    /\ MaxUnauth \in Nat \ {0}
    /\ None \notin Sessions \cup Sockets \cup {Http, "usable"} /\ Http \notin Sockets

VARIABLES
    session,     \* UserSession documents: status, and whether expiresAt has passed
    account,     \* the user: status is active, and a role lets it into the room
    revoking,    \* the revocation under way
    mail,        \* sessions an invalidation from elsewhere is on its way for
    uninformed,  \* sessions no invalidation will come for (history)
    cache,       \* sessionCache: the verdict kept for a session, if any
    call,        \* the handler under way for each socket, and for Http
    connected,   \* sockets of io.sockets, which have an entry in clients
    slots,       \* unauthConnectionsByIp of the address
    socket,      \* what is kept on a connection: whether it is authenticated, its
                 \* session, whether it holds a slot and whether it is in the room
    userConnections,
    sweep        \* runCleanupSweep

storeVars == <<session, account>>
cacheVars == <<revoking, mail, uninformed, cache>>
socketVars == <<connected, slots, socket, userConnections>>
vars == <<storeVars, cacheVars, call, socketVars, sweep>>

Callers == Sockets \cup {Http}

NoCall == [step |-> "none", session |-> None, usable |-> FALSE, active |-> FALSE,
           role |-> FALSE, advanced |-> FALSE, joins |-> FALSE]
NoSocket == [authenticated |-> FALSE, session |-> None, slot |-> FALSE, room |-> FALSE]
NoSweep == [step |-> "none", pending |-> {}, usable |-> {}, active |-> FALSE, role |-> FALSE]
NoRevocation == [step |-> "none", sessions |-> {}, all |-> FALSE]

Init ==
    /\ session = [s \in Sessions |-> [status |-> "active", over |-> FALSE]]
    /\ account = [active |-> TRUE, role |-> TRUE]
    /\ revoking = NoRevocation /\ mail = {} /\ uninformed = {}
    /\ cache = [s \in Sessions |-> None]
    /\ call = [c \in Callers |-> NoCall]
    /\ connected = {} /\ slots = 0 /\ userConnections = {}
    /\ socket = [k \in Sockets |-> NoSocket]
    /\ sweep = NoSweep

\* isUsable of UserSession
NotRevoked(s) == session[s].status = "active"
IsUsable(s) == NotRevoked(s) /\ ~session[s].over

-----------------------------------------------------------------------------
(* The sockets a step closes *)

\* The disconnect handler; a socket that is closed already is closed once.
Closes(ks, sk) ==
    LET gone == ks \cap connected
        held == {k \in gone : sk[k].slot}
    IN /\ connected' = connected \ gone
       /\ slots' = slots - Cardinality(held)
       /\ userConnections' = userConnections \ {k \in gone : sk[k].authenticated}
       /\ socket' = [k \in Sockets |-> IF k \in gone THEN NoSocket ELSE sk[k]]

Disconnect(k) ==
    /\ k \in connected
    /\ Closes({k}, socket)
    /\ UNCHANGED <<storeVars, cacheVars, call, sweep>>

-----------------------------------------------------------------------------
(* Revocation: revokeSession, revokeOtherSessions, revokeAllSessions and     *)
(* enforceSessionCap                                                         *)

Revoked(ss) ==
    session' = [s \in Sessions |->
        IF s \in ss THEN [session[s] EXCEPT !.status = "revoked"] ELSE session[s]]

\* The sessions are marked in the database.  The answer may be lost, and then nothing
\* is done about them here.
Revoke ==
    /\ revoking = NoRevocation
    /\ \E ss \in SUBSET {s \in Sessions : NotRevoked(s)}, all \in BOOLEAN :
           /\ ss # {} /\ Revoked(ss)
           /\ \/ /\ revoking' = [step |-> "marked", sessions |-> ss, all |-> all]
                 /\ UNCHANGED uninformed
              \/ uninformed' = uninformed \cup ss /\ UNCHANGED revoking
    /\ UNCHANGED <<account, mail, cache, call, socketVars, sweep>>

\* invalidateSessionCacheLocal, clearSessionCacheLocal: the generation is common to all
\* sessions.
DropsOnly(ss) ==
    /\ cache' = [s \in Sessions |-> IF s \in ss THEN None ELSE cache[s]]
    /\ UNCHANGED call
Invalidates(ss) ==
    /\ cache' = [s \in Sessions |-> IF s \in ss THEN None ELSE cache[s]]
    /\ call' = [c \in Callers |-> [call[c] EXCEPT !.advanced = TRUE]]

\* matchesRevocation
Matches(ss, all) ==
    {k \in connected : socket[k].authenticated /\ (all \/ socket[k].session \in ss)}

\* The entries are dropped, and the listeners told; when the marked sessions cannot be
\* read back all entries are dropped, and only a revocation of all sessions is told of.
RevokeEnds ==
    /\ revoking.step = "marked"
    /\ \/ /\ Invalidates(revoking.sessions)
          /\ Closes(Matches(revoking.sessions, revoking.all), socket)
       \/ /\ Invalidates(Sessions)
          /\ Closes(Matches({}, revoking.all), socket)
    /\ revoking' = NoRevocation
    /\ UNCHANGED <<storeVars, mail, uninformed, sweep>>

RevokeElsewhere ==
    /\ \E ss \in SUBSET {s \in Sessions : NotRevoked(s)} :
           /\ ss # {} /\ Revoked(ss)
           /\ \/ mail' = mail \cup ss /\ UNCHANGED uninformed
              \/ uninformed' = uninformed \cup ss /\ UNCHANGED mail
    /\ UNCHANGED <<account, revoking, cache, call, socketVars, sweep>>

\* handleRemoteSessionInvalidation
Hear(s) ==
    /\ s \in mail
    /\ mail' = mail \ {s}
    /\ Invalidates({s})
    /\ UNCHANGED <<storeVars, revoking, uninformed, socketVars, sweep>>

-----------------------------------------------------------------------------
(* validateSession *)

\* What a fresh entry answers: the end of the session is looked at again.
Verdict(s) == cache[s] = "usable" /\ ~session[s].over

\* The entry has reached SESSION_CACHE_TTL, or the cache has been emptied for its size.
Forget(s) ==
    /\ cache[s] # None
    /\ cache' = [cache EXCEPT ![s] = None]
    /\ UNCHANGED <<storeVars, revoking, mail, uninformed, call, socketVars, sweep>>

\* The query reads the document.
ReadSession(c) ==
    /\ call[c].step = "query"
    /\ call' = [call EXCEPT ![c].step = "found", ![c].usable = IsUsable(call[c].session)]
    /\ UNCHANGED <<storeVars, cacheVars, socketVars, sweep>>

\* What the query found is kept, unless an entry was dropped meanwhile.
Keeps(c) ==
    cache' = IF call[c].advanced THEN cache
             ELSE [cache EXCEPT ![call[c].session] =
                      IF call[c].usable THEN "usable" ELSE "unusable"]

Asks(c, s) ==
    [NoCall EXCEPT !.step = "query", !.session = s, !.active = call[c].active,
                   !.role = call[c].role, !.joins = call[c].joins]

HttpAsks(s) ==
    /\ call[Http] = NoCall /\ cache[s] = None
    /\ call' = [call EXCEPT ![Http] = Asks(Http, s)]
    /\ UNCHANGED <<storeVars, cacheVars, socketVars, sweep>>

HttpAnswers ==
    /\ call[Http].step = "found"
    /\ Keeps(Http)
    /\ call' = [call EXCEPT ![Http] = NoCall]
    /\ UNCHANGED <<storeVars, revoking, mail, uninformed, socketVars, sweep>>

-----------------------------------------------------------------------------
(* Handshake, and joining the room *)

\* _admitConnection
Connect(k) ==
    /\ k \notin connected /\ call[k] = NoCall /\ k \notin sweep.pending
    /\ slots < MaxUnauth
    /\ connected' = connected \cup {k} /\ slots' = slots + 1
    /\ socket' = [socket EXCEPT ![k] = [NoSocket EXCEPT !.slot = TRUE]]
    /\ \E s \in Sessions :
           call' = [call EXCEPT ![k] = [NoCall EXCEPT !.step = "user", !.session = s]]
    /\ UNCHANGED <<storeVars, cacheVars, userConnections, sweep>>

\* join-room
JoinRoom(k) ==
    /\ k \in connected /\ socket[k].authenticated /\ call[k] = NoCall
    /\ call' = [call EXCEPT ![k] = [NoCall EXCEPT !.step = "user", !.joins = TRUE,
                                                  !.session = socket[k].session]]
    /\ UNCHANGED <<storeVars, cacheVars, socketVars, sweep>>

LeaveRoom(k) ==
    /\ k \in connected /\ socket[k].room
    /\ socket' = [socket EXCEPT ![k].room = FALSE]
    /\ UNCHANGED <<storeVars, cacheVars, call, connected, slots, userConnections, sweep>>

ReadUser(k) ==
    /\ call[k].step = "user"
    /\ call' = [call EXCEPT ![k] = [@ EXCEPT !.step = "userRead", !.role = account.role,
                                             !.active = account.active]]
    /\ UNCHANGED <<storeVars, cacheVars, socketVars, sweep>>

\* Whether the handshake looks once more if the client is still there.
Unchecked(k) == TRUE
StillConnected(k) == k \in connected

\* _releaseUnauthenticatedSlot
Release(k) == [socket[k] EXCEPT !.slot = FALSE]

\* The end of authenticateSocket.
Binds(k) ==
    IF StillConnected(k)
    THEN /\ slots' = slots - (IF socket[k].slot THEN 1 ELSE 0)
         /\ socket' = [socket EXCEPT ![k] =
                [Release(k) EXCEPT !.authenticated = TRUE, !.session = call[k].session]]
         /\ userConnections' = userConnections \cup {k}
         /\ UNCHANGED connected
    ELSE UNCHANGED socketVars

\* The end of revalidateSocket and join-room: the room is left if the role is gone.
Joins(k) ==
    /\ socket' = IF k \in connected THEN [socket EXCEPT ![k].room = call[k].role]
                 ELSE socket
    /\ UNCHANGED <<connected, slots, userConnections>>

Concludes(k, usable) ==
    IF ~usable \/ ~call[k].active THEN Closes({k}, socket)
    ELSE IF call[k].joins THEN Joins(k) ELSE Binds(k)

\* The handshake refuses an inactive user before it asks for the session; joining a room
\* asks for it first.
UserAnswers(k) ==
    /\ call[k].step = "userRead"
    /\ IF (~call[k].active /\ ~call[k].joins) \/ cache[call[k].session] # None
       THEN /\ Concludes(k, Verdict(call[k].session))
            /\ call' = [call EXCEPT ![k] = NoCall]
       ELSE /\ call' = [call EXCEPT ![k] = Asks(k, call[k].session)]
            /\ UNCHANGED socketVars
    /\ UNCHANGED <<storeVars, cacheVars, sweep>>

SessionAnswers(k) ==
    /\ call[k].step = "found"
    /\ Keeps(k)
    /\ Concludes(k, call[k].usable)
    /\ call' = [call EXCEPT ![k] = NoCall]
    /\ UNCHANGED <<storeVars, revoking, mail, uninformed, sweep>>

\* A query fails: the handshake closes the connection, joining a room only gives up, an
\* HTTP request is refused.
CallFails(c) ==
    /\ call[c].step \in {"user", "query"}
    /\ IF c # Http /\ ~call[c].joins THEN Closes({c}, socket) ELSE UNCHANGED socketVars
    /\ call' = [call EXCEPT ![c] = NoCall]
    /\ UNCHANGED <<storeVars, cacheVars, sweep>>

-----------------------------------------------------------------------------
(* runCleanupSweep: the authenticated connections, their sessions, their users *)

Authenticated == {k \in connected : socket[k].authenticated}

SweepBegins ==
    /\ sweep = NoSweep /\ Authenticated # {}
    /\ sweep' = [NoSweep EXCEPT !.step = "sessions", !.pending = Authenticated]
    /\ UNCHANGED <<storeVars, cacheVars, call, socketVars>>

\* The sessions the sweep finds usable.
FoundNotRevoked == {s \in Sessions : NotRevoked(s)}
FoundUsable == {s \in Sessions : IsUsable(s)}

SweepReadsSessions ==
    /\ sweep.step = "sessions"
    /\ sweep' = [sweep EXCEPT !.step = "kick", !.usable = FoundUsable]
    /\ UNCHANGED <<storeVars, cacheVars, call, socketVars>>

\* _sweepRevokedSessions
SweepKicks ==
    /\ sweep.step = "kick"
    /\ LET kicked == {k \in sweep.pending :
                         socket[k].authenticated /\ socket[k].session \notin sweep.usable}
           alive == sweep.pending \ kicked
       IN /\ Closes(kicked, socket)
          /\ sweep' = IF alive = {} THEN NoSweep
                      ELSE [sweep EXCEPT !.step = "users", !.pending = alive, !.usable = {}]
    /\ UNCHANGED <<storeVars, cacheVars, call>>

SweepReadsUsers ==
    /\ sweep.step = "users"
    /\ sweep' = [sweep EXCEPT !.step = "apply", !.active = account.active,
                              !.role = account.role]
    /\ UNCHANGED <<storeVars, cacheVars, call, socketVars>>

\* The rooms a connection keeps when the sweep has looked at its roles.
KeepsRoom(k) == socket[k].room
KeepsRoomByRole(k) == socket[k].room /\ sweep.role
RoomAfter(k) == KeepsRoomByRole(k)

\* _applyRevalidation
SweepApplies ==
    /\ sweep.step = "apply"
    /\ LET sk == [k \in Sockets |->
                     IF k \in sweep.pending THEN [socket[k] EXCEPT !.room = RoomAfter(k)]
                     ELSE socket[k]]
       IN Closes(IF sweep.active THEN {} ELSE sweep.pending, sk)
    /\ sweep' = NoSweep
    /\ UNCHANGED <<storeVars, cacheVars, call>>

\* The sessions cannot be read, and the sweep goes on to the users; or the users cannot.
SweepFails ==
    /\ sweep.step \in {"sessions", "users"}
    /\ sweep' = IF sweep.step = "sessions" THEN [sweep EXCEPT !.step = "users"] ELSE NoSweep
    /\ UNCHANGED <<storeVars, cacheVars, call, socketVars>>

-----------------------------------------------------------------------------
\* The session reaches its end; the user is disabled; the user loses the role.
RunsOut(s) ==
    /\ ~session[s].over
    /\ session' = [session EXCEPT ![s].over = TRUE]
    /\ UNCHANGED <<account, cacheVars, call, socketVars, sweep>>

Changes(field) ==
    /\ account[field]
    /\ account' = [account EXCEPT ![field] = FALSE]
    /\ UNCHANGED <<session, cacheVars, call, socketVars, sweep>>

Next ==
    \/ Revoke \/ RevokeEnds \/ RevokeElsewhere
    \/ \E s \in Sessions : Hear(s) \/ Forget(s) \/ HttpAsks(s) \/ RunsOut(s)
    \/ HttpAnswers
    \/ \E c \in Callers : ReadSession(c) \/ CallFails(c)
    \/ \E k \in Sockets :
           \/ Connect(k) \/ Disconnect(k) \/ ReadUser(k) \/ UserAnswers(k)
           \/ SessionAnswers(k) \/ JoinRoom(k) \/ LeaveRoom(k)
    \/ SweepBegins \/ SweepReadsSessions \/ SweepKicks \/ SweepReadsUsers
    \/ SweepApplies \/ SweepFails
    \/ \E field \in {"active", "role"} : Changes(field)

\* The process goes on with what it has begun, its timers fire, entries grow old, and
\* the database does not fail for ever.
Fairness ==
    /\ \A c \in Callers : WF_vars(ReadSession(c))
    /\ WF_vars(HttpAnswers) /\ WF_vars(RevokeEnds)
    /\ \A k \in Sockets :
           WF_vars(ReadUser(k)) /\ WF_vars(UserAnswers(k)) /\ WF_vars(SessionAnswers(k))
    /\ \A s \in Sessions : WF_vars(Forget(s))
    /\ WF_vars(SweepBegins) /\ WF_vars(SweepKicks) /\ WF_vars(SweepApplies)
    /\ SF_vars(SweepReadsSessions) /\ SF_vars(SweepReadsUsers)

Spec == Init /\ [][Next]_vars /\ Fairness

-----------------------------------------------------------------------------
(* Properties *)

\* The cache still says usable of a revoked session only while the revocation is under
\* way here, a message is on its way, or no message will come; a query that was under
\* way when the entry was dropped does not put it back.
RevokedIsRefused ==
    \A s \in Sessions :
        cache[s] = "usable" /\ ~NotRevoked(s) =>
            s \in revoking.sessions \cup mail \cup uninformed

\* No connection is kept for a user after it has ended, though its handshake was still
\* under way when it ended, and the slots of an address are those of its connections
\* that have not authenticated.
ConnectionsAreKept ==
    /\ userConnections \subseteq connected
    /\ slots = Cardinality({k \in connected : ~socket[k].authenticated})

\* A connection whose session is revoked or over, or whose user is disabled, is closed
\* for good, wherever and however the session was revoked and whatever was under way.
UnfitSocketsClose ==
    \A s \in Sessions :
        ~(IsUsable(s) /\ account.active) ~>
            [](\A k \in Authenticated : socket[k].session # s)

\* A user that loses the role leaves the room, though a connection was just joining it.
RoomNeedsRole ==
    ~account.role ~> [](\A k \in connected : ~socket[k].room)
=============================================================================
