------------------------------ MODULE Sessions ------------------------------
(***************************************************************************)
(* The login sessions and token pairs of one user, as the database has     *)
(* them: login, rotation of refresh tokens, logout, termination of devices *)
(* and revocation of everything.  Requests interleave at every await.      *)
(*                                                                         *)
(* A pair is an access token and a refresh token that were signed          *)
(* together.  They carry the session's sid and the user's tokenVersion.    *)
(* Anyone who has seen a token may present it at any time.  Tokens and     *)
(* sessions never expire here: that only lets more of them be presented.   *)
(* Any operation of the database may fail; a request says how.             *)
(*                                                                         *)
(* Answers of validateSession may come from a cache, which is not          *)
(* modelled: a revoked session may pass for an active one.                 *)
(***************************************************************************)
EXTENDS Naturals, FiniteSets

CONSTANTS
    Requests,    \* requests the server works on at a time
    Sids,        \* bound: sessions
    Pairs,       \* bound: token pairs
    MaxSessions, \* MAX_ACTIVE_SESSIONS_PER_USER
    MaxVersion,  \* bound: revocations of everything
    MaxPresented,\* bound: refresh tokens presented with one logout
    None

ASSUME SessionsAssumption ==
    /\ MaxSessions \in Nat \ {0}
    /\ MaxVersion \in Nat /\ MaxPresented \in Nat
    /\ None \notin Sids \cup Pairs

VARIABLES
    version,  \* User.tokenVersion
    session,  \* status of each UserSession
    pair,     \* the pairs signed so far
    refresh,  \* TokenBlacklist: what became of each refresh token
    barred,   \* TokenBlacklist: access tokens
    request,  \* how far each request is
    left,     \* sids whose logout or termination has been reported done
    unrevoked \* what left sessions active that should have been revoked, because
              \* the database failed and nobody was told: "cap", "logout"

vars == <<version, session, pair, refresh, barred, request, left, unrevoked>>

Signed == {p \in Pairs : pair[p] # None}
Active == {s \in Sids : session[s] = "active"}

\* A pair: `line` is the session whose login it goes back to, `login` the
\* tokenVersion that login had read, `parent` the pair it replaces.
PairType ==
    [sid : Sids \cup {None}, version : Nat, line : Sids \cup {None}, login : Nat,
     parent : Pairs \cup {None}]

\* A request: the claims of the pair it is going to sign (or, of a logout, of the
\* session it ends) and `todo`, the sessions it is going to revoke or the refresh
\* tokens it is going to bar.
Steps == {"idle", "login", "cap", "capRevoke", "sign", "claim", "validate",
          "bump", "revokeAll", "bar", "barRefresh", "barFailed", "leave"}
RequestType == [step : Steps, claims : PairType, todo : SUBSET (Sids \cup Pairs)]

ClaimsOf(sid, v, line, login, parent) ==
    [sid |-> sid, version |-> v, line |-> line, login |-> login, parent |-> parent]
NoClaims == ClaimsOf(None, 0, None, 0, None)

At(r, step) == request[r].step = step
Moves(r, step, claims, todo) ==
    request' = [request EXCEPT ![r] = [step |-> step, claims |-> claims, todo |-> todo]]
Goes(r, step) == Moves(r, step, request[r].claims, request[r].todo)
Finished(r)   == Moves(r, "idle", NoClaims, {})

\* updateMany: those of `sids` that are active become revoked.
Revoke(sids) ==
    session' = [s \in Sids |-> IF s \in sids /\ session[s] = "active"
                               THEN "revoked" ELSE session[s]]

\* The same, when a failure is swallowed.
RevokeSafe(sids, failure) ==
    \/ Revoke(sids) /\ UNCHANGED unrevoked
    \/ UNCHANGED session /\ unrevoked' = unrevoked \cup failure

Init ==
    /\ version = 0
    /\ session = [s \in Sids |-> "none"]
    /\ pair    = [p \in Pairs |-> None]
    /\ refresh = [p \in Pairs |-> "unused"]
    /\ barred  = {}
    /\ request = [r \in Requests |-> [step |-> "idle", claims |-> NoClaims, todo |-> {}]]
    /\ left    = {}
    /\ unrevoked = {}

-----------------------------------------------------------------------------
(* Login *)

\* loginUser reads the user and compares the password.
Login(r) ==
    /\ At(r, "idle")
    /\ Moves(r, "login", ClaimsOf(None, version, None, version, None), {})
    /\ UNCHANGED <<version, session, pair, refresh, barred, left, unrevoked>>

\* createSession.  When that fails only an access token is signed, without a sid;
\* when only its answer is lost the session exists all the same.
CreateSession(r) ==
    /\ At(r, "login")
    /\ \/ \E s \in Sids :
             /\ session[s] = "none"
             /\ session' = [session EXCEPT ![s] = "active"]
             /\ LET read == request[r].claims
                IN  \/ /\ Moves(r, "cap", ClaimsOf(s, read.version, s, read.login, None), {})
                       /\ UNCHANGED unrevoked
                    \/ Goes(r, "sign") /\ unrevoked' = unrevoked \cup {"cap"}
       \/ Goes(r, "sign") /\ UNCHANGED <<session, unrevoked>>
    /\ UNCHANGED <<version, pair, refresh, barred, left>>

\* enforceSessionCap: how many of the other sessions are too many.
CapIgnoresItself(r, others) == Cardinality(others) - MaxSessions
Excess(r, others) == Cardinality(others) - (MaxSessions - 1)

\* enforceSessionCap looks for the sessions not seen for the longest time...
FindExcess(r) ==
    /\ At(r, "cap")
    /\ LET others == Active \ {request[r].claims.sid}
       IN  \/ /\ Excess(r, others) <= 0
              /\ Goes(r, "sign")
           \/ \E oldest \in SUBSET others :
                /\ Excess(r, others) > 0 /\ Cardinality(oldest) = Excess(r, others)
                /\ Moves(r, "capRevoke", request[r].claims, oldest)
    /\ UNCHANGED <<version, session, pair, refresh, barred, left, unrevoked>>

\* ... and revokes them.  Its failure does not stop the login.
RevokeExcess(r) ==
    /\ At(r, "capRevoke")
    /\ RevokeSafe(request[r].todo, {"cap"})
    /\ Moves(r, "sign", request[r].claims, {})
    /\ UNCHANGED <<version, pair, refresh, barred, left>>

\* What generateToken and generateRefreshToken put into a pair: the version the
\* user had when the request read it, and the sid.
ClaimsOfNow(r)      == [request[r].claims EXCEPT !.version = version]
ClaimsWithoutSid(r) == [request[r].claims EXCEPT !.sid = None]
Claims(r) == request[r].claims

Sign(r) ==
    /\ At(r, "sign")
    /\ \E p \in Pairs \ Signed : pair' = [pair EXCEPT ![p] = Claims(r)]
    /\ Finished(r)
    /\ UNCHANGED <<version, session, refresh, barred, left, unrevoked>>

-----------------------------------------------------------------------------
(* refreshSession *)

\* The user is read: a pair of another version is turned away.
Refresh(r, p) ==
    /\ p \in Signed /\ pair[p].sid # None
    /\ pair[p].version = version
    /\ At(r, "idle")
    /\ Moves(r, "claim", ClaimsOf(pair[p].sid, version, pair[p].line, pair[p].login, p), {})
    /\ UNCHANGED <<version, session, pair, refresh, barred, left, unrevoked>>

\* consumeToken: the unique index lets only one insertion of the token succeed.
Unclaimed(p) == refresh[p] = "unused"
ConsumeForgotten(p) == UNCHANGED refresh
Consume(p) == refresh' = [refresh EXCEPT ![p] = "rotated"]

\* A replay (revokeOnRefreshReplay) is only turned away after a logout or within
\* ROTATE_REPLAY_GRACE_MS of a rotation; time is left open here.
Replay(r, p) ==
    \/ Finished(r)
    \/ refresh[p] = "rotated" /\ Goes(r, "bump")

\* The insertion fails, or only its answer is lost.
Claim(r) ==
    /\ At(r, "claim")
    /\ LET p == request[r].claims.parent
       IN  \/ Unclaimed(p) /\ Consume(p) /\ Goes(r, "validate")
           \/ ~Unclaimed(p) /\ Replay(r, p) /\ UNCHANGED refresh
           \/ Finished(r) /\ (UNCHANGED refresh \/ (Unclaimed(p) /\ Consume(p)))
    /\ UNCHANGED <<version, session, pair, barred, left, unrevoked>>

\* resolveRotationSession.  A session that was revoked a short while ago may
\* still be usable in the cache; every session is refused when the database fails.
Validate(r) ==
    /\ At(r, "validate")
    /\ Goes(r, "sign") \/ Finished(r)
    /\ UNCHANGED <<version, session, pair, refresh, barred, left, unrevoked>>

-----------------------------------------------------------------------------
(* Revocation of everything: a replay, a changed password, an administrator *)

RevokeEverything(r) ==
    /\ At(r, "idle") /\ Moves(r, "bump", NoClaims, {})
    /\ UNCHANGED <<version, session, pair, refresh, barred, left, unrevoked>>

\* invalidateUserTokens; when it fails the request fails.
InvalidateUserTokens(r) ==
    /\ At(r, "bump")
    /\ \/ /\ version < MaxVersion
          /\ version' = version + 1
          /\ Goes(r, "revokeAll")
       \/ Finished(r) /\ UNCHANGED version
    /\ UNCHANGED <<session, pair, refresh, barred, left, unrevoked>>

\* revokeAllSessionsSafe: its failure is not told to anyone, and nothing depends
\* on it.
RevokeAllSessions(r) ==
    /\ At(r, "revokeAll")
    /\ RevokeSafe(Sids, {})
    /\ Finished(r)
    /\ UNCHANGED <<version, pair, refresh, barred, left>>

-----------------------------------------------------------------------------
(* Logout, termination of devices, expiry *)

\* The access token of a pair still works, as far as the database tells.
Usable(p) ==
    /\ p \in Signed \ barred
    /\ pair[p].version = version
    /\ pair[p].sid # None => session[pair[p].sid] = "active"

\* A new pair can be had for its refresh token.
Renewable(p) ==
    /\ p \in Signed /\ pair[p].sid # None
    /\ Unclaimed(p)
    /\ pair[p].version = version
    /\ session[pair[p].sid] = "active"

\* logout, authenticated by the access token of p, or without it by the refresh
\* token of p; the refresh tokens `presented` come from the body and the cookie.
Logout(r, p, presented) ==
    /\ presented \subseteq {q \in Signed : pair[q].sid # None}
    /\ Cardinality(presented) <= MaxPresented
    /\ \E step \in {"bar", "barRefresh"} :
          /\ IF step = "bar" THEN Usable(p) ELSE p \in presented /\ Unclaimed(p)
          /\ At(r, "idle")
          /\ Moves(r, step, ClaimsOf(pair[p].sid, 0, None, 0, p), presented)
    /\ UNCHANGED <<version, session, pair, refresh, barred, left, unrevoked>>

\* blacklistToken(accessToken); its failure makes the logout fail in the end.
BarAccess(r) ==
    /\ At(r, "bar")
    /\ \/ /\ barred' = barred \cup {request[r].claims.parent}
          /\ Goes(r, "barRefresh")
       \/ Goes(r, "barFailed") /\ UNCHANGED barred
    /\ UNCHANGED <<version, session, pair, refresh, left, unrevoked>>

\* revokeOneRefreshToken, one after the other; the first reason stays.
BarRefresh(r) ==
    /\ request[r].step \in {"barRefresh", "barFailed"}
    /\ \E p \in request[r].todo :
          \/ /\ refresh' = [refresh EXCEPT ![p] = IF Unclaimed(p) THEN "loggedOut" ELSE @]
             /\ Moves(r, request[r].step, request[r].claims, request[r].todo \ {p})
          \/ /\ Moves(r, "barFailed", request[r].claims, request[r].todo \ {p})
             /\ UNCHANGED refresh
    /\ UNCHANGED <<version, session, pair, barred, left, unrevoked>>

\* An access token without a sid belongs to no session that could be revoked.
HasSession(r) == request[r].claims.sid # None

\* A token that could not be barred ends the logout with an error.
LogoutBarred(r) ==
    /\ request[r].step \in {"barRefresh", "barFailed"} /\ request[r].todo = {}
    /\ IF HasSession(r) /\ ~At(r, "barFailed") THEN Goes(r, "leave") ELSE Finished(r)
    /\ UNCHANGED <<version, session, pair, refresh, barred, left, unrevoked>>

\* revokeSessionSafe, then the answer: its failure is not told to anyone.
LeaveSession(r) ==
    /\ At(r, "leave")
    /\ RevokeSafe({request[r].claims.sid}, {"logout"})
    /\ left' = left \cup {request[r].claims.sid}
    /\ Finished(r)
    /\ UNCHANGED <<version, pair, refresh, barred>>

\* revokeSession of another device, or revokeOtherSessions.
Terminate(sids) ==
    /\ sids # {} /\ sids \subseteq Active
    /\ \E keep \in Sids \cup {None} : sids = Active \ {keep} \/ Cardinality(sids) = 1
    /\ Revoke(sids)
    /\ left' = left \cup sids
    /\ UNCHANGED <<version, pair, refresh, barred, request, unrevoked>>

Next ==
    \/ \E r \in Requests :
        \/ Login(r) \/ CreateSession(r) \/ FindExcess(r) \/ RevokeExcess(r) \/ Sign(r)
        \/ Claim(r) \/ Validate(r)
        \/ RevokeEverything(r) \/ InvalidateUserTokens(r) \/ RevokeAllSessions(r)
        \/ BarAccess(r) \/ BarRefresh(r) \/ LogoutBarred(r) \/ LeaveSession(r)
        \/ \E p \in Pairs :
            \/ Refresh(r, p)
            \/ \E presented \in SUBSET Pairs : Logout(r, p, presented)
    \/ \E sids \in SUBSET Sids : Terminate(sids)

Spec == Init /\ [][Next]_vars

-----------------------------------------------------------------------------
(* Properties *)

VariablesTyped ==
    /\ version \in Nat
    /\ session \in [Sids -> {"none", "active", "revoked"}]
    /\ pair \in [Pairs -> PairType \cup {None}]
    /\ refresh \in [Pairs -> {"unused", "rotated", "loggedOut"}]
    /\ barred \subseteq Pairs
    /\ request \in [Requests -> RequestType]
    /\ left \subseteq Sids
    /\ unrevoked \subseteq {"cap", "logout"}

RequestsTyped ==
    \A r \in Requests :
        /\ At(r, "claim") \/ At(r, "bar") => request[r].claims.parent \in Signed
        /\ At(r, "leave") => request[r].claims.sid \in Sids

\* What each variable holds; the pair that a rotation replaces or a logout ends
\* is one that was signed, and a session that is left is known.
SessionsTypeOK == VariablesTyped /\ RequestsTyped

\* token.js:185-187: however many requests present a refresh token, and whatever
\* is lost on the way, a session never has two pairs that can be rotated: there
\* are no parallel lines.
NoParallelLines ==
    \A p, q \in Signed :
        pair[p].line = pair[q].line /\ Renewable(p) /\ Renewable(q) => p = q

\* A revocation of everything is final: no pair works that goes back to a login
\* which had read the user before it, however long that login, or a rotation,
\* took.
RevocationIsFinal ==
    \A p \in Signed : Usable(p) \/ Renewable(p) => pair[p].login = version

\* token.js:205-210: a device that was terminated or has logged out does not come
\* back through a rotation that was under way, unless the revocation of a session
\* failed at a logout.
GoneStaysGone ==
    "logout" \notin unrevoked =>
        \A p \in Signed : pair[p].line \in left => ~Usable(p) /\ ~Renewable(p)

\* When no login is at it, a user has no more active sessions than the cap
\* allows, however many logins ran at once, unless applying the cap failed.
CapHolds ==
    \/ "cap" \in unrevoked
    \/ \E r \in Requests : request[r].step \in {"cap", "capRevoke"}
    \/ Cardinality(Active) <= MaxSessions
=============================================================================
