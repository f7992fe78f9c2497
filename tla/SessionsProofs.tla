--------------------------- MODULE SessionsProofs ---------------------------
(***************************************************************************)
(* Theorems about Sessions, for any number of requests, sessions, pairs    *)
(* and revocations.                                                        *)
(*                                                                         *)
(* A session has one line: either one pair whose refresh token is unused,  *)
(* or one request that is about to sign the next one (LineInv).  A pair    *)
(* carries the version its login had read, through every rotation          *)
(* (VersionInv), and a reported session stays revoked (GoneInv).  The      *)
(* sessions that no login is about to weigh against the cap or to revoke   *)
(* never exceed it (CapInv).                                               *)
(***************************************************************************)
EXTENDS Sessions, FiniteSetTheorems, TLAPS

\* What a request signs is what its login, or the pair it presents, had.
VersionInv ==
    /\ \A p \in Signed : pair[p].version = pair[p].login
    /\ \A r \in Requests : request[r].claims.version = request[r].claims.login

\* A request that is going to sign a pair keeps to its session, which exists.
Making == {"login", "cap", "capRevoke", "sign", "claim", "validate"}

SidInv ==
    /\ \A p \in Signed : /\ pair[p].line = pair[p].sid
                         /\ pair[p].sid # None => session[pair[p].sid] # "none"
    /\ \A r \in Requests :
          LET claims == request[r].claims
          IN  /\ claims.sid # None => session[claims.sid] # "none"
              /\ request[r].step \in Making => claims.line = claims.sid
              /\ At(r, "login") => claims.sid = None
              /\ At(r, "leave") => claims.sid # None

\* Who has the line of session s: a request about to sign, or an unused token.
Signing(r, s) == /\ request[r].step \in {"cap", "capRevoke", "sign", "validate"}
                 /\ request[r].claims.sid = s
Open(p, s)    == p \in Signed /\ pair[p].sid = s /\ refresh[p] = "unused"

LineInv ==
    /\ \A s \in Sids :
          /\ \A p, q \in Pairs : Open(p, s) /\ Open(q, s) => p = q
          /\ \A r, t \in Requests : Signing(r, s) /\ Signing(t, s) => r = t
          /\ \A r \in Requests, p \in Pairs : ~(Signing(r, s) /\ Open(p, s))
    /\ \A r \in Requests : At(r, "claim") =>
          /\ request[r].claims.parent \in Signed
          /\ pair[request[r].claims.parent].sid = request[r].claims.sid

\* What was reported revoked is revoked.
GoneInv == "logout" \notin unrevoked => \A s \in left : session[s] = "revoked"

-----------------------------------------------------------------------------
\* Records: what the claims of a pair are, and what a step does to the requests.
LEMMA ClaimsOfType ==
    ASSUME NEW sid \in Sids \cup {None}, NEW v \in Nat, NEW line \in Sids \cup {None},
           NEW login \in Nat, NEW parent \in Pairs \cup {None}
    PROVE  ClaimsOf(sid, v, line, login, parent) \in PairType
BY DEF ClaimsOf, PairType

LEMMA NoClaimsType == NoClaims \in PairType
BY ClaimsOfType DEF NoClaims

LEMMA ClaimsFields ==
    ASSUME NEW c \in PairType
    PROVE  /\ c.sid \in Sids \cup {None} /\ c.line \in Sids \cup {None}
           /\ c.version \in Nat /\ c.login \in Nat
           /\ c.parent \in Pairs \cup {None}
BY DEF PairType

LEMMA RequestFields ==
    ASSUME VariablesTyped, NEW r \in Requests
    PROVE  /\ request[r].step \in Steps
           /\ request[r].claims \in PairType
           /\ request[r].todo \subseteq Sids \cup Pairs
BY DEF VariablesTyped, RequestType

LEMMA NothingToDo ==
    ASSUME NEW step \in Steps, NEW claims \in PairType
    PROVE  [step |-> step, claims |-> claims, todo |-> {}] \in RequestType
BY DEF RequestType

LEMMA MovesType ==
    ASSUME VariablesTyped, NEW r \in Requests, NEW q \in RequestType,
           request' = [request EXCEPT ![r] = q]
    PROVE  /\ request' \in [Requests -> RequestType]
           /\ request'[r] = q
           /\ \A t \in Requests \ {r} : request'[t] = request[t]
BY DEF VariablesTyped

LEMMA GoesType ==
    ASSUME VariablesTyped, NEW r \in Requests, NEW step, Goes(r, step), step \in Steps
    PROVE  /\ request' \in [Requests -> RequestType]
           /\ request'[r].step = step
           /\ request'[r].claims = request[r].claims
           /\ request'[r].todo = request[r].todo
           /\ \A t \in Requests \ {r} : request'[t] = request[t]
<1>1. [step |-> step, claims |-> request[r].claims, todo |-> request[r].todo]
        \in RequestType
  BY RequestFields DEF RequestType
<1> QED
  BY <1>1, MovesType DEF Goes, Moves

LEMMA FinishedType ==
    ASSUME VariablesTyped, NEW r \in Requests, Finished(r)
    PROVE  /\ request' \in [Requests -> RequestType]
           /\ request'[r].step = "idle"
           /\ request'[r].claims = NoClaims
           /\ \A t \in Requests \ {r} : request'[t] = request[t]
<1>1. "idle" \in Steps
  BY DEF Steps
<1>2. [step |-> "idle", claims |-> NoClaims, todo |-> {}] \in RequestType
  BY <1>1, NoClaimsType, NothingToDo
<1> QED
  BY <1>2, MovesType DEF Finished, Moves

LEMMA SignedFields ==
    ASSUME VariablesTyped, NEW p \in Signed
    PROVE  p \in Pairs /\ pair[p] \in PairType
BY DEF VariablesTyped, Signed

LEMMA RevokeType ==
    ASSUME VariablesTyped, NEW sids, NEW failure,
           Revoke(sids) \/ RevokeSafe(sids, failure)
    PROVE  session' \in [Sids -> {"none", "active", "revoked"}]
BY DEF VariablesTyped, Revoke, RevokeSafe

\* No step changes a pair that was signed.
LEMMA SignedStays ==
    ASSUME VariablesTyped, [Next]_vars
    PROVE  Signed \subseteq Signed' /\ \A p \in Signed : pair'[p] = pair[p]
<1>1. ASSUME NEW r \in Requests, Sign(r)
      PROVE  Signed \subseteq Signed' /\ \A p \in Signed : pair'[p] = pair[p]
  BY <1>1 DEF Sign, Signed, VariablesTyped
<1>2. CASE UNCHANGED pair
  BY <1>2 DEF Signed
<1> QED
  BY <1>1, <1>2 DEF Next, vars, Login, CreateSession, FindExcess, RevokeExcess, Refresh,
     Claim, Validate, RevokeEverything, InvalidateUserTokens, RevokeAllSessions, Logout,
     BarAccess, BarRefresh, LogoutBarred, LeaveSession, Terminate

-----------------------------------------------------------------------------
\* Each variable stays within its type: one step per action.
THEOREM SessionsTyped == Spec => []SessionsTypeOK
<1>1. ASSUME Init
      PROVE  SessionsTypeOK
  <2>1. [step |-> "idle", claims |-> NoClaims, todo |-> {}] \in RequestType
    BY NoClaimsType DEF RequestType, Steps
  <2> QED
    BY <1>1, <2>1, NoClaimsType
       DEF Init, SessionsTypeOK, VariablesTyped, RequestsTyped, At
<1>2. ASSUME VariablesTyped, RequestsTyped, [Next]_vars
      PROVE  VariablesTyped'
  <2>1. ASSUME NEW r \in Requests, Login(r)
        PROVE  VariablesTyped'
    <3>1. ClaimsOf(None, version, None, version, None) \in PairType
      BY <1>2, ClaimsOfType DEF VariablesTyped
    <3>2. [step |-> "login", claims |-> ClaimsOf(None, version, None, version, None),
           todo |-> {}] \in RequestType
      BY <3>1, NothingToDo DEF Steps
    <3> QED
      BY <1>2, <2>1, <3>2, MovesType DEF Login, VariablesTyped, Moves
  <2>2. ASSUME NEW r \in Requests, CreateSession(r)
        PROVE  VariablesTyped'
    <3>1. CASE Goes(r, "sign")
      BY <1>2, <2>2, <3>1, GoesType DEF CreateSession, VariablesTyped, Steps
    <3>2. ASSUME NEW s \in Sids, session' = [session EXCEPT ![s] = "active"],
                 Moves(r, "cap", ClaimsOf(s, request[r].claims.version, s,
                                          request[r].claims.login, None), {})
          PROVE  VariablesTyped'
      <4>1. ClaimsOf(s, request[r].claims.version, s, request[r].claims.login, None)
              \in PairType
        BY <1>2, ClaimsOfType, ClaimsFields, RequestFields
      <4>2. [step |-> "cap", claims |-> ClaimsOf(s, request[r].claims.version, s,
                                                 request[r].claims.login, None),
             todo |-> {}] \in RequestType
        BY <4>1, NothingToDo DEF Steps
      <4>3. request' \in [Requests -> RequestType]
        BY <1>2, <3>2, <4>2, MovesType DEF Moves
      <4> QED
        BY <1>2, <2>2, <3>2, <4>3 DEF CreateSession, VariablesTyped
    <3> QED
      BY <2>2, <3>1, <3>2 DEF CreateSession
  <2>3. ASSUME NEW r \in Requests, FindExcess(r)
        PROVE  VariablesTyped'
    <3>1. CASE Goes(r, "sign")
      BY <1>2, <2>3, <3>1, GoesType DEF FindExcess, VariablesTyped, Steps
    <3>2. ASSUME NEW oldest \in SUBSET Sids,
                 Moves(r, "capRevoke", request[r].claims, oldest)
          PROVE  VariablesTyped'
      <4>0. [step |-> "capRevoke", claims |-> request[r].claims, todo |-> oldest]
              \in RequestType
        BY <1>2, RequestFields DEF RequestType, Steps
      <4>1. request' \in [Requests -> RequestType]
        BY <1>2, <3>2, <4>0, MovesType DEF Moves
      <4> QED
        BY <1>2, <2>3, <4>1 DEF FindExcess, VariablesTyped
    <3> QED
      BY <2>3, <3>1, <3>2 DEF FindExcess, Active
  <2>4. ASSUME NEW r \in Requests, RevokeExcess(r)
        PROVE  VariablesTyped'
    <3>0. [step |-> "sign", claims |-> request[r].claims, todo |-> {}] \in RequestType
      BY <1>2, RequestFields, NothingToDo DEF Steps
    <3>1. request' \in [Requests -> RequestType]
      BY <1>2, <2>4, <3>0, MovesType DEF RevokeExcess, Moves
    <3> QED
      BY <1>2, <2>4, <3>1, RevokeType DEF RevokeExcess, RevokeSafe, VariablesTyped
  <2>5. ASSUME NEW r \in Requests, Sign(r)
        PROVE  VariablesTyped'
    BY <1>2, <2>5, FinishedType, RequestFields DEF Sign, Claims, VariablesTyped
  <2>6. ASSUME NEW r \in Requests, NEW p \in Pairs, Refresh(r, p)
        PROVE  VariablesTyped'
    <3>1. ClaimsOf(pair[p].sid, version, pair[p].line, pair[p].login, p) \in PairType
      BY <1>2, <2>6, ClaimsOfType, ClaimsFields, SignedFields DEF Refresh, VariablesTyped
    <3>2. [step |-> "claim",
           claims |-> ClaimsOf(pair[p].sid, version, pair[p].line, pair[p].login, p),
           todo |-> {}] \in RequestType
      BY <3>1, NothingToDo DEF Steps
    <3> QED
      BY <1>2, <2>6, <3>2, MovesType DEF Refresh, VariablesTyped, Moves
  <2>7. ASSUME NEW r \in Requests, Claim(r)
        PROVE  VariablesTyped'
    <3>1. request' \in [Requests -> RequestType]
      BY <1>2, <2>7, GoesType, FinishedType DEF Claim, Replay, Steps
    <3>2. refresh' \in [Pairs -> {"unused", "rotated", "loggedOut"}]
      BY <1>2, <2>7 DEF Claim, Consume, VariablesTyped
    <3> QED
      BY <1>2, <2>7, <3>1, <3>2 DEF Claim, VariablesTyped
  <2>8. ASSUME NEW r \in Requests, Validate(r)
        PROVE  VariablesTyped'
    BY <1>2, <2>8, GoesType, FinishedType DEF Validate, VariablesTyped, Steps
  <2>9. ASSUME NEW r \in Requests, RevokeEverything(r)
        PROVE  VariablesTyped'
    <3>1. [step |-> "bump", claims |-> NoClaims, todo |-> {}] \in RequestType
      BY NoClaimsType, NothingToDo DEF Steps
    <3> QED
      BY <1>2, <2>9, <3>1, MovesType DEF RevokeEverything, VariablesTyped, Moves
  <2>10. ASSUME NEW r \in Requests, InvalidateUserTokens(r)
         PROVE  VariablesTyped'
    BY <1>2, <2>10, GoesType, FinishedType DEF InvalidateUserTokens, VariablesTyped, Steps
  <2>11. ASSUME NEW r \in Requests, RevokeAllSessions(r)
         PROVE  VariablesTyped'
    BY <1>2, <2>11, FinishedType, RevokeType
       DEF RevokeAllSessions, RevokeSafe, VariablesTyped
  <2>12. ASSUME NEW r \in Requests, NEW p \in Pairs, NEW presented \in SUBSET Pairs,
                Logout(r, p, presented)
         PROVE  VariablesTyped'
    <3>1. p \in Signed
      BY <2>12 DEF Logout, Usable
    <3>2. ClaimsOf(pair[p].sid, 0, None, 0, p) \in PairType
      BY <1>2, <3>1, ClaimsOfType, ClaimsFields, SignedFields
    <3>3. PICK step \in {"bar", "barRefresh"} :
             Moves(r, step, ClaimsOf(pair[p].sid, 0, None, 0, p), presented)
      BY <2>12 DEF Logout
    <3>4. [step |-> step, claims |-> ClaimsOf(pair[p].sid, 0, None, 0, p),
           todo |-> presented] \in RequestType
      BY <3>2 DEF RequestType, Steps
    <3>5. request' \in [Requests -> RequestType]
      BY <1>2, <3>3, <3>4, MovesType DEF Moves
    <3> QED
      BY <1>2, <2>12, <3>5 DEF Logout, VariablesTyped
  <2>13. ASSUME NEW r \in Requests, BarAccess(r)
         PROVE  VariablesTyped'
    <3>1. barred' \subseteq Pairs
      BY <1>2, <2>13 DEF BarAccess, VariablesTyped, RequestsTyped, Signed
    <3>2. request' \in [Requests -> RequestType]
      BY <1>2, <2>13, GoesType DEF BarAccess, Steps
    <3> QED
      BY <1>2, <2>13, <3>1, <3>2 DEF BarAccess, VariablesTyped
  <2>14. ASSUME NEW r \in Requests, BarRefresh(r)
         PROVE  VariablesTyped'
    <3>1. PICK p \in request[r].todo :
             \/ Moves(r, request[r].step, request[r].claims, request[r].todo \ {p})
             \/ Moves(r, "barFailed", request[r].claims, request[r].todo \ {p})
      BY <2>14 DEF BarRefresh
    <3>2. \A step \in Steps :
             [step |-> step, claims |-> request[r].claims, todo |-> request[r].todo \ {p}]
                \in RequestType
      BY <1>2, RequestFields DEF RequestType
    <3>3. request' \in [Requests -> RequestType]
      <4>1. request[r].step \in Steps /\ "barFailed" \in Steps
        BY <1>2, RequestFields DEF Steps
      <4> QED
        BY <1>2, <3>1, <3>2, <4>1, MovesType DEF Moves
    <3>4. refresh' \in [Pairs -> {"unused", "rotated", "loggedOut"}]
      BY <1>2, <2>14 DEF BarRefresh, VariablesTyped
    <3> QED
      BY <1>2, <2>14, <3>3, <3>4 DEF BarRefresh, VariablesTyped
  <2>15. ASSUME NEW r \in Requests, LogoutBarred(r)
         PROVE  VariablesTyped'
    BY <1>2, <2>15, GoesType, FinishedType DEF LogoutBarred, HasSession, VariablesTyped, Steps
  <2>16. ASSUME NEW r \in Requests, LeaveSession(r)
         PROVE  VariablesTyped'
    <3>1. left' \subseteq Sids
      BY <1>2, <2>16 DEF LeaveSession, VariablesTyped, RequestsTyped
    <3> QED
      BY <1>2, <2>16, <3>1, FinishedType, RevokeType
         DEF LeaveSession, RevokeSafe, VariablesTyped
  <2>17. ASSUME NEW sids \in SUBSET Sids, Terminate(sids)
         PROVE  VariablesTyped'
    BY <1>2, <2>17, RevokeType DEF Terminate, VariablesTyped
  <2>18. CASE UNCHANGED vars
    BY <1>2, <2>18 DEF vars, VariablesTyped
  <2> QED
    BY <1>2, <2>1, <2>2, <2>3, <2>4, <2>5, <2>6, <2>7, <2>8, <2>9, <2>10, <2>11,
       <2>12, <2>13, <2>14, <2>15, <2>16, <2>17, <2>18 DEF Next
<1>3. ASSUME VariablesTyped, RequestsTyped, [Next]_vars
      PROVE  RequestsTyped'
  <2>1. Signed \subseteq Signed'
    BY <1>3, SignedStays
  <2> DEFINE Fits(q) == /\ q.step \in {"claim", "bar"} => q.claims.parent \in Signed
                        /\ q.step = "leave" => q.claims.sid \in Sids
  <2>2. ASSUME NEW r \in Requests, Fits(request'[r]),
               \A t \in Requests \ {r} : request'[t] = request[t]
        PROVE  RequestsTyped'
    BY <1>3, <2>1, <2>2 DEF RequestsTyped, At
  <2>3. ASSUME NEW r \in Requests, Login(r)
        PROVE  RequestsTyped'
    BY <1>3, <2>2, <2>3 DEF Login, Moves, VariablesTyped
  <2>4. ASSUME NEW r \in Requests, CreateSession(r)
        PROVE  RequestsTyped'
    BY <1>3, <2>2, <2>4 DEF CreateSession, Goes, Moves, VariablesTyped
  <2>5. ASSUME NEW r \in Requests, FindExcess(r)
        PROVE  RequestsTyped'
    BY <1>3, <2>2, <2>5 DEF FindExcess, Goes, Moves, VariablesTyped
  <2>6. ASSUME NEW r \in Requests, RevokeExcess(r)
        PROVE  RequestsTyped'
    BY <1>3, <2>2, <2>6 DEF RevokeExcess, Moves, VariablesTyped
  <2>7. ASSUME NEW r \in Requests, Sign(r)
        PROVE  RequestsTyped'
    BY <1>3, <2>2, <2>7, FinishedType DEF Sign
  <2>8. ASSUME NEW r \in Requests, NEW p \in Pairs, Refresh(r, p)
        PROVE  RequestsTyped'
    BY <1>3, <2>2, <2>8 DEF Refresh, Moves, ClaimsOf, VariablesTyped
  <2>9. ASSUME NEW r \in Requests, Claim(r) \/ Validate(r)
        PROVE  RequestsTyped'
    BY <1>3, <2>2, <2>9, GoesType, FinishedType DEF Claim, Replay, Validate, Steps
  <2>10. ASSUME NEW r \in Requests, RevokeEverything(r)
         PROVE  RequestsTyped'
    BY <1>3, <2>2, <2>10 DEF RevokeEverything, Moves, VariablesTyped
  <2>11. ASSUME NEW r \in Requests, InvalidateUserTokens(r) \/ RevokeAllSessions(r)
         PROVE  RequestsTyped'
    BY <1>3, <2>2, <2>11, GoesType, FinishedType
       DEF InvalidateUserTokens, RevokeAllSessions, Steps
  <2>12. ASSUME NEW r \in Requests, NEW p \in Pairs, NEW presented \in SUBSET Pairs,
                Logout(r, p, presented)
         PROVE  RequestsTyped'
    <3>1. p \in Signed
      BY <2>12 DEF Logout, Usable
    <3> QED
      BY <1>3, <2>2, <2>12, <3>1 DEF Logout, Moves, ClaimsOf, VariablesTyped
  <2>13. ASSUME NEW r \in Requests, BarAccess(r)
         PROVE  RequestsTyped'
    BY <1>3, <2>2, <2>13, GoesType DEF BarAccess, Steps
  <2>14. ASSUME NEW r \in Requests, BarRefresh(r)
         PROVE  RequestsTyped'
    BY <1>3, <2>2, <2>14 DEF BarRefresh, Moves, VariablesTyped
  <2>15. ASSUME NEW r \in Requests, LogoutBarred(r)
         PROVE  RequestsTyped'
    <3>1. request[r].claims.sid # None => request[r].claims.sid \in Sids
      BY <1>3, RequestFields, ClaimsFields
    <3> QED
      BY <1>3, <2>2, <2>15, <3>1, GoesType, FinishedType DEF LogoutBarred, HasSession, Steps
  <2>16. ASSUME NEW r \in Requests, LeaveSession(r)
         PROVE  RequestsTyped'
    BY <1>3, <2>2, <2>16, FinishedType DEF LeaveSession
  <2>17. CASE UNCHANGED request
    BY <1>3, <2>1, <2>17 DEF RequestsTyped, At
  <2> QED
    BY <1>3, <2>3, <2>4, <2>5, <2>6, <2>7, <2>8, <2>9, <2>10, <2>11, <2>12, <2>13,
       <2>14, <2>15, <2>16, <2>17 DEF Next, Terminate, vars
<1> QED
  BY <1>1, <1>2, <1>3, PTL DEF Spec, SessionsTypeOK

-----------------------------------------------------------------------------
\* A session never goes back to an earlier status.
LEMMA SessionAdvances ==
    ASSUME VariablesTyped, [Next]_vars
    PROVE  \A s \in Sids : /\ session[s] # "none" => session'[s] # "none"
                           /\ session[s] = "revoked" => session'[s] = "revoked"
<1>1. ASSUME NEW sids, NEW failure, Revoke(sids) \/ RevokeSafe(sids, failure)
      PROVE  \A s \in Sids : /\ session[s] # "none" => session'[s] # "none"
                             /\ session[s] = "revoked" => session'[s] = "revoked"
  BY <1>1 DEF Revoke, RevokeSafe
<1>2. ASSUME NEW r \in Requests, CreateSession(r)
      PROVE  \A s \in Sids : /\ session[s] # "none" => session'[s] # "none"
                             /\ session[s] = "revoked" => session'[s] = "revoked"
  BY <1>2 DEF CreateSession, VariablesTyped
<1>3. ASSUME NEW r \in Requests,
             RevokeExcess(r) \/ RevokeAllSessions(r) \/ LeaveSession(r)
      PROVE  \A s \in Sids : /\ session[s] # "none" => session'[s] # "none"
                             /\ session[s] = "revoked" => session'[s] = "revoked"
  BY <1>1, <1>3 DEF RevokeExcess, RevokeAllSessions, LeaveSession
<1>4. ASSUME NEW sids \in SUBSET Sids, Terminate(sids)
      PROVE  \A s \in Sids : /\ session[s] # "none" => session'[s] # "none"
                             /\ session[s] = "revoked" => session'[s] = "revoked"
  BY <1>1, <1>4 DEF Terminate
<1>5. CASE UNCHANGED session
  BY <1>5
<1> QED
  BY <1>2, <1>3, <1>4, <1>5 DEF Next, vars, Login, FindExcess, Sign, Refresh, Claim,
     Validate, RevokeEverything, InvalidateUserTokens, Logout, BarAccess, BarRefresh,
     LogoutBarred

\* Versions and sids: by what a step does to its request.
LEMMA VersionSidStep ==
    ASSUME SessionsTypeOK, VersionInv, SidInv, [Next]_vars
    PROVE  VersionInv' /\ SidInv'
<1>1. VariablesTyped
  BY DEF SessionsTypeOK
<1>2. /\ Signed \subseteq Signed'
      /\ \A p \in Signed : pair'[p] = pair[p] /\ p \in Pairs /\ pair[p] \in PairType
  BY <1>1, SignedStays, SignedFields
<1>3. \A s \in Sids : session[s] # "none" => session'[s] # "none"
  BY <1>1, SessionAdvances
<1>4. /\ \A p \in Signed : pair[p].sid # None => pair[p].sid \in Sids
      /\ \A r \in Requests : request[r].claims.sid # None => request[r].claims.sid \in Sids
  BY <1>1, SignedFields, RequestFields, ClaimsFields
<1> DEFINE Fits(q) ==
        /\ q.claims.version = q.claims.login
        /\ q.claims.sid # None => session'[q.claims.sid] # "none"
        /\ q.step \in Making => q.claims.line = q.claims.sid
        /\ q.step = "login" => q.claims.sid = None
        /\ q.step = "leave" => q.claims.sid # None
<1>5. \A r \in Requests : Fits(request[r])
  BY <1>3, <1>4 DEF VersionInv, SidInv, At
<1>6. ASSUME NEW r \in Requests, Fits(request'[r]), UNCHANGED pair,
             \A t \in Requests \ {r} : request'[t] = request[t]
      PROVE  VersionInv' /\ SidInv'
  BY <1>2, <1>3, <1>4, <1>5, <1>6 DEF VersionInv, SidInv, Signed, At
<1>7. Fits([step |-> "idle", claims |-> NoClaims, todo |-> {}])
  BY DEF NoClaims, ClaimsOf, Making
<1>8. ASSUME NEW r \in Requests, Finished(r), UNCHANGED pair
      PROVE  VersionInv' /\ SidInv'
  BY <1>1, <1>6, <1>8, FinishedType DEF NoClaims, ClaimsOf, Making
<1>9. ASSUME NEW r \in Requests, NEW step \in Steps \ {"login", "leave"}, Goes(r, step),
             step \in Making => request[r].step \in Making, UNCHANGED pair
      PROVE  VersionInv' /\ SidInv'
  BY <1>1, <1>5, <1>6, <1>9, GoesType
<1>10. ASSUME NEW r \in Requests, Login(r)
       PROVE  VersionInv' /\ SidInv'
  BY <1>1, <1>6, <1>10 DEF Login, Moves, ClaimsOf, VariablesTyped
<1>11. ASSUME NEW r \in Requests, CreateSession(r)
       PROVE  VersionInv' /\ SidInv'
  <2>1. CASE Goes(r, "sign")
    BY <1>9, <1>11, <2>1 DEF CreateSession, At, Making, Steps
  <2>2. ASSUME NEW s \in Sids, session' = [session EXCEPT ![s] = "active"],
               Moves(r, "cap", ClaimsOf(s, request[r].claims.version, s,
                                        request[r].claims.login, None), {})
        PROVE  VersionInv' /\ SidInv'
    <3>1. session'[s] = "active"
      BY <1>1, <2>2 DEF VariablesTyped
    <3> QED
      BY <1>1, <1>5, <1>6, <1>11, <2>2, <3>1
         DEF CreateSession, Moves, ClaimsOf, VariablesTyped
  <2> QED
    BY <1>11, <2>1, <2>2 DEF CreateSession
<1>12. ASSUME NEW r \in Requests, FindExcess(r)
       PROVE  VersionInv' /\ SidInv'
  <2>1. CASE Goes(r, "sign")
    BY <1>9, <1>12, <2>1 DEF FindExcess, At, Making, Steps
  <2>2. ASSUME NEW oldest, Moves(r, "capRevoke", request[r].claims, oldest)
        PROVE  VersionInv' /\ SidInv'
    BY <1>1, <1>5, <1>6, <1>12, <2>2 DEF FindExcess, At, Making, Moves, VariablesTyped
  <2> QED
    BY <1>12, <2>1, <2>2 DEF FindExcess
<1>13. ASSUME NEW r \in Requests, RevokeExcess(r)
       PROVE  VersionInv' /\ SidInv'
  BY <1>1, <1>5, <1>6, <1>13 DEF RevokeExcess, At, Making, Moves, VariablesTyped
<1>14. ASSUME NEW r \in Requests, Sign(r)
       PROVE  VersionInv' /\ SidInv'
  <2>1. PICK p \in Pairs \ Signed : pair' = [pair EXCEPT ![p] = request[r].claims]
    BY <1>14 DEF Sign, Claims
  <2>2. Signed' \subseteq Signed \cup {p} /\ pair'[p] = request[r].claims
    BY <1>1, <2>1 DEF Signed, VariablesTyped
  <2>3. request[r].claims.line = request[r].claims.sid
    BY <1>5, <1>14 DEF Sign, At, Making
  <2>4. \A t \in Requests : Fits(request'[t])
    BY <1>1, <1>5, <1>7, <1>14, FinishedType DEF Sign, NoClaims, ClaimsOf, Making
  <2>5. \A q \in Signed' : /\ pair'[q].version = pair'[q].login
                           /\ pair'[q].line = pair'[q].sid
                           /\ pair'[q].sid # None => session'[pair'[q].sid] # "none"
    BY <1>2, <1>3, <1>4, <1>5, <2>2, <2>3 DEF VersionInv, SidInv
  <2> QED
    BY <2>4, <2>5 DEF VersionInv, SidInv, At
<1>15. ASSUME NEW r \in Requests, NEW p \in Pairs, Refresh(r, p)
       PROVE  VersionInv' /\ SidInv'
  BY <1>1, <1>2, <1>3, <1>4, <1>6, <1>15
     DEF Refresh, Moves, ClaimsOf, VersionInv, SidInv, VariablesTyped
<1>16. ASSUME NEW r \in Requests, Claim(r)
       PROVE  VersionInv' /\ SidInv'
  BY <1>8, <1>9, <1>16 DEF Claim, Replay, At, Making, Steps
<1>17. ASSUME NEW r \in Requests, Validate(r)
       PROVE  VersionInv' /\ SidInv'
  BY <1>8, <1>9, <1>17 DEF Validate, At, Making, Steps
<1>18. ASSUME NEW r \in Requests, RevokeEverything(r)
       PROVE  VersionInv' /\ SidInv'
  BY <1>1, <1>6, <1>18 DEF RevokeEverything, Moves, NoClaims, ClaimsOf, Making, VariablesTyped
<1>19. ASSUME NEW r \in Requests, InvalidateUserTokens(r) \/ RevokeAllSessions(r)
       PROVE  VersionInv' /\ SidInv'
  BY <1>8, <1>9, <1>19 DEF InvalidateUserTokens, RevokeAllSessions, Making, Steps
<1>20. ASSUME NEW r \in Requests, NEW p \in Pairs, NEW presented \in SUBSET Pairs,
              Logout(r, p, presented)
       PROVE  VersionInv' /\ SidInv'
  <2>1. p \in Signed
    BY <1>20 DEF Logout, Usable
  <2> QED
    BY <1>1, <1>2, <1>3, <1>4, <1>6, <1>20, <2>1
       DEF Logout, Moves, ClaimsOf, Making, SidInv, VariablesTyped
<1>21. ASSUME NEW r \in Requests, BarAccess(r)
       PROVE  VersionInv' /\ SidInv'
  BY <1>9, <1>21 DEF BarAccess, Making, Steps
<1>22. ASSUME NEW r \in Requests, BarRefresh(r)
       PROVE  VersionInv' /\ SidInv'
  BY <1>1, <1>5, <1>6, <1>22 DEF BarRefresh, Moves, Making, VariablesTyped
<1>23. ASSUME NEW r \in Requests, LogoutBarred(r)
       PROVE  VersionInv' /\ SidInv'
  BY <1>1, <1>5, <1>6, <1>8, <1>23, GoesType DEF LogoutBarred, HasSession, Making, Steps
<1>24. ASSUME NEW r \in Requests, LeaveSession(r)
       PROVE  VersionInv' /\ SidInv'
  BY <1>8, <1>24 DEF LeaveSession
<1>25. CASE UNCHANGED <<pair, request>>
  BY <1>2, <1>3, <1>4, <1>5, <1>25 DEF VersionInv, SidInv, Signed, At
<1> QED
  BY <1>10, <1>11, <1>12, <1>13, <1>14, <1>15, <1>16, <1>17, <1>18, <1>19, <1>20,
     <1>21, <1>22, <1>23, <1>24, <1>25 DEF Next, Terminate, vars

LEMMA VersionSidHolds == Spec => [](SessionsTypeOK /\ VersionInv /\ SidInv)
<1>1. Init => VersionInv /\ SidInv
  BY DEF Init, VersionInv, SidInv, Signed, NoClaims, ClaimsOf, At, Making
<1> QED
  BY <1>1, SessionsTyped, VersionSidStep, PTL DEF Spec

-----------------------------------------------------------------------------
\* The line of a session changes hands: from a login or a rotation to the pair it
\* signs, and from the pair to the one request that claims its refresh token.
LEMMA LineStep ==
    ASSUME SessionsTypeOK, SidInv, LineInv, [Next]_vars
    PROVE  LineInv'
<1>1. VariablesTyped
  BY DEF SessionsTypeOK
<1>2. /\ Signed \subseteq Signed'
      /\ \A p \in Signed : pair'[p] = pair[p] /\ p \in Pairs /\ pair[p] \in PairType
  BY <1>1, SignedStays, SignedFields
<1> DEFINE Holds(q, s) == /\ q.step \in {"cap", "capRevoke", "sign", "validate"}
                          /\ q.claims.sid = s
           Fits(q) == q.step = "claim" => /\ q.claims.parent \in Signed
                                          /\ pair[q.claims.parent].sid = q.claims.sid
\* A step that gives no line to its request and opens no pair.
<1>3. ASSUME NEW r \in Requests, UNCHANGED pair, Fits(request'[r]),
             \A t \in Requests \ {r} : request'[t] = request[t],
             \A s \in Sids : Holds(request'[r], s) => Signing(r, s),
             \A p \in Pairs : refresh'[p] = "unused" => refresh[p] = "unused"
      PROVE  LineInv'
  <2>1. \A s \in Sids, t \in Requests : Signing(t, s)' => Signing(t, s)
    BY <1>3 DEF Signing
  <2>2. \A s \in Sids, p \in Pairs : Open(p, s)' => Open(p, s)
    BY <1>3 DEF Open, Signed
  <2>3. \A t \in Requests : At(t, "claim")' =>
           /\ request'[t].claims.parent \in Signed'
           /\ pair'[request'[t].claims.parent].sid = request'[t].claims.sid
    BY <1>2, <1>3 DEF LineInv, At
  <2> QED
    BY <2>1, <2>2, <2>3 DEF LineInv
<1>4. ASSUME NEW r \in Requests, Finished(r), UNCHANGED pair,
             \A p \in Pairs : refresh'[p] = "unused" => refresh[p] = "unused"
      PROVE  LineInv'
  BY <1>1, <1>3, <1>4, FinishedType
<1>5. ASSUME NEW r \in Requests, UNCHANGED pair,
             NEW step \in Steps \ {"claim"}, Goes(r, step),
             step \in {"cap", "capRevoke", "sign", "validate"}
                => request[r].step \in {"cap", "capRevoke", "sign", "validate"},
             \A p \in Pairs : refresh'[p] = "unused" => refresh[p] = "unused"
      PROVE  LineInv'
  BY <1>1, <1>3, <1>5, GoesType DEF Signing
<1>6. ASSUME NEW r \in Requests, Login(r)
      PROVE  LineInv'
  BY <1>1, <1>3, <1>6 DEF Login, Moves, VariablesTyped
<1>7. ASSUME NEW r \in Requests, CreateSession(r)
      PROVE  LineInv'
  <2>1. CASE Goes(r, "sign")
    <3>1. request[r].claims.sid = None
      BY <1>7 DEF CreateSession, SidInv
    <3> QED
      BY <1>1, <1>3, <1>7, <2>1, <3>1, GoesType, SessionsAssumption
         DEF CreateSession, Steps
  <2>2. ASSUME NEW s \in Sids, session[s] = "none",
               Moves(r, "cap", ClaimsOf(s, request[r].claims.version, s,
                                        request[r].claims.login, None), {})
        PROVE  LineInv'
    <3>1. /\ request'[r].step = "cap" /\ request'[r].claims.sid = s
          /\ \A t \in Requests \ {r} : request'[t] = request[t]
      BY <1>1, <2>2 DEF Moves, ClaimsOf, VariablesTyped
    <3>2. s # None
      BY SessionsAssumption
    <3>3. /\ \A t \in Requests : ~Signing(t, s)
          /\ \A p \in Pairs : ~Open(p, s)
      BY <2>2, <3>2 DEF SidInv, Signing, Open
    <3>4. \A z \in Sids, t \in Requests :
             Signing(t, z)' => (t = r /\ z = s) \/ (t # r /\ Signing(t, z))
      BY <3>1 DEF Signing
    <3>5. \A z \in Sids, p \in Pairs : Open(p, z)' => Open(p, z)
      BY <1>7 DEF CreateSession, Open, Signed
    <3>6. \A t \in Requests : At(t, "claim")' =>
             /\ request'[t].claims.parent \in Signed'
             /\ pair'[request'[t].claims.parent].sid = request'[t].claims.sid
      BY <1>2, <1>7, <3>1 DEF CreateSession, LineInv, At
    <3> QED
      BY <3>3, <3>4, <3>5, <3>6 DEF LineInv
  <2> QED
    BY <1>7, <2>1, <2>2 DEF CreateSession
<1>8. ASSUME NEW r \in Requests, FindExcess(r)
      PROVE  LineInv'
  <2>1. CASE Goes(r, "sign")
    BY <1>5, <1>8, <2>1 DEF FindExcess, At, Steps
  <2>2. ASSUME NEW oldest, Moves(r, "capRevoke", request[r].claims, oldest)
        PROVE  LineInv'
    BY <1>1, <1>3, <1>8, <2>2 DEF FindExcess, At, Signing, Moves, VariablesTyped
  <2> QED
    BY <1>8, <2>1, <2>2 DEF FindExcess
<1>9. ASSUME NEW r \in Requests, RevokeExcess(r)
      PROVE  LineInv'
  BY <1>1, <1>3, <1>9 DEF RevokeExcess, At, Signing, Moves, VariablesTyped
<1>10. ASSUME NEW r \in Requests, Sign(r)
       PROVE  LineInv'
  <2>1. PICK p \in Pairs \ Signed : pair' = [pair EXCEPT ![p] = request[r].claims]
    BY <1>10 DEF Sign, Claims
  <2>2. Signed' \subseteq Signed \cup {p} /\ pair'[p] = request[r].claims
    BY <1>1, <2>1 DEF Signed, VariablesTyped
  <2>3. /\ request'[r].step = "idle"
        /\ \A t \in Requests \ {r} : request'[t] = request[t]
    BY <1>1, <1>10, FinishedType DEF Sign
  <2>4. \A s \in Sids, t \in Requests : Signing(t, s)' => t # r /\ Signing(t, s)
    BY <2>3 DEF Signing
  <2>5. \A s \in Sids, q \in Pairs :
           Open(q, s)' => Open(q, s) \/ (q = p /\ Signing(r, s))
    BY <1>2, <1>10, <2>2 DEF Sign, Open, Signing, At
  <2>6. \A t \in Requests : At(t, "claim")' =>
           /\ request'[t].claims.parent \in Signed'
           /\ pair'[request'[t].claims.parent].sid = request'[t].claims.sid
    BY <1>2, <2>3 DEF LineInv, At
  <2> QED
    BY <2>4, <2>5, <2>6 DEF LineInv
<1>11. ASSUME NEW r \in Requests, NEW p \in Pairs, Refresh(r, p)
       PROVE  LineInv'
  BY <1>1, <1>3, <1>11 DEF Refresh, Moves, ClaimsOf, VariablesTyped
<1>12. ASSUME NEW r \in Requests, Claim(r)
       PROVE  LineInv'
  <2> DEFINE p == request[r].claims.parent
  <2>1. p \in Signed /\ p \in Pairs /\ pair[p].sid = request[r].claims.sid
    BY <1>2, <1>12 DEF Claim, LineInv
  <2>2. CASE Unclaimed(p) /\ Consume(p) /\ Goes(r, "validate")
    <3>1. /\ request'[r].step = "validate"
          /\ request'[r].claims = request[r].claims
          /\ \A t \in Requests \ {r} : request'[t] = request[t]
      BY <1>1, <2>2, GoesType DEF Steps
    <3>2. \A s \in Sids, t \in Requests :
             Signing(t, s)' => Signing(t, s) \/ (t = r /\ Open(p, s))
      BY <2>1, <2>2, <3>1 DEF Signing, Open, Unclaimed
    <3>3. \A s \in Sids, q \in Pairs : Open(q, s)' => q # p /\ Open(q, s)
      <4>1. /\ refresh'[p] = "rotated"
            /\ \A q \in Pairs \ {p} : refresh'[q] = refresh[q]
        BY <1>1, <2>1, <2>2 DEF Consume, VariablesTyped
      <4>2. UNCHANGED pair
        BY <1>12 DEF Claim
      <4> QED
        BY <4>1, <4>2 DEF Open, Signed
    <3>4. \A t \in Requests : At(t, "claim")' =>
             /\ request'[t].claims.parent \in Signed'
             /\ pair'[request'[t].claims.parent].sid = request'[t].claims.sid
      BY <1>2, <1>12, <3>1 DEF Claim, LineInv, At
    <3> QED
      BY <2>1, <3>2, <3>3, <3>4 DEF LineInv
  <2>3. CASE Replay(r, p) /\ UNCHANGED refresh
    BY <1>4, <1>5, <1>12, <2>3 DEF Claim, Replay, Steps
  <2>4. CASE Finished(r)
    <3>1. \A q \in Pairs : refresh'[q] = "unused" => refresh[q] = "unused"
      BY <1>1, <1>12 DEF Claim, Consume, VariablesTyped
    <3> QED
      BY <1>4, <1>12, <2>4, <3>1 DEF Claim
  <2> QED
    BY <1>12, <2>2, <2>3, <2>4 DEF Claim
<1>13. ASSUME NEW r \in Requests, Validate(r)
       PROVE  LineInv'
  BY <1>4, <1>5, <1>13 DEF Validate, At, Steps
<1>14. ASSUME NEW r \in Requests, RevokeEverything(r)
       PROVE  LineInv'
  BY <1>1, <1>3, <1>14 DEF RevokeEverything, Moves, VariablesTyped
<1>15. ASSUME NEW r \in Requests, InvalidateUserTokens(r) \/ RevokeAllSessions(r)
       PROVE  LineInv'
  BY <1>4, <1>5, <1>15 DEF InvalidateUserTokens, RevokeAllSessions, Steps
<1>16. ASSUME NEW r \in Requests, NEW p \in Pairs, NEW presented \in SUBSET Pairs,
              Logout(r, p, presented)
       PROVE  LineInv'
  BY <1>1, <1>3, <1>16 DEF Logout, Moves, VariablesTyped
<1>17. ASSUME NEW r \in Requests, BarAccess(r)
       PROVE  LineInv'
  BY <1>5, <1>17 DEF BarAccess, Steps
<1>18. ASSUME NEW r \in Requests, BarRefresh(r)
       PROVE  LineInv'
  <2>1. \A p \in Pairs : refresh'[p] = "unused" => refresh[p] = "unused"
    BY <1>1, <1>18 DEF BarRefresh, VariablesTyped
  <2> QED
    BY <1>1, <1>3, <1>18, <2>1 DEF BarRefresh, Moves, VariablesTyped
<1>19. ASSUME NEW r \in Requests, LogoutBarred(r)
       PROVE  LineInv'
  BY <1>4, <1>5, <1>19 DEF LogoutBarred, HasSession, Steps
<1>20. ASSUME NEW r \in Requests, LeaveSession(r)
       PROVE  LineInv'
  BY <1>4, <1>20 DEF LeaveSession
<1>21. CASE UNCHANGED <<pair, request, refresh>>
  BY <1>2, <1>21 DEF LineInv, Signing, Open, Signed, At
<1> QED
  BY <1>6, <1>7, <1>8, <1>9, <1>10, <1>11, <1>12, <1>13, <1>14, <1>15, <1>16, <1>17,
     <1>18, <1>19, <1>20, <1>21 DEF Next, Terminate, vars

LEMMA LineHolds == Spec => []LineInv
<1>1. Init => LineInv
  BY DEF Init, LineInv, Signing, Open, Signed, At
<1> QED
  BY <1>1, VersionSidHolds, LineStep, PTL DEF Spec

-----------------------------------------------------------------------------
\* A session is reported gone in the step that revokes it, or `unrevoked` says
\* that the revocation failed.
LEMMA GoneStep ==
    ASSUME SessionsTypeOK, SidInv, GoneInv, [Next]_vars
    PROVE  GoneInv'
<1>1. VariablesTyped
  BY DEF SessionsTypeOK
<1>2. \A s \in Sids : session[s] = "revoked" => session'[s] = "revoked"
  BY <1>1, SessionAdvances
<1>3. left \subseteq Sids
  BY <1>1 DEF VariablesTyped
<1>4. CASE left' = left /\ unrevoked \subseteq unrevoked'
  BY <1>2, <1>3, <1>4 DEF GoneInv
<1>5. ASSUME NEW r \in Requests, LeaveSession(r)
      PROVE  GoneInv'
  <2> DEFINE s == request[r].claims.sid
  <2>1. s \in Sids /\ session[s] # "none"
    <3>1. s \in Sids
      BY <1>5 DEF LeaveSession, SessionsTypeOK, RequestsTyped
    <3> QED
      BY <1>5, <3>1, SessionsAssumption DEF SidInv
  <2>2. CASE Revoke({s}) /\ UNCHANGED unrevoked
    <3>1. session'[s] = "revoked"
      BY <1>1, <2>1, <2>2 DEF Revoke, VariablesTyped
    <3> QED
      BY <1>2, <1>3, <1>5, <2>2, <3>1 DEF LeaveSession, GoneInv
  <2>3. CASE "logout" \in unrevoked'
    BY <2>3 DEF GoneInv
  <2> QED
    BY <1>5, <2>2, <2>3 DEF LeaveSession, RevokeSafe
<1>6. ASSUME NEW sids \in SUBSET Sids, Terminate(sids)
      PROVE  GoneInv'
  <2>1. /\ sids \subseteq Active /\ Revoke(sids)
        /\ left' = left \cup sids /\ UNCHANGED unrevoked
    BY <1>6 DEF Terminate
  <2>2. \A s \in sids : session'[s] = "revoked"
    BY <2>1 DEF Revoke, Active
  <2> QED
    BY <1>2, <1>3, <2>1, <2>2 DEF GoneInv
<1>7. ASSUME NEW r \in Requests,
             CreateSession(r) \/ RevokeExcess(r) \/ RevokeAllSessions(r)
      PROVE  GoneInv'
  BY <1>4, <1>7 DEF CreateSession, RevokeExcess, RevokeAllSessions, RevokeSafe
<1>8. CASE UNCHANGED <<left, unrevoked>>
  BY <1>4, <1>8
<1> QED
  BY <1>5, <1>6, <1>7, <1>8 DEF Next, vars, Login, FindExcess, Sign, Refresh,
     Claim, Validate, RevokeEverything, InvalidateUserTokens, Logout, BarAccess, BarRefresh,
     LogoutBarred

LEMMA GoneHolds == Spec => []GoneInv
<1>1. Init => GoneInv
  BY DEF Init, GoneInv
<1> QED
  BY <1>1, VersionSidHolds, GoneStep, PTL DEF Spec

-----------------------------------------------------------------------------
\* However many requests present a refresh token, a session has at most one pair
\* that can be rotated (consumeToken, refreshSession).
THEOREM LinesStaySingle == Spec => []NoParallelLines
<1>1. ASSUME SessionsTypeOK, SidInv, LineInv
      PROVE  NoParallelLines
  <2> SUFFICES ASSUME NEW p \in Signed, NEW q \in Signed,
                      pair[p].line = pair[q].line, Renewable(p), Renewable(q)
               PROVE  p = q
    BY DEF NoParallelLines
  <2>1. /\ pair[p].sid = pair[q].sid
        /\ pair[p].sid \in Sids
        /\ p \in Pairs /\ q \in Pairs
    BY <1>1, SignedFields, ClaimsFields DEF SessionsTypeOK, SidInv, Renewable
  <2>2. Open(p, pair[p].sid) /\ Open(q, pair[p].sid)
    BY <2>1 DEF Open, Renewable, Unclaimed
  <2> QED
    BY <1>1, <2>1, <2>2 DEF LineInv
<1> QED
  BY <1>1, VersionSidHolds, LineHolds, PTL

\* After a revocation of everything no pair works that goes back to a login from
\* before it (invalidateUserTokens, generateToken).
THEOREM RevocationHolds == Spec => []RevocationIsFinal
<1>1. ASSUME VersionInv
      PROVE  RevocationIsFinal
  BY <1>1 DEF VersionInv, RevocationIsFinal, Usable, Renewable
<1> QED
  BY <1>1, VersionSidHolds, PTL

\* A device that was terminated or has logged out does not come back through a
\* rotation, as long as no revocation failed (refreshSession, revokeSessionSafe).
THEOREM GoneHoldsForDevices == Spec => []GoneStaysGone
<1>1. ASSUME SessionsTypeOK, SidInv, GoneInv
      PROVE  GoneStaysGone
  <2> SUFFICES ASSUME "logout" \notin unrevoked, NEW p \in Signed, pair[p].line \in left
               PROVE  ~Usable(p) /\ ~Renewable(p)
    BY DEF GoneStaysGone
  <2>1. pair[p].sid = pair[p].line /\ pair[p].sid \in Sids
    BY <1>1 DEF SidInv, SessionsTypeOK, VariablesTyped
  <2>2. pair[p].sid # None /\ session[pair[p].sid] = "revoked"
    BY <1>1, <2>1, SessionsAssumption DEF GoneInv
  <2> QED
    BY <2>2 DEF Usable, Renewable
<1> QED
  BY <1>1, VersionSidHolds, GoneHolds, PTL

-----------------------------------------------------------------------------
\* The active sessions that nobody is about to weigh against the cap: not the one
\* of a login that still has to look for an excess, nor one that some login has
\* found to be in excess and is going to revoke.
Settled ==
    {s \in Active : \A r \in Requests :
        /\ At(r, "cap") => request[r].claims.sid # s
        /\ At(r, "capRevoke") => s \notin request[r].todo}

CapInv ==
    /\ IsFiniteSet(Active)
    /\ "cap" \notin unrevoked => Cardinality(Settled) <= MaxSessions

LEMMA MovesOne ==
    ASSUME VariablesTyped, NEW r \in Requests, NEW step, NEW claims, NEW todo,
           Moves(r, step, claims, todo)
    PROVE  /\ request'[r].step = step
           /\ request'[r].claims = claims
           /\ request'[r].todo = todo
           /\ \A t \in Requests \ {r} : request'[t] = request[t]
BY DEF Moves, VariablesTyped

\* One more element.
LEMMA OneMore ==
    ASSUME NEW S, NEW s, IsFiniteSet(S)
    PROVE  /\ IsFiniteSet(S \cup {s})
           /\ Cardinality(S \cup {s}) \in Nat /\ Cardinality(S) \in Nat
           /\ Cardinality(S \cup {s}) <= Cardinality(S) + 1
<1>1. IsFiniteSet(S \cup {s})
  BY FS_AddElement
<1>2. Cardinality(S \cup {s}) = IF s \in S THEN Cardinality(S) ELSE Cardinality(S) + 1
  BY FS_AddElement
<1>3. Cardinality(S) \in Nat /\ Cardinality(S \cup {s}) \in Nat
  BY <1>1, FS_CardinalityType
<1> QED
  BY <1>1, <1>2, <1>3

\* Without s and without T, which has as many as are too many, fewer than n are
\* left of A; s itself is one more.
LEMMA ExcessTaken ==
    ASSUME NEW A, IsFiniteSet(A), NEW s, NEW n \in Nat \ {0}, NEW T \in SUBSET (A \ {s}),
           Cardinality(A \ {s}) - Cardinality(T) <= n - 1
    PROVE  Cardinality(A \ T) <= n
<1> DEFINE O == A \ {s}
           rest == O \ T
<1>1. IsFiniteSet(O)
  BY FS_RemoveElement
<1>2. O \cap T = T
  OBVIOUS
<1>3. IsFiniteSet(rest) /\ Cardinality(rest) = Cardinality(O) - Cardinality(T)
  BY <1>1, <1>2, FS_Difference
<1>4. A \ T \subseteq rest \cup {s}
  OBVIOUS
<1>5. Cardinality(rest) <= n - 1
  BY <1>3
<1> HIDE DEF O, rest
<1>6. /\ IsFiniteSet(rest \cup {s}) /\ Cardinality(rest \cup {s}) <= Cardinality(rest) + 1
      /\ Cardinality(rest \cup {s}) \in Nat /\ Cardinality(rest) \in Nat
  BY <1>3, OneMore
<1>7. IsFiniteSet(A \ T) /\ Cardinality(A \ T) <= Cardinality(rest \cup {s})
  BY <1>4, <1>6, FS_Subset
<1>8. Cardinality(A \ T) \in Nat
  BY <1>7, FS_CardinalityType
<1> QED
  BY <1>5, <1>6, <1>7, <1>8

\* A login that has looked leaves no more than the cap unaccounted for; what other
\* logins have added since is theirs to weigh.
LEMMA CapStep ==
    ASSUME SessionsTypeOK, SidInv, CapInv, [Next]_vars
    PROVE  CapInv'
<1>1. VariablesTyped
  BY DEF SessionsTypeOK
<1>2. IsFiniteSet(Settled) /\ Cardinality(Settled) \in Nat
  <2>1. Settled \in SUBSET Active
    BY DEF Settled
  <2> QED
    BY <2>1, FS_Subset, FS_CardinalityType DEF CapInv
\* A step that settles no session, and adds none.
<1>3. ASSUME Settled' \subseteq Settled, IsFiniteSet(Active'), unrevoked \subseteq unrevoked'
      PROVE  CapInv'
  <2>1. Cardinality(Settled') <= Cardinality(Settled) /\ Cardinality(Settled') \in Nat
    BY <1>2, <1>3, FS_Subset, FS_CardinalityType
  <2>2. Cardinality(Settled) <= MaxSessions => Cardinality(Settled') <= MaxSessions
    BY <1>2, <2>1, SessionsAssumption
  <2> QED
    BY <1>3, <2>2 DEF CapInv
<1>4. ASSUME Settled' \subseteq Settled, Active' \subseteq Active, unrevoked \subseteq unrevoked'
      PROVE  CapInv'
  BY <1>3, <1>4, FS_Subset DEF CapInv
<1>5. ASSUME NEW r \in Requests, NEW step, NEW claims, NEW todo,
             Moves(r, step, claims, todo), request[r].step \notin {"cap", "capRevoke"},
             Active' \subseteq Active, unrevoked \subseteq unrevoked'
      PROVE  CapInv'
  <2>1. \A t \in Requests \ {r} : request'[t] = request[t]
    BY <1>1, <1>5, MovesOne
  <2>2. Settled' \subseteq Settled
    BY <1>5, <2>1 DEF Settled, At
  <2> QED
    BY <1>4, <1>5, <2>2
<1>6. ASSUME NEW sids, NEW failure, Revoke(sids) \/ RevokeSafe(sids, failure)
      PROVE  Active' \subseteq Active
  BY <1>6 DEF Revoke, RevokeSafe, Active
<1>7. ASSUME NEW r \in Requests, CreateSession(r)
      PROVE  CapInv'
  <2>1. ASSUME NEW s \in Sids, session' = [session EXCEPT ![s] = "active"]
        PROVE  IsFiniteSet(Active') /\ Active' \subseteq Active \cup {s}
    <3>1. Active' \subseteq Active \cup {s}
      BY <1>1, <2>1 DEF Active, VariablesTyped
    <3> QED
      BY <3>1, FS_AddElement, FS_Subset DEF CapInv
  <2>2. ASSUME NEW s \in Sids, session' = [session EXCEPT ![s] = "active"], UNCHANGED unrevoked,
               Moves(r, "cap", ClaimsOf(s, request[r].claims.version, s,
                                        request[r].claims.login, None), {})
        PROVE  CapInv'
    <3> DEFINE claims == ClaimsOf(s, request[r].claims.version, s,
                                  request[r].claims.login, None)
    <3>0. claims.sid = s
      BY DEF ClaimsOf
    <3> HIDE DEF claims
    <3>1. /\ request'[r].step = "cap" /\ request'[r].claims.sid = s
          /\ \A t \in Requests \ {r} : request'[t] = request[t]
      <4>1. Moves(r, "cap", claims, {})
        BY <2>2 DEF claims
      <4> QED
        BY <1>1, <3>0, <4>1, MovesOne
    <3>2. s \notin Settled'
      BY <3>1 DEF Settled, At
    <3>3. \A z \in Active : z \in Settled' => z \in Settled
      BY <1>7, <3>1 DEF CreateSession, Settled, At
    <3>4. Settled' \subseteq Active'
      BY DEF Settled
    <3> QED
      BY <1>3, <2>1, <2>2, <3>2, <3>3, <3>4
  <2>3. ASSUME "cap" \in unrevoked', IsFiniteSet(Active')
        PROVE  CapInv'
    BY <2>3 DEF CapInv
  <2>4. CASE Goes(r, "sign") /\ UNCHANGED <<session, unrevoked>>
    BY <1>5, <1>7, <2>4 DEF CreateSession, Goes, At, Active
  <2> QED
    BY <1>7, <2>1, <2>2, <2>3, <2>4 DEF CreateSession
<1>8. ASSUME NEW r \in Requests, FindExcess(r)
      PROVE  CapInv'
  <2> DEFINE sid == request[r].claims.sid
  <2>1. UNCHANGED <<session, unrevoked>> /\ Active' = Active /\ IsFiniteSet(Active')
    BY <1>8 DEF FindExcess, Active, CapInv
  <2> HIDE DEF sid
  <2>2. ASSUME NEW T \in SUBSET (Active \ {sid}), Settled' \subseteq Active \ T,
               Cardinality(Active \ {sid}) - Cardinality(T) <= MaxSessions - 1
        PROVE  CapInv'
    <3>1. IsFiniteSet(Active) /\ MaxSessions \in Nat \ {0}
      BY SessionsAssumption DEF CapInv
    <3>2. Cardinality(Active \ T) <= MaxSessions
      BY <2>2, <3>1, ExcessTaken
    <3>3. IsFiniteSet(Active \ T)
      BY <3>1, FS_Difference
    <3>4. /\ Cardinality(Settled') <= Cardinality(Active \ T)
          /\ Cardinality(Settled') \in Nat /\ Cardinality(Active \ T) \in Nat
      BY <2>2, <3>3, FS_Subset, FS_CardinalityType
    <3>5. Cardinality(Settled') <= MaxSessions
      BY <3>1, <3>2, <3>4
    <3> QED
      BY <2>1, <3>5 DEF CapInv
  <2>3. Cardinality(Active \ {sid}) \in Nat
    <3>1. IsFiniteSet(Active \ {sid})
      BY FS_RemoveElement DEF CapInv
    <3> QED
      BY <3>1, FS_CardinalityType
  <2>4. CASE Excess(r, Active \ {sid}) <= 0
    <3>1. Settled' \subseteq Active \ {}
      BY <2>1 DEF Settled
    <3>2. Cardinality(Active \ {sid}) - Cardinality({}) <= MaxSessions - 1
      BY <2>3, <2>4, FS_EmptySet, SessionsAssumption DEF Excess
    <3> QED
      BY <2>2, <3>1, <3>2
  <2>5. ASSUME NEW oldest \in SUBSET (Active \ {sid}),
               Cardinality(oldest) = Excess(r, Active \ {sid}),
               Moves(r, "capRevoke", request[r].claims, oldest)
        PROVE  CapInv'
    <3>1. request'[r].step = "capRevoke" /\ request'[r].todo = oldest
      BY <1>1, <2>5, MovesOne
    <3>2. Settled' \subseteq Active \ oldest
      BY <2>1, <3>1 DEF Settled, At
    <3>3. Cardinality(Active \ {sid}) - Cardinality(oldest) <= MaxSessions - 1
      BY <2>3, <2>5, SessionsAssumption DEF Excess
    <3> QED
      BY <2>2, <3>2, <3>3
  <2> QED
    BY <1>8, <2>4, <2>5 DEF FindExcess, sid
<1>9. ASSUME NEW r \in Requests, RevokeExcess(r)
      PROVE  CapInv'
  <2>1. Active' \subseteq Active
    BY <1>6, <1>9 DEF RevokeExcess
  <2>2. CASE Revoke(request[r].todo) /\ UNCHANGED unrevoked
    <3>1. request[r].step = "capRevoke" /\ \A t \in Requests \ {r} : request'[t] = request[t]
      BY <1>1, <1>9, MovesOne DEF RevokeExcess, At
    <3>2. Active' \cap request[r].todo = {}
      BY <2>2 DEF Revoke, Active
    <3>3. Settled' \subseteq Settled
      BY <2>1, <3>1, <3>2 DEF Settled, At
    <3> QED
      BY <1>4, <2>1, <2>2, <3>3
  <2>3. CASE "cap" \in unrevoked'
    BY <2>1, <2>3, FS_Subset DEF CapInv
  <2> QED
    BY <1>9, <2>2, <2>3 DEF RevokeExcess, RevokeSafe
<1>10. ASSUME NEW r \in Requests,
              \/ Login(r) \/ Sign(r) \/ Claim(r) \/ Validate(r) \/ RevokeEverything(r)
              \/ InvalidateUserTokens(r) \/ BarAccess(r) \/ BarRefresh(r) \/ LogoutBarred(r)
              \/ \E p \in Pairs : \/ Refresh(r, p)
                                  \/ \E presented \in SUBSET Pairs : Logout(r, p, presented)
       PROVE  CapInv'
  <2>1. UNCHANGED <<session, unrevoked>> /\ request[r].step \notin {"cap", "capRevoke"}
    BY <1>10 DEF Login, Sign, Claim, Validate, RevokeEverything, InvalidateUserTokens,
       BarAccess, BarRefresh, LogoutBarred, Refresh, Logout, At
  <2>2. \E step, claims, todo : Moves(r, step, claims, todo)
    BY <1>10 DEF Login, Sign, Claim, Replay, Validate, RevokeEverything,
       InvalidateUserTokens, BarAccess, BarRefresh, LogoutBarred, Refresh, Logout, Goes, Finished
  <2> QED
    BY <1>5, <2>1, <2>2 DEF Active
<1>11. ASSUME NEW r \in Requests, RevokeAllSessions(r) \/ LeaveSession(r)
       PROVE  CapInv'
  <2>1. Active' \subseteq Active /\ unrevoked \subseteq unrevoked'
    BY <1>6, <1>11 DEF RevokeAllSessions, LeaveSession, RevokeSafe
  <2> QED
    BY <1>5, <1>11, <2>1 DEF RevokeAllSessions, LeaveSession, At, Finished
<1>12. ASSUME NEW sids \in SUBSET Sids, Terminate(sids)
       PROVE  CapInv'
  <2>1. Active' \subseteq Active
    BY <1>6, <1>12 DEF Terminate
  <2>2. Settled' \subseteq Settled
    BY <1>12, <2>1 DEF Terminate, Settled, At
  <2> QED
    BY <1>4, <1>12, <2>1, <2>2 DEF Terminate
<1>13. CASE UNCHANGED vars
  BY <1>13 DEF vars, CapInv, Settled, Active, At
<1> QED
  BY <1>7, <1>8, <1>9, <1>10, <1>11, <1>12, <1>13 DEF Next

\* When no login is at it, a user has no more active sessions than
\* MAX_ACTIVE_SESSIONS_PER_USER, however many logins weighed the sessions at once,
\* unless a failure of the database kept the cap from being applied
\* (createSession, enforceSessionCap).
THEOREM CapIsKept == Spec => []CapHolds
<1>1. Init => CapInv
  <2>1. Init => Active = {} /\ Settled = {}
    BY DEF Init, Active, Settled
  <2> QED
    BY <2>1, FS_EmptySet, SessionsAssumption DEF CapInv
<1>2. ASSUME SessionsTypeOK, CapInv
      PROVE  CapHolds
  <2>1. CASE \A r \in Requests : request[r].step \notin {"cap", "capRevoke"}
    <3>1. Settled = Active
      BY <2>1 DEF Settled, At
    <3> QED
      BY <1>2, <3>1 DEF CapInv, CapHolds
  <2> QED
    BY <2>1 DEF CapHolds
<1> QED
  BY <1>1, <1>2, VersionSidHolds, CapStep, PTL DEF Spec
=============================================================================
