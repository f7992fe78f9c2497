-------------------------- MODULE SecondFactorProofs --------------------------
(***************************************************************************)
(* Theorems about SecondFactor, for any number of requests, secrets and    *)
(* sets of recovery codes, any limits and any bound on the clock.          *)
(*                                                                         *)
(* The watermark of the account lies at or above every window that was     *)
(* accepted, and a recovery code leaves the account as it is accepted      *)
(* (SpentInv); what the account holds when two-step verification is on     *)
(* belongs to the secret in force (FactorInv).                             *)
(***************************************************************************)
EXTENDS SecondFactor, TLAPS

SpentInv ==
    /\ \A x \in Windows \cup Issues : uses[x] <= 1
    /\ \A w \in Windows : w > user.lastCounter => uses[w] = 0
    /\ \A i \in Issues : i \in user.codes \/ i \notin drawn => uses[i] = 0
    /\ user.codes \subseteq drawn

FactorInv ==
    /\ user.enabled => user.secret \in proved
    /\ ~user.enabled => user.codes = {}
    /\ \A i \in user.codes : origin[i] = user.secret

-----------------------------------------------------------------------------
(* Requests and accounts that change in one field *)

\* A request with another step, window, lock or count is a request.
LEMMA OpWith ==
    ASSUME NEW o \in OpType
    PROVE  /\ \A v \in Steps : /\ [o EXCEPT !.step = v] \in OpType
                               /\ [o EXCEPT !.step = v].step = v
           /\ \A v \in Windows : /\ [o EXCEPT !.with = v] \in OpType
                                 /\ [o EXCEPT !.with = v].with = v
           /\ \A v \in Nat : /\ [o EXCEPT !.lockUntil = v] \in OpType
                             /\ [o EXCEPT !.lockUntil = v].step = o.step
                             /\ [o EXCEPT !.failCount = v] \in OpType
                             /\ [o EXCEPT !.failCount = v].step = o.step
                             /\ [o EXCEPT !.later = v] \in OpType
                             /\ [o EXCEPT !.later = v].step = o.step
                             /\ [o EXCEPT !.later = v].with = o.with
<1>1. ASSUME NEW v \in Steps
      PROVE  [o EXCEPT !.step = v] \in OpType /\ [o EXCEPT !.step = v].step = v
  BY DEF OpType
<1>2. ASSUME NEW v \in Windows
      PROVE  [o EXCEPT !.with = v] \in OpType /\ [o EXCEPT !.with = v].with = v
  BY DEF OpType
<1>3. ASSUME NEW v \in Nat
      PROVE  [o EXCEPT !.lockUntil = v] \in OpType /\ [o EXCEPT !.lockUntil = v].step = o.step
  BY DEF OpType
<1>4. ASSUME NEW v \in Nat
      PROVE  [o EXCEPT !.failCount = v] \in OpType /\ [o EXCEPT !.failCount = v].step = o.step
  BY DEF OpType
<1>5. ASSUME NEW v \in Nat
      PROVE  /\ [o EXCEPT !.later = v] \in OpType /\ [o EXCEPT !.later = v].step = o.step
             /\ [o EXCEPT !.later = v].with = o.with
  BY DEF OpType
<1> QED BY <1>1, <1>2, <1>3, <1>4, <1>5

\* A request that has nothing under way, or only begins or ends.
LEMMA Beginnings ==
    /\ Idle \in OpType /\ Idle.step = "none"
    /\ \A kind \in Kinds \cup {"none", "enroll"}, step \in Steps :
           /\ [Idle EXCEPT !.kind = kind, !.step = step] \in OpType
           /\ [Idle EXCEPT !.kind = kind, !.step = step].step = step
<1>1. Idle \in OpType /\ Idle.step = "none"
  BY DEF Idle, OpType, Steps
<1>2. ASSUME NEW kind \in Kinds \cup {"none", "enroll"}, NEW step \in Steps
      PROVE  /\ [Idle EXCEPT !.kind = kind, !.step = step] \in OpType
             /\ [Idle EXCEPT !.kind = kind, !.step = step].step = step
  BY DEF Idle, OpType
<1> QED BY <1>1, <1>2

\* An account with another field is one.
LEMMA UserWith ==
    ASSUME NEW u \in UserType
    PROVE  /\ \A v \in Secrets : [u EXCEPT !.secret = v] \in UserType
           /\ \A v \in SUBSET Issues : [u EXCEPT !.codes = v] \in UserType
           /\ \A v \in Nat : [u EXCEPT !.failCount = v] \in UserType
           /\ \A v \in Nat : [u EXCEPT !.lockUntil = v] \in UserType
           /\ \A v \in Windows : [u EXCEPT !.lastCounter = v] \in UserType
           /\ [u EXCEPT !.enabled = TRUE] \in UserType
<1>1. ASSUME NEW v \in Secrets PROVE [u EXCEPT !.secret = v] \in UserType
  BY DEF UserType
<1>2. ASSUME NEW v \in SUBSET Issues PROVE [u EXCEPT !.codes = v] \in UserType
  BY DEF UserType
<1>3. ASSUME NEW v \in Nat
      PROVE  [u EXCEPT !.failCount = v] \in UserType /\ [u EXCEPT !.lockUntil = v] \in UserType
  BY DEF UserType
<1>4. ASSUME NEW v \in Windows PROVE [u EXCEPT !.lastCounter = v] \in UserType
  BY DEF UserType
<1>5. [u EXCEPT !.enabled = TRUE] \in UserType
  BY DEF UserType
<1> QED BY <1>1, <1>2, <1>3, <1>4, <1>5

\* An account whose two-step verification is off is one.
LEMMA OffIsUser == ASSUME user \in UserType PROVE Off \in UserType
BY DEF Off, UserType

\* One request goes on.
LEMMA OpMoves ==
    ASSUME OpTypeOK, NEW r \in Requests, NEW to \in OpType,
           to.step = "claim" => to.with \in Windows, op' = [op EXCEPT ![r] = to]
    PROVE  OpTypeOK'
BY DEF OpTypeOK

\* Requests that answer, end or go on to another step than a claim.
LEMMA OpEnds ==
    ASSUME OpTypeOK, NEW r \in Requests, NEW step \in Steps \ {"claim"},
           Answers(r) \/ Ends(r, step) \/ Goes(r, step)
    PROVE  OpTypeOK'
<1>1. op \in [Requests -> OpType] /\ op[r] \in OpType
  BY DEF OpTypeOK
<1>2. CASE Answers(r)
  BY <1>2, Beginnings, OpMoves DEF Answers
<1>3. CASE Ends(r, step)
  <2>1. op[r].kind \in Kinds \cup {"none", "enroll"}
    BY <1>1 DEF OpType
  <2> DEFINE to == [Idle EXCEPT !.kind = op[r].kind, !.step = step]
  <2>2. to \in OpType /\ to.step = step
    BY <2>1, Beginnings
  <2>3. op' = [op EXCEPT ![r] = to]
    BY <1>3 DEF Ends
  <2> HIDE DEF to
  <2> QED BY <2>2, <2>3, OpMoves
<1>4. CASE Goes(r, step)
  <2> DEFINE to == [op[r] EXCEPT !.step = step]
  <2>1. to \in OpType /\ to.step = step
    BY <1>1, OpWith
  <2>2. op' = [op EXCEPT ![r] = to]
    BY <1>4 DEF Goes
  <2> HIDE DEF to
  <2> QED BY <2>1, <2>2, OpMoves
<1> QED BY <1>2, <1>3, <1>4

\* Every failure is forgiven, and at most one request answers.
LEMMA OpForgives == ASSUME OpTypeOK, NEW r, Forgives(r) PROVE OpTypeOK'
<1>1. ASSUME NEW q \in Requests
      PROVE  op'[q] \in OpType /\ (op'[q].step = "claim" => op'[q].with \in Windows)
  <2>1. op'[q] = IF q = r THEN Idle ELSE [op[q] EXCEPT !.later = 0]
    BY DEF Forgives
  <2>2. op[q] \in OpType /\ (op[q].step = "claim" => op[q].with \in Windows)
    BY DEF OpTypeOK
  <2>3. CASE q = r
    BY <2>1, <2>3, Beginnings
  <2>4. CASE q # r
    <3> DEFINE to == [op[q] EXCEPT !.later = 0]
    <3>1. to \in OpType /\ to.step = op[q].step /\ to.with = op[q].with
      BY <2>2, OpWith
    <3> HIDE DEF to
    <3>2. op'[q] = to
      BY <2>1, <2>4 DEF to
    <3> QED BY <2>2, <3>1, <3>2
  <2> QED BY <2>3, <2>4
<1>2. op' = [q \in Requests |-> op'[q]]
  BY DEF Forgives
<1> QED BY <1>1, <1>2 DEF OpTypeOK

-----------------------------------------------------------------------------
(* The types *)

\* At the start every variable holds what it should.
LEMMA InitTyped == Init => SecondFactorTypeOK
<1> SUFFICES ASSUME Init PROVE SecondFactorTypeOK
  OBVIOUS
<1> USE SecondFactorAssumption
<1>1. user \in UserType
  BY DEF Init, UserType, Windows
<1>2. OpTypeOK
  BY Beginnings DEF Init, OpTypeOK
<1>3. uses \in [Windows \cup Issues -> Nat] /\ origin \in [Issues -> Secrets \cup {None}]
  BY DEF Init
<1>4. now \in 1..MaxTime /\ fails \in Nat /\ faults \in Nat
  BY DEF Init
<1>5. unlocked \in BOOLEAN
  BY DEF Init
<1> QED BY <1>1, <1>2, <1>3, <1>4, <1>5 DEF Init, SecondFactorTypeOK

\* The requests after a step are requests.
LEMMA OpStays == SecondFactorTypeOK /\ [Next]_vars => OpTypeOK'
<1> SUFFICES ASSUME SecondFactorTypeOK, [Next]_vars PROVE OpTypeOK'
  OBVIOUS
<1> USE SecondFactorAssumption
<1>1. /\ OpTypeOK /\ op \in [Requests -> OpType] /\ user \in UserType /\ now \in 1..MaxTime
      /\ \A r \in Requests : op[r] \in OpType
  BY DEF SecondFactorTypeOK, OpTypeOK
<1>2. {"none", "act", "lock", "verify", "explain", "fail", "setLock", "reset"}
          \subseteq Steps \ {"claim"}
  BY DEF Steps
<1>3. ASSUME NEW r \in Requests, Enroll(r) PROVE OpTypeOK'
  <2> DEFINE to == [Idle EXCEPT !.kind = "enroll", !.step = "act"]
  <2>1. to \in OpType /\ to.step = "act"
    BY <1>2, Beginnings
  <2>2. op' = [op EXCEPT ![r] = to]
    BY <1>3 DEF Enroll
  <2> HIDE DEF to
  <2> QED BY <1>1, <2>1, <2>2, OpMoves
<1>4. ASSUME NEW r \in Requests, Begin(r) PROVE OpTypeOK'
  <2>1. PICK kind \in Kinds :
            op' = [op EXCEPT ![r] =
                [Idle EXCEPT !.kind = kind, !.step = "lock",
                    !.secret = IF kind \in Reading THEN user.secret ELSE None,
                    !.codes = IF kind \in {"regenerate", "loginRecovery"}
                              THEN user.codes ELSE {},
                    !.counted = kind = "password" /\ user.failCount > 0]]
    BY <1>4 DEF Begin
  <2> DEFINE to == [Idle EXCEPT !.kind = kind, !.step = "lock",
                    !.secret = IF kind \in Reading THEN user.secret ELSE None,
                    !.codes = IF kind \in {"regenerate", "loginRecovery"}
                              THEN user.codes ELSE {},
                    !.counted = kind = "password" /\ user.failCount > 0]
  <2>2. /\ (IF kind \in Reading THEN user.secret ELSE None) \in Secrets \cup {None}
        /\ (IF kind \in {"regenerate", "loginRecovery"} THEN user.codes ELSE {})
               \in SUBSET Issues
        /\ (kind = "password" /\ user.failCount > 0) \in BOOLEAN
    BY <1>1 DEF UserType
  <2>3. to \in OpType /\ to.step = "lock"
    BY <1>2, <2>2 DEF Idle, OpType
  <2> HIDE DEF to
  <2>4. op' = [op EXCEPT ![r] = to]
    BY <2>1 DEF to
  <2> QED BY <1>1, <2>3, <2>4, OpMoves
<1>5. ASSUME NEW r \in Requests, IsMfaLocked(r) PROVE OpTypeOK'
  <2>1. CASE Answers(r)
    BY <1>1, <1>2, <2>1, OpEnds
  <2>2. CASE ~Answers(r)
    <3> DEFINE step == IF user.lockUntil = 0 THEN "verify" ELSE "lazyReset"
               count == IF user.lockUntil = 0 THEN 0 ELSE user.failCount
               o1 == [op[r] EXCEPT !.step = step]
               o2 == [o1 EXCEPT !.lockUntil = user.lockUntil]
               o3 == [o2 EXCEPT !.failCount = count]
    <3>1. /\ step \in Steps /\ step # "claim" /\ count \in Nat /\ user.lockUntil \in Nat
      BY <1>1 DEF UserType, Steps
    <3>2. op' = [op EXCEPT ![r] = o3]
      BY <1>5, <2>2 DEF IsMfaLocked
    <3> HIDE DEF step, count
    <3>3. o1 \in OpType /\ o1.step = step
      BY <1>1, <3>1, OpWith
    <3> HIDE DEF o1
    <3>4. o2 \in OpType /\ o2.step = step
      BY <3>1, <3>3, OpWith
    <3> HIDE DEF o2
    <3>5. o3 \in OpType /\ o3.step = step
      BY <3>1, <3>4, OpWith
    <3> HIDE DEF o3
    <3> QED BY <1>1, <3>1, <3>2, <3>5, OpMoves
  <2> QED BY <2>1, <2>2
<1>6. ASSUME NEW r \in Requests, LazyReset(r) PROVE OpTypeOK'
  <2> DEFINE o1 == [op[r] EXCEPT !.step = "verify"]
             o2 == [o1 EXCEPT !.lockUntil = 0]
             o3 == [o2 EXCEPT !.failCount = 0]
             o4 == [o3 EXCEPT !.later = 0]
  <2>1. op' = [op EXCEPT ![r] = o4]
    BY <1>6 DEF LazyReset
  <2>2. o1 \in OpType /\ o1.step = "verify"
    BY <1>1, <1>2, OpWith
  <2> HIDE DEF o1
  <2>3. o2 \in OpType /\ o2.step = "verify"
    BY <2>2, OpWith
  <2> HIDE DEF o2
  <2>4. o3 \in OpType /\ o3.step = "verify"
    BY <2>3, OpWith
  <2> HIDE DEF o3
  <2>5. o4 \in OpType /\ o4.step = "verify"
    BY <2>4, OpWith
  <2> HIDE DEF o4
  <2> QED BY <1>1, <2>1, <2>5, OpMoves
<1>7. ASSUME NEW r \in Requests, Verify(r) PROVE OpTypeOK'
  <2>1. CASE Ends(r, "fail")
    BY <1>1, <1>2, <2>1, OpEnds
  <2>2. CASE ~Ends(r, "fail")
    <3>1. PICK w \in {now - 1, now, now + 1} :
              op' = [op EXCEPT ![r] = [@ EXCEPT !.step = "claim", !.with = w]]
      BY <1>7, <2>2 DEF Verify
    <3>2. w \in Windows
      BY <1>1, <3>1 DEF Windows
    <3> DEFINE o1 == [op[r] EXCEPT !.step = "claim"]
               o2 == [o1 EXCEPT !.with = w]
    <3>3. op' = [op EXCEPT ![r] = o2]
      BY <3>1
    <3>4. o1 \in OpType
      BY <1>1, OpWith DEF Steps
    <3> HIDE DEF o1
    <3>5. o2 \in OpType /\ o2.with = w
      BY <3>2, <3>4, OpWith
    <3> HIDE DEF o2
    <3> QED BY <1>1, <3>2, <3>3, <3>5, OpMoves
  <2> QED BY <2>1, <2>2
<1>8. ASSUME NEW r \in Requests, RecordMfaFailure(r) PROVE OpTypeOK'
  <2>1. CASE Ends(r, "setLock")
    BY <1>1, <1>2, <2>1, OpEnds
  <2>2. CASE ~Ends(r, "setLock")
    <3>1. op' = [q \in Requests |->
              IF q # r
              THEN [op[q] EXCEPT !.later = IF op[q].step = "lazyReset" THEN @ + 1 ELSE @]
              ELSE IF user'.failCount >= MaxFails THEN [op[r] EXCEPT !.step = "setLock"]
              ELSE Idle]
      BY <1>8, <2>2 DEF RecordMfaFailure
    <3>2. ASSUME NEW q \in Requests
          PROVE  op'[q] \in OpType /\ (op'[q].step = "claim" => op'[q].with \in Windows)
      <4>1. CASE q # r
        <5> DEFINE n == IF op[q].step = "lazyReset" THEN op[q].later + 1 ELSE op[q].later
                   to == [op[q] EXCEPT !.later = n]
        <5>1. n \in Nat
          BY <1>1 DEF OpType
        <5>2. op'[q] = to
          BY <3>1, <4>1
        <5> HIDE DEF n
        <5>3. to \in OpType /\ to.step = op[q].step /\ to.with = op[q].with
          BY <1>1, <5>1, OpWith
        <5> HIDE DEF to
        <5> QED BY <5>2, <5>3 DEF SecondFactorTypeOK, OpTypeOK
      <4>2. CASE q = r
        <5> DEFINE to == [op[r] EXCEPT !.step = "setLock"]
        <5>1. to \in OpType /\ to.step = "setLock"
          BY <1>1, <1>2, OpWith
        <5>2. op'[q] \in {to, Idle}
          BY <3>1, <4>2
        <5> HIDE DEF to
        <5> QED BY <5>1, <5>2, Beginnings
      <4> QED BY <4>1, <4>2
    <3> QED BY <3>1, <3>2 DEF OpTypeOK
  <2> QED BY <2>1, <2>2
<1>9. ASSUME NEW r \in Requests,
             \/ EnrollWrites(r) \/ ClaimTotpWindow(r) \/ VerifyPassword(r) \/ Enable(r)
             \/ Disable(r) \/ DisableWithRecoveryCode(r) \/ DisableExplains(r)
             \/ LoginWithRecoveryCode(r) \/ Regenerate(r) \/ SetLock(r) \/ ResetMfaFailures(r)
      PROVE  OpTypeOK'
  <2>1. \/ Answers(r) \/ Ends(r, "reset") \/ Ends(r, "fail")
        \/ Goes(r, "act") \/ Goes(r, "explain") \/ Forgives(r)
    BY <1>9 DEF EnrollWrites, ClaimTotpWindow, VerifyPassword, Enable, Disable,
                DisableWithRecoveryCode, DisableExplains, LoginWithRecoveryCode, Regenerate,
                SetLock, ResetMfaFailures
  <2> QED BY <1>1, <1>2, <2>1, OpEnds, OpForgives
<1>10. CASE Tick \/ UNCHANGED vars
  BY <1>1, <1>10 DEF Tick, vars, OpTypeOK
<1>11. CASE AdminReset
  BY <1>1, <1>11, OpForgives DEF AdminReset
<1> QED BY <1>3, <1>4, <1>5, <1>6, <1>7, <1>8, <1>9, <1>10, <1>11 DEF Next

\* The account after a step is one.
LEMMA UserStays == SecondFactorTypeOK /\ [Next]_vars => user' \in UserType
<1> SUFFICES ASSUME SecondFactorTypeOK, [Next]_vars PROVE user' \in UserType
  OBVIOUS
<1> USE SecondFactorAssumption
<1>1. /\ user \in UserType /\ now \in 1..MaxTime
      /\ user.codes \in SUBSET Issues /\ user.failCount \in Nat
  BY DEF SecondFactorTypeOK, UserType
<1>2. ASSUME NEW r \in Requests, EnrollWrites(r) PROVE user' \in UserType
  <2>1. user' = user \/ \E s \in Secrets : user' = [user EXCEPT !.secret = s]
    BY <1>2 DEF EnrollWrites
  <2>2. \A s \in Secrets : [user EXCEPT !.secret = s] \in UserType
    BY <1>1, UserWith
  <2> QED BY <1>1, <2>1, <2>2
<1>3. ASSUME NEW r \in Requests, LazyReset(r) \/ ResetMfaFailures(r) PROVE user' \in UserType
  <2> DEFINE u1 == [user EXCEPT !.failCount = 0]
             u2 == [u1 EXCEPT !.lockUntil = 0]
  <2>1. user' = user \/ user' = u2
    BY <1>3 DEF LazyReset, ResetMfaFailures
  <2>2. u1 \in UserType
    BY <1>1, UserWith
  <2> HIDE DEF u1
  <2>3. u2 \in UserType
    BY <2>2, UserWith
  <2> QED BY <1>1, <2>1, <2>3
<1>4. ASSUME NEW r \in Requests, RecordMfaFailure(r) PROVE user' \in UserType
  <2>1. user' = user \/ user' = [user EXCEPT !.failCount = user.failCount + 1]
    BY <1>4 DEF RecordMfaFailure
  <2>2. \A n \in Nat : [user EXCEPT !.failCount = n] \in UserType
    BY <1>1, UserWith
  <2>3. user.failCount + 1 \in Nat
    BY <1>1
  <2> QED BY <1>1, <2>1, <2>2, <2>3
<1>5. ASSUME NEW r \in Requests, SetLock(r) PROVE user' \in UserType
  <2>1. user' = user \/ user' = [user EXCEPT !.lockUntil = now + LockFor]
    BY <1>5 DEF SetLock
  <2>2. now + LockFor \in Nat
    BY <1>1
  <2>3. \A n \in Nat : [user EXCEPT !.lockUntil = n] \in UserType
    BY <1>1, UserWith
  <2> QED BY <1>1, <2>1, <2>2, <2>3
<1>6. ASSUME NEW r \in Requests, ClaimTotpWindow(r) PROVE user' \in UserType
  <2>1. op[r].with \in Windows
    BY <1>6 DEF ClaimTotpWindow, At, SecondFactorTypeOK, OpTypeOK
  <2>2. user' = user \/ user' = [user EXCEPT !.lastCounter = op[r].with]
    BY <1>6 DEF ClaimTotpWindow
  <2> QED BY <1>1, <2>1, <2>2, UserWith
<1>7. ASSUME NEW r \in Requests, Enable(r) PROVE user' \in UserType
  <2>1. CASE user' = user
    BY <1>1, <2>1
  <2>2. CASE user' # user
    <3>1. PICK i \in Issues : user' = [user EXCEPT !.enabled = TRUE, !.codes = {i}]
      BY <1>7, <2>2 DEF Enable
    <3> DEFINE u1 == [user EXCEPT !.enabled = TRUE]
    <3>2. u1 \in UserType
      BY <1>1, UserWith
    <3>3. user' = [u1 EXCEPT !.codes = {i}]
      BY <3>1
    <3> HIDE DEF u1
    <3>4. [u1 EXCEPT !.codes = {i}] \in UserType
      BY <3>2, UserWith
    <3> QED BY <3>3, <3>4
  <2> QED BY <2>1, <2>2
<1>8. ASSUME NEW r \in Requests, Disable(r) \/ DisableWithRecoveryCode(r)
      PROVE  user' \in UserType
  <2>1. user' = user \/ user' = Off
    BY <1>8 DEF Disable, DisableWithRecoveryCode
  <2> QED BY <1>1, <2>1, OffIsUser
<1>9. ASSUME NEW r \in Requests, LoginWithRecoveryCode(r) \/ Regenerate(r)
      PROVE  user' \in UserType
  <2>1. user' = user \/ \E cs \in SUBSET Issues : user' = [user EXCEPT !.codes = cs]
    <3>1. CASE LoginWithRecoveryCode(r)
      <4>1. user' = user \/ \E i : user' = [user EXCEPT !.codes = user.codes \ {i}]
        BY <3>1 DEF LoginWithRecoveryCode
      <4>2. \A i : user.codes \ {i} \in SUBSET Issues
        BY <1>1
      <4> QED BY <4>1, <4>2
    <3>2. CASE Regenerate(r)
      BY <3>2 DEF Regenerate
    <3> QED BY <1>9, <3>1, <3>2
  <2>2. \A cs \in SUBSET Issues : [user EXCEPT !.codes = cs] \in UserType
    BY <1>1, UserWith
  <2> QED BY <1>1, <2>1, <2>2
<1>10. CASE AdminReset
  <2>1. user' = Off
    BY <1>10 DEF AdminReset
  <2> QED BY <1>1, <2>1, OffIsUser
<1>11. CASE UNCHANGED user
  BY <1>1, <1>11
<1> QED BY <1>2, <1>3, <1>4, <1>5, <1>6, <1>7, <1>8, <1>9, <1>10, <1>11
        DEF Next, vars, Tick, Enroll, Begin, IsMfaLocked, Verify, VerifyPassword,
            DisableExplains

\* What each step leaves in the other variables.
LEMMA TypesStay == SecondFactorTypeOK /\ [Next]_vars => SecondFactorTypeOK'
<1> SUFFICES ASSUME SecondFactorTypeOK, [Next]_vars PROVE SecondFactorTypeOK'
  OBVIOUS
<1> USE SecondFactorAssumption
<1>1. user' \in UserType /\ OpTypeOK'
  BY UserStays, OpStays
<1>2. now' \in 1..MaxTime /\ faults' \in Nat /\ unlocked' \in BOOLEAN
  <2>1. now' = now \/ (now < MaxTime /\ now' = now + 1)
    BY DEF Next, vars, history, Tick, AdminReset, Enroll, EnrollWrites, Begin, IsMfaLocked,
           LazyReset, Verify, ClaimTotpWindow, VerifyPassword, Enable, Disable,
           DisableWithRecoveryCode, DisableExplains, LoginWithRecoveryCode, Regenerate,
           RecordMfaFailure, SetLock, ResetMfaFailures
  <2>2. faults' = faults \/ faults' = faults + 1
    BY DEF Next, vars, history, Tick, AdminReset, Enroll, EnrollWrites, Begin, IsMfaLocked,
           LazyReset, Verify, ClaimTotpWindow, VerifyPassword, Enable, Disable,
           DisableWithRecoveryCode, DisableExplains, LoginWithRecoveryCode, Regenerate,
           RecordMfaFailure, SetLock, ResetMfaFailures, Fault, NoFault
  <2>3. unlocked' = unlocked \/ unlocked' = TRUE
    BY DEF Next, vars, history, Tick, AdminReset, Enroll, EnrollWrites, Begin, IsMfaLocked,
           LazyReset, Verify, ClaimTotpWindow, VerifyPassword, Enable, Disable,
           DisableWithRecoveryCode, DisableExplains, LoginWithRecoveryCode, Regenerate,
           RecordMfaFailure, SetLock, ResetMfaFailures
  <2>4. now \in 1..MaxTime /\ faults \in Nat
    BY DEF SecondFactorTypeOK
  <2>5. unlocked \in BOOLEAN
    BY DEF SecondFactorTypeOK
  <2>6. unlocked' \in BOOLEAN
    BY <2>3, <2>5
  <2> QED BY <2>1, <2>2, <2>4, <2>6
<1>3. fails' \in Nat
  <2>1. \/ fails' \in {fails, fails + 1, 0}
        \/ \E r \in Requests : fails' = op[r].later
    BY DEF Next, vars, history, Tick, AdminReset, Enroll, EnrollWrites, Begin, IsMfaLocked,
           LazyReset, Verify, ClaimTotpWindow, VerifyPassword, Enable, Disable,
           DisableWithRecoveryCode, DisableExplains, LoginWithRecoveryCode, Regenerate,
           RecordMfaFailure, SetLock, ResetMfaFailures, Forgives
  <2>2. fails \in Nat /\ \A r \in Requests : op[r].later \in Nat
    BY DEF SecondFactorTypeOK, OpTypeOK, OpType
  <2> QED BY <2>1, <2>2
<1>4. uses' \in [Windows \cup Issues -> Nat]
  <2>1. uses' = uses \/ \E x : uses' = [uses EXCEPT ![x] = @ + 1]
    BY DEF Next, vars, history, Tick, AdminReset, Enroll, EnrollWrites, Begin, IsMfaLocked,
           LazyReset, Verify, ClaimTotpWindow, VerifyPassword, Enable, Disable,
           DisableWithRecoveryCode, DisableExplains, LoginWithRecoveryCode, Regenerate,
           RecordMfaFailure, SetLock, ResetMfaFailures
  <2> QED BY <2>1 DEF SecondFactorTypeOK
<1>5. /\ origin' \in [Issues -> Secrets \cup {None}]
      /\ drawn' \subseteq Secrets \cup Issues /\ proved' \subseteq Secrets \cup {None}
  <2>1. ASSUME NEW r \in Requests, EnrollWrites(r)
        PROVE  drawn' \subseteq Secrets \cup Issues /\ UNCHANGED <<origin, proved>>
    BY <2>1 DEF EnrollWrites, SecondFactorTypeOK
  <2>2. ASSUME NEW r \in Requests, Enable(r) \/ Regenerate(r)
        PROVE  /\ origin' \in [Issues -> Secrets \cup {None}]
               /\ drawn' \subseteq Secrets \cup Issues
               /\ proved' \subseteq Secrets \cup {None}
    <3>1. user.secret \in Secrets \cup {None} /\ op[r].secret \in Secrets \cup {None}
      BY DEF SecondFactorTypeOK, UserType, OpTypeOK, OpType
    <3>2. origin' = origin \/ \E i \in Issues : origin' = [origin EXCEPT ![i] = user.secret]
      BY <2>2 DEF Enable, Regenerate
    <3>3. drawn' = drawn \/ \E i \in Issues : drawn' = drawn \cup {i}
      BY <2>2 DEF Enable, Regenerate
    <3>4. proved' = proved \/ proved' = proved \cup {op[r].secret}
      BY <2>2 DEF Enable, Regenerate
    <3> QED BY <3>1, <3>2, <3>3, <3>4 DEF SecondFactorTypeOK
  <2>3. CASE UNCHANGED <<origin, drawn, proved>>
    BY <2>3 DEF SecondFactorTypeOK
  <2> QED BY <2>1, <2>2, <2>3
      DEF SecondFactorTypeOK, Next, vars, history, Tick, AdminReset, Enroll, Begin, IsMfaLocked,
           LazyReset, Verify, ClaimTotpWindow, VerifyPassword, Disable,
           DisableWithRecoveryCode, DisableExplains, LoginWithRecoveryCode,
           RecordMfaFailure, SetLock, ResetMfaFailures
<1> QED BY <1>1, <1>2, <1>3, <1>4, <1>5 DEF SecondFactorTypeOK

\* Every variable always holds what it should.
THEOREM SecondFactorTyped == Spec => []SecondFactorTypeOK
<1> QED BY InitTyped, TypesStay, PTL DEF Spec

-----------------------------------------------------------------------------
(* What a step does to the account *)

\* The fields of the account and what is drawn, after the steps that write them.
Untouched ==
    /\ user'.enabled = user.enabled /\ user'.secret = user.secret
    /\ user'.codes = user.codes /\ UNCHANGED <<drawn, proved, origin>>

\* The steps that count, lock and forgive leave the secret and the codes alone.
LEMMA OtherSteps ==
    ASSUME SecondFactorTypeOK, [Next]_vars
    PROVE  \/ Untouched /\ user'.lastCounter = user.lastCounter /\ UNCHANGED uses
           \/ AdminReset
           \/ \E r \in Requests :
                  \/ EnrollWrites(r) \/ ClaimTotpWindow(r) \/ Enable(r) \/ Disable(r)
                  \/ DisableWithRecoveryCode(r) \/ LoginWithRecoveryCode(r) \/ Regenerate(r)
<1>1. user \in UserType
  BY DEF SecondFactorTypeOK
<1>2. CASE UNCHANGED <<user, uses, drawn, proved, origin>>
  BY <1>2 DEF Untouched
<1>3. ASSUME NEW r \in Requests,
             LazyReset(r) \/ RecordMfaFailure(r) \/ SetLock(r) \/ ResetMfaFailures(r)
      PROVE  Untouched /\ user'.lastCounter = user.lastCounter /\ UNCHANGED uses
  <2>1. \/ user' = user
        \/ user' = [user EXCEPT !.failCount = 0, !.lockUntil = 0]
        \/ user' = [user EXCEPT !.failCount = user.failCount + 1]
        \/ user' = [user EXCEPT !.lockUntil = now + LockFor]
    BY <1>3 DEF LazyReset, RecordMfaFailure, SetLock, ResetMfaFailures
  <2>2. /\ user'.enabled = user.enabled /\ user'.secret = user.secret
        /\ user'.codes = user.codes /\ user'.lastCounter = user.lastCounter
    BY <1>1, <2>1 DEF UserType
  <2>3. UNCHANGED <<uses, drawn, proved, origin>>
    BY <1>3 DEF LazyReset, RecordMfaFailure, SetLock, ResetMfaFailures
  <2> QED BY <2>2, <2>3 DEF Untouched
<1> QED BY <1>2, <1>3
        DEF Next, vars, history, Tick, Enroll, Begin, IsMfaLocked, Verify, VerifyPassword,
            DisableExplains

\* What an accepted recovery code, or one that is drawn, does to the account.
LEMMA CodeSteps ==
    ASSUME SecondFactorTypeOK, NEW r \in Requests
    PROVE  /\ Enable(r) \/ Regenerate(r) =>
                  \/ Untouched /\ user' = user
                  \/ \E i \in Issues \ drawn :
                         /\ user'.enabled /\ user'.secret = user.secret
                         /\ user'.codes = {i} /\ user'.lastCounter = user.lastCounter
                         /\ drawn' = drawn \cup {i}
                         /\ origin' = [origin EXCEPT ![i] = user.secret]
                         /\ \/ user.enabled /\ proved' = proved
                            \/ user.secret \in proved'
           /\ LoginWithRecoveryCode(r) =>
                  \/ Untouched /\ UNCHANGED <<user, uses>>
                  \/ \E i \in user.codes :
                         /\ user'.enabled = user.enabled /\ user'.secret = user.secret
                         /\ user'.codes = user.codes \ {i}
                         /\ user'.lastCounter = user.lastCounter
                         /\ UNCHANGED <<drawn, proved, origin>>
                         /\ uses' = [uses EXCEPT ![i] = @ + 1]
<1>1. user \in UserType
  BY DEF SecondFactorTypeOK
<1>2. ASSUME Enable(r)
      PROVE  \/ Untouched /\ user' = user
             \/ \E i \in Issues \ drawn :
                    /\ user'.enabled /\ user'.secret = user.secret
                    /\ user'.codes = {i} /\ user'.lastCounter = user.lastCounter
                    /\ drawn' = drawn \cup {i}
                    /\ origin' = [origin EXCEPT ![i] = user.secret]
                    /\ user.secret \in proved'
  <2>1. CASE ~user.enabled /\ SameSecret(r)
    <3>1. PICK i \in Issues \ drawn :
              /\ user' = [user EXCEPT !.enabled = TRUE, !.codes = {i}]
              /\ drawn' = drawn \cup {i} /\ origin' = [origin EXCEPT ![i] = user.secret]
              /\ user.secret \in proved'
      BY <1>2, <2>1 DEF Enable, SameSecret
    <3>2. /\ user'.enabled /\ user'.secret = user.secret
          /\ user'.codes = {i} /\ user'.lastCounter = user.lastCounter
      BY <1>1, <2>1, <3>1 DEF UserType
    <3> QED BY <3>1, <3>2
  <2>2. CASE ~(~user.enabled /\ SameSecret(r))
    BY <1>2, <2>2 DEF Enable, Untouched
  <2> QED BY <2>1, <2>2
<1>3. ASSUME Regenerate(r)
      PROVE  \/ Untouched /\ user' = user
             \/ \E i \in Issues \ drawn :
                    /\ user'.enabled /\ user'.secret = user.secret
                    /\ user'.codes = {i} /\ user'.lastCounter = user.lastCounter
                    /\ drawn' = drawn \cup {i}
                    /\ origin' = [origin EXCEPT ![i] = user.secret]
                    /\ user.enabled /\ proved' = proved
  <2>1. CASE user.enabled /\ user.codes = op[r].codes
    <3>1. PICK i \in Issues \ drawn :
              /\ user' = [user EXCEPT !.codes = {i}]
              /\ drawn' = drawn \cup {i} /\ origin' = [origin EXCEPT ![i] = user.secret]
              /\ user.enabled /\ proved' = proved
      BY <1>3, <2>1 DEF Regenerate
    <3>2. /\ user'.enabled /\ user'.secret = user.secret
          /\ user'.codes = {i} /\ user'.lastCounter = user.lastCounter
      BY <1>1, <2>1, <3>1 DEF UserType
    <3> QED BY <3>1, <3>2
  <2>2. CASE ~(user.enabled /\ user.codes = op[r].codes)
    BY <1>3, <2>2 DEF Regenerate, Untouched
  <2> QED BY <2>1, <2>2
<1>4. ASSUME LoginWithRecoveryCode(r)
      PROVE  \/ Untouched /\ UNCHANGED <<user, uses>>
             \/ \E i \in user.codes :
                    /\ user'.enabled = user.enabled /\ user'.secret = user.secret
                    /\ user'.codes = user.codes \ {i}
                    /\ user'.lastCounter = user.lastCounter
                    /\ UNCHANGED <<drawn, proved, origin>>
                    /\ uses' = [uses EXCEPT ![i] = @ + 1]
  <2>1. CASE UNCHANGED <<user, uses>>
    BY <1>4, <2>1 DEF LoginWithRecoveryCode, Untouched
  <2>2. CASE ~UNCHANGED <<user, uses>>
    <3>1. PICK i \in user.codes : /\ user' = [user EXCEPT !.codes = user.codes \ {i}]
                                  /\ uses' = [uses EXCEPT ![i] = @ + 1]
      BY <1>4, <2>2 DEF LoginWithRecoveryCode, StoredCodes
    <3>2. /\ user'.enabled = user.enabled /\ user'.secret = user.secret
          /\ user'.codes = user.codes \ {i} /\ user'.lastCounter = user.lastCounter
      BY <1>1, <3>1 DEF UserType
    <3>3. UNCHANGED <<drawn, proved, origin>>
      BY <1>4 DEF LoginWithRecoveryCode
    <3> QED BY <3>1, <3>2, <3>3
  <2> QED BY <2>1, <2>2
<1> QED BY <1>2, <1>3, <1>4

-----------------------------------------------------------------------------
(* No code is accepted twice *)

\* A step that accepts nothing, and keeps or draws the codes of the account.
LEMMA NothingSpent ==
    ASSUME SecondFactorTypeOK, SpentInv, UNCHANGED uses, user'.lastCounter = user.lastCounter,
           user'.codes \subseteq user.codes \cup (Issues \ drawn),
           user'.codes \subseteq drawn', drawn \subseteq drawn'
    PROVE  SpentInv'
BY DEF SpentInv

\* A recovery code leaves the account as it is accepted.
LEMMA CodeSpent ==
    ASSUME SecondFactorTypeOK, SpentInv, NEW i \in user.codes,
           uses' = [uses EXCEPT ![i] = @ + 1], user'.lastCounter = user.lastCounter,
           user'.codes \subseteq user.codes \ {i}, UNCHANGED drawn
    PROVE  SpentInv'
<1> USE SecondFactorAssumption
<1>1. /\ i \in Issues /\ i \notin Windows /\ uses[i] = 0 /\ i \in drawn
      /\ uses \in [Windows \cup Issues -> Nat]
  BY DEF SecondFactorTypeOK, UserType, SpentInv, Windows
<1>2. /\ uses'[i] = 1
      /\ \A x \in (Windows \cup Issues) \ {i} : uses'[x] = uses[x]
  BY <1>1
<1> QED BY <1>1, <1>2 DEF SpentInv

\* The watermark rises to the window that is accepted.
LEMMA WindowSpent ==
    ASSUME SecondFactorTypeOK, SpentInv, NEW r \in Requests, ClaimTotpWindow(r)
    PROVE  SpentInv'
<1> USE SecondFactorAssumption
<1>1. op[r].with \in Windows /\ user \in UserType /\ uses \in [Windows \cup Issues -> Nat]
  BY DEF ClaimTotpWindow, At, SecondFactorTypeOK, OpTypeOK
<1>2. CASE UNCHANGED <<user, uses>>
  BY <1>2, NothingSpent DEF ClaimTotpWindow, SpentInv
<1>3. CASE ~UNCHANGED <<user, uses>>
  <2>1. /\ user.lastCounter < op[r].with /\ UNCHANGED drawn
        /\ user' = [user EXCEPT !.lastCounter = op[r].with]
        /\ uses' = [uses EXCEPT ![op[r].with] = @ + 1]
    BY <1>3 DEF ClaimTotpWindow, Above
  <2>2. user'.lastCounter = op[r].with /\ user'.codes = user.codes
    BY <1>1, <2>1 DEF UserType
  <2>3. uses[op[r].with] = 0
    BY <1>1, <2>1 DEF SpentInv
  <2>4. /\ uses'[op[r].with] = 1
        /\ \A x \in (Windows \cup Issues) \ {op[r].with} : uses'[x] = uses[x]
    BY <1>1, <2>1, <2>3
  <2>5. op[r].with \notin Issues /\ user.lastCounter \in Windows
    BY <1>1 DEF Windows, UserType
  <2>6. \A w \in Windows : w > op[r].with => w > user.lastCounter /\ w # op[r].with
    BY <1>1, <2>1, <2>5 DEF Windows
  <2> QED BY <1>1, <2>1, <2>2, <2>4, <2>5, <2>6 DEF SpentInv
<1> QED BY <1>2, <1>3

\* No step accepts what was accepted.
LEMMA SpentStays == SecondFactorTypeOK /\ SpentInv /\ [Next]_vars => SpentInv'
<1> SUFFICES ASSUME SecondFactorTypeOK, SpentInv, [Next]_vars PROVE SpentInv'
  OBVIOUS
<1>1. user \in UserType
  BY DEF SecondFactorTypeOK
<1>2. CASE Untouched /\ user'.lastCounter = user.lastCounter /\ UNCHANGED uses
  BY <1>2, NothingSpent DEF Untouched, SpentInv
<1>3. ASSUME NEW r \in Requests, EnrollWrites(r) PROVE SpentInv'
  <2>1. /\ user' = user \/ \E s \in Secrets : user' = [user EXCEPT !.secret = s]
        /\ drawn \subseteq drawn' /\ UNCHANGED uses
    BY <1>3 DEF EnrollWrites
  <2>2. user'.codes = user.codes /\ user'.lastCounter = user.lastCounter
    BY <1>1, <2>1 DEF UserType
  <2> QED BY <2>1, <2>2, NothingSpent DEF SpentInv
<1>4. ASSUME NEW r \in Requests, Enable(r) \/ Regenerate(r) PROVE SpentInv'
  <2>1. UNCHANGED uses
    BY <1>4 DEF Enable, Regenerate
  <2> QED BY <1>4, <2>1, CodeSteps, NothingSpent DEF Untouched, SpentInv
<1>5. ASSUME NEW r \in Requests, LoginWithRecoveryCode(r) PROVE SpentInv'
  BY <1>5, CodeSteps, CodeSpent, NothingSpent DEF Untouched, SpentInv
<1>6. ASSUME user' = Off, UNCHANGED <<uses, drawn>> PROVE SpentInv'
  BY <1>6, NothingSpent DEF Off
<1>7. ASSUME NEW r \in Requests, DisableWithRecoveryCode(r) PROVE SpentInv'
  <2>1. CASE UNCHANGED <<user, uses>>
    BY <1>7, <2>1, NothingSpent DEF DisableWithRecoveryCode, SpentInv
  <2>2. CASE ~UNCHANGED <<user, uses>>
    <3>1. PICK i \in user.codes : user' = Off /\ uses' = [uses EXCEPT ![i] = @ + 1]
      BY <1>7, <2>2 DEF DisableWithRecoveryCode
    <3>2. UNCHANGED drawn
      BY <1>7 DEF DisableWithRecoveryCode
    <3> QED BY <3>1, <3>2, CodeSpent DEF Off
  <2> QED BY <2>1, <2>2
<1>8. ASSUME NEW r \in Requests, Disable(r) PROVE SpentInv'
  BY <1>6, <1>8, NothingSpent DEF Disable, SpentInv
<1>9. CASE AdminReset
  BY <1>6, <1>9 DEF AdminReset
<1> QED BY <1>2, <1>3, <1>4, <1>5, <1>7, <1>8, <1>9, WindowSpent, OtherSteps

\* No code of the authenticator and no recovery code is accepted twice.
THEOREM AlwaysUsedOnce == Spec => []UsedOnce
<1>1. Init => SpentInv
  BY DEF Init, SpentInv
<1>2. SecondFactorTypeOK /\ SpentInv => UsedOnce
  BY DEF SecondFactorTypeOK, SpentInv, UsedOnce
<1> QED BY <1>1, <1>2, InitTyped, TypesStay, SpentStays, PTL DEF Spec

-----------------------------------------------------------------------------
(* What the account holds belongs to its secret *)

\* The secret is replaced only while two-step verification is off, and the codes with it.
LEMMA FactorStays == SecondFactorTypeOK /\ FactorInv /\ [Next]_vars => FactorInv'
<1> SUFFICES ASSUME SecondFactorTypeOK, FactorInv, [Next]_vars PROVE FactorInv'
  OBVIOUS
<1>1. user \in UserType /\ origin \in [Issues -> Secrets \cup {None}]
  BY DEF SecondFactorTypeOK
<1>2. CASE Untouched
  BY <1>2 DEF Untouched, FactorInv
<1>3. ASSUME NEW r \in Requests, EnrollWrites(r) PROVE FactorInv'
  <2>1. CASE user' = user
    BY <1>3, <2>1 DEF EnrollWrites, FactorInv
  <2>2. CASE user' # user
    <3>1. /\ \E s \in Secrets : user' = [user EXCEPT !.secret = s]
          /\ ~user.enabled
      BY <1>3, <2>2 DEF EnrollWrites
    <3>2. user'.codes = user.codes /\ user'.enabled = user.enabled
      BY <1>1, <3>1 DEF UserType
    <3> QED BY <3>1, <3>2 DEF FactorInv
  <2> QED BY <2>1, <2>2
<1>4. ASSUME NEW r \in Requests, Enable(r) \/ Regenerate(r) PROVE FactorInv'
  <2>1. CASE Untouched
    BY <1>2, <2>1
  <2>2. CASE ~Untouched
    <3>1. PICK i \in Issues \ drawn :
              /\ user'.enabled /\ user'.secret = user.secret /\ user'.codes = {i}
              /\ origin' = [origin EXCEPT ![i] = user.secret]
              /\ \/ user.enabled /\ proved' = proved
                 \/ user.secret \in proved'
      BY <1>4, <2>2, CodeSteps
    <3>2. origin'[i] = user.secret
      BY <1>1, <3>1
    <3> QED BY <3>1, <3>2 DEF FactorInv
  <2> QED BY <2>1, <2>2
<1>5. ASSUME NEW r \in Requests, LoginWithRecoveryCode(r) PROVE FactorInv'
  BY <1>2, <1>5, CodeSteps DEF FactorInv
<1>6. ASSUME user' = Off PROVE FactorInv'
  BY <1>6 DEF Off, FactorInv
<1>7. ASSUME NEW r \in Requests, Disable(r) \/ DisableWithRecoveryCode(r) PROVE FactorInv'
  <2>1. /\ user' = user \/ user' = Off
        /\ UNCHANGED <<proved, origin>>
    BY <1>7 DEF Disable, DisableWithRecoveryCode
  <2> QED BY <1>6, <2>1 DEF FactorInv
<1>8. CASE AdminReset
  BY <1>6, <1>8 DEF AdminReset
<1>9. ASSUME NEW r \in Requests, ClaimTotpWindow(r) PROVE FactorInv'
  <2>1. /\ user' = user \/ user' = [user EXCEPT !.lastCounter = op[r].with]
        /\ UNCHANGED <<proved, origin, drawn>>
    BY <1>9 DEF ClaimTotpWindow
  <2>2. Untouched
    BY <1>1, <2>1 DEF UserType, Untouched
  <2> QED BY <1>2, <2>2
<1> QED BY <1>2, <1>3, <1>4, <1>5, <1>7, <1>8, <1>9, OtherSteps

\* What the account holds always belongs to its secret.
THEOREM FactorsBelong == Spec => [](SecondFactorTypeOK /\ FactorInv)
<1>1. Init => FactorInv
  BY DEF Init, FactorInv
<1> QED BY <1>1, InitTyped, TypesStay, FactorStays, PTL DEF Spec

\* Two-step verification is on only with a secret a code of which was shown.
THEOREM AlwaysEnabledWasProved == Spec => []EnabledWasProved
<1>1. FactorInv => EnabledWasProved
  BY DEF FactorInv, EnabledWasProved
<1> QED BY <1>1, FactorsBelong, PTL

\* Whoever turns it off has shown a code of the secret in force or a recovery code
\* issued with it.
THEOREM AlwaysDisabledByItsFactor == Spec => DisabledByItsFactor
<1> DEFINE ByItsFactor ==
        \A r \in Requests :
            (Disable(r) \/ DisableWithRecoveryCode(r)) /\ user.enabled /\ ~user'.enabled =>
                \/ op[r].kind = "disable" /\ op[r].secret = user.secret
                \/ \E i \in Issues : uses'[i] > uses[i] /\ origin[i] = user.secret
<1>1. SecondFactorTypeOK /\ FactorInv /\ [Next]_vars => [ByItsFactor]_vars
  <2> SUFFICES ASSUME SecondFactorTypeOK, FactorInv, NEW r \in Requests,
                      user.enabled, ~user'.enabled
               PROVE  /\ Disable(r) => op[r].kind = "disable" /\ op[r].secret = user.secret
                      /\ DisableWithRecoveryCode(r) =>
                             \E i \in Issues : uses'[i] > uses[i] /\ origin[i] = user.secret
    OBVIOUS
  <2>1. ASSUME Disable(r) PROVE op[r].kind = "disable" /\ op[r].secret = user.secret
    BY <2>1 DEF Disable, At, SameSecret
  <2>2. ASSUME DisableWithRecoveryCode(r)
        PROVE  \E i \in Issues : uses'[i] > uses[i] /\ origin[i] = user.secret
    <3>1. PICK i \in user.codes : uses' = [uses EXCEPT ![i] = @ + 1]
      BY <2>2 DEF DisableWithRecoveryCode
    <3>2. i \in Issues /\ uses \in [Windows \cup Issues -> Nat]
      BY DEF SecondFactorTypeOK, UserType
    <3>3. uses'[i] = uses[i] + 1 /\ uses[i] \in Nat
      BY <3>1, <3>2
    <3> QED BY <3>2, <3>3 DEF FactorInv
  <2> QED BY <2>1, <2>2
<1> QED BY <1>1, FactorsBelong, PTL DEF Spec, DisabledByItsFactor

-----------------------------------------------------------------------------
(* Failures and the lock *)

\* While a request is about to reset a lock that has run out, the account either bears
\* another lock by now, or every failure since is one more than the request has read.
ResetInv ==
    \A r \in Requests :
        IF op[r].step = "lazyReset"
        THEN /\ op[r].lockUntil # 0 /\ op[r].lockUntil <= now
             /\ user.lockUntil = op[r].lockUntil =>
                    user.failCount = op[r].failCount + op[r].later
        ELSE op[r].later = 0

\* A request sets a lock.
Locks == \E r \in Requests : op[r].step = "setLock"

\* The lock and the failures after a step of one request that leaves both alone.
LEMMA LockUntouched ==
    ASSUME SecondFactorTypeOK, ResetInv, FailuresLock, NEW r \in Requests, NEW to,
           op' = [op EXCEPT ![r] = to], to.step # "lazyReset", to.later = 0,
           op[r].step # "setLock", UNCHANGED <<fails, unlocked>>, now' = now,
           user'.failCount = user.failCount, user'.lockUntil = user.lockUntil
    PROVE  ResetInv' /\ FailuresLock'
<1>1. op \in [Requests -> OpType]
  BY DEF SecondFactorTypeOK, OpTypeOK
<1>2. op'[r] = to /\ \A q \in Requests \ {r} : op'[q] = op[q]
  BY <1>1
<1>3. ResetInv'
  BY <1>2 DEF ResetInv
<1>4. Locks => Locks'
  BY <1>2 DEF Locks
<1> QED BY <1>3, <1>4 DEF FailuresLock, Locks

\* Whoever forgives the failures takes the lock away.
LEMMA LockForgiven ==
    ASSUME SecondFactorTypeOK, ResetInv, NEW r, Forgives(r),
           user'.lockUntil = 0, user'.failCount = 0, now' = now
    PROVE  ResetInv' /\ FailuresLock'
<1> USE SecondFactorAssumption
<1>1. op \in [Requests -> OpType]
  BY DEF SecondFactorTypeOK, OpTypeOK
<1>2. ASSUME NEW q \in Requests
      PROVE  IF op'[q].step = "lazyReset" THEN op'[q].lockUntil # 0 /\ op'[q].lockUntil <= now
             ELSE op'[q].later = 0
  <2>1. CASE q = r
    BY <2>1 DEF Forgives, Idle
  <2>2. CASE q # r
    <3>1. op'[q] = [op[q] EXCEPT !.later = 0]
      BY <2>2 DEF Forgives
    <3>2. /\ op'[q].step = op[q].step /\ op'[q].lockUntil = op[q].lockUntil
          /\ op'[q].later = 0
      BY <1>1, <3>1 DEF OpType
    <3> QED BY <3>2 DEF ResetInv
  <2> QED BY <2>1, <2>2
<1> QED BY <1>2 DEF ResetInv, FailuresLock, Forgives

\* A failure that reaches the limit goes on to set the lock.
LEMMA FailureCounts ==
    ASSUME SecondFactorTypeOK, ResetInv, FailuresLock, NEW r \in Requests,
           RecordMfaFailure(r)
    PROVE  ResetInv' /\ FailuresLock'
<1> USE SecondFactorAssumption
<1>1. /\ op \in [Requests -> OpType] /\ user \in UserType /\ fails \in Nat /\ now \in 1..MaxTime
  BY DEF SecondFactorTypeOK, OpTypeOK
<1>2. /\ op[r].step = "fail" /\ UNCHANGED <<now, unlocked>>
  BY DEF RecordMfaFailure, At
<1>3. CASE UNCHANGED <<user, fails>> /\ Ends(r, "setLock")
  <2>1. op[r].kind \in Kinds \cup {"none", "enroll"}
    BY <1>1 DEF OpType
  <2> DEFINE to == [Idle EXCEPT !.kind = op[r].kind, !.step = "setLock"]
  <2>2. to.step = "setLock" /\ to.later = 0
    BY DEF Idle
  <2>3. op' = [op EXCEPT ![r] = to]
    BY <1>3 DEF Ends
  <2> HIDE DEF to
  <2> QED BY <1>2, <1>3, <2>2, <2>3, LockUntouched
<1>4. CASE ~(UNCHANGED <<user, fails>> /\ Ends(r, "setLock"))
  <2>1. /\ user' = [user EXCEPT !.failCount = @ + 1] /\ fails' = fails + 1
        /\ op' = [q \in Requests |->
               IF q # r
               THEN [op[q] EXCEPT !.later = IF op[q].step = "lazyReset" THEN @ + 1 ELSE @]
               ELSE IF user'.failCount >= MaxFails THEN [op[r] EXCEPT !.step = "setLock"]
               ELSE Idle]
    BY <1>4 DEF RecordMfaFailure
  <2>2. /\ user'.failCount = user.failCount + 1 /\ user'.lockUntil = user.lockUntil
        /\ user.failCount \in Nat
    BY <1>1, <2>1 DEF UserType
  <2>3. ASSUME NEW q \in Requests \ {r}
        PROVE  /\ op'[q].step = op[q].step /\ op'[q].lockUntil = op[q].lockUntil
               /\ op'[q].failCount = op[q].failCount
               /\ op'[q].later = IF op[q].step = "lazyReset" THEN op[q].later + 1
                                 ELSE op[q].later
               /\ op[q].failCount \in Nat /\ op[q].later \in Nat
    <3>1. op'[q] = [op[q] EXCEPT !.later = IF op[q].step = "lazyReset" THEN op[q].later + 1
                                           ELSE op[q].later]
      BY <2>1
    <3> QED BY <1>1, <3>1 DEF OpType
  <2>4. /\ op'[r].step # "lazyReset" /\ op'[r].later = 0
        /\ user'.failCount >= MaxFails => op'[r].step = "setLock"
    <3>1. op[r].later = 0
      BY <1>2 DEF ResetInv
    <3>2. CASE user'.failCount >= MaxFails
      <4>1. op'[r] = [op[r] EXCEPT !.step = "setLock"]
        BY <2>1, <3>2
      <4>2. op'[r].step = "setLock" /\ op'[r].later = op[r].later
        BY <1>1, <4>1 DEF OpType
      <4> QED BY <3>1, <4>2
    <3>3. CASE ~(user'.failCount >= MaxFails)
      BY <2>1, <3>3 DEF Idle
    <3> QED BY <3>2, <3>3
  <2>5. ResetInv'
    <3> SUFFICES ASSUME NEW q \in Requests
                 PROVE  IF op'[q].step = "lazyReset"
                        THEN /\ op'[q].lockUntil # 0 /\ op'[q].lockUntil <= now
                             /\ user'.lockUntil = op'[q].lockUntil =>
                                    user'.failCount = op'[q].failCount + op'[q].later
                        ELSE op'[q].later = 0
      BY <1>2 DEF ResetInv
    <3>1. CASE q = r
      BY <2>4, <3>1
    <3>2. CASE q # r
      BY <2>2, <2>3, <3>2 DEF ResetInv
    <3> QED BY <3>1, <3>2
  <2>6. user'.failCount >= fails'
    BY <1>1, <2>1, <2>2 DEF FailuresLock
  <2>7. fails' >= MaxFails => op'[r].step = "setLock"
    BY <1>1, <2>1, <2>2, <2>4, <2>6
  <2> QED BY <2>5, <2>6, <2>7 DEF FailuresLock
<1> QED BY <1>3, <1>4

\* A lock that is reset is the one that was read, and nothing was counted since.
LEMMA LazyResets ==
    ASSUME SecondFactorTypeOK, ResetInv, FailuresLock, NEW r \in Requests, LazyReset(r)
    PROVE  ResetInv' /\ FailuresLock'
<1> USE SecondFactorAssumption
<1>1. /\ op \in [Requests -> OpType] /\ user \in UserType /\ fails \in Nat
      /\ op[r].step = "lazyReset" /\ UNCHANGED <<now, unlocked>>
  BY DEF SecondFactorTypeOK, OpTypeOK, LazyReset, At
<1> DEFINE to == [op[r] EXCEPT !.step = "verify", !.lockUntil = 0, !.failCount = 0, !.later = 0]
<1>2. /\ op' = [op EXCEPT ![r] = to] /\ to.step = "verify" /\ to.later = 0
  BY <1>1 DEF LazyReset, OpType
<1> HIDE DEF to
<1>3. CASE UNCHANGED <<user, fails>>
  BY <1>1, <1>2, <1>3, LockUntouched
<1>4. CASE ~UNCHANGED <<user, fails>>
  <2>1. /\ user.lockUntil = op[r].lockUntil /\ user.failCount = op[r].failCount
        /\ user' = [user EXCEPT !.failCount = 0, !.lockUntil = 0]
        /\ fails' = IF fails < op[r].later THEN fails ELSE op[r].later
    BY <1>4 DEF LazyReset, SameLockAndCount, SameLock
  <2>2. user'.failCount = 0 /\ user'.lockUntil = 0
    BY <1>1, <2>1 DEF UserType
  <2>3. op[r].later = 0
    <3>1. user.failCount = op[r].failCount + op[r].later
      BY <1>1, <2>1 DEF ResetInv
    <3>2. op[r].failCount \in Nat /\ op[r].later \in Nat
      BY <1>1 DEF OpType
    <3> QED BY <2>1, <3>1, <3>2
  <2>4. fails' = 0
    BY <1>1, <2>1, <2>3
  <2>5. FailuresLock'
    BY <2>2, <2>4 DEF FailuresLock
  <2>6. op'[r] = to /\ \A q \in Requests \ {r} : op'[q] = op[q]
    BY <1>1, <1>2
  <2>7. ResetInv'
    BY <1>1, <1>2, <2>2, <2>6 DEF ResetInv
  <2> QED BY <2>5, <2>7
<1> QED BY <1>3, <1>4

\* A new lock is none that a request found run out.
LEMMA LockSets ==
    ASSUME SecondFactorTypeOK, ResetInv, FailuresLock, NEW r \in Requests, SetLock(r)
    PROVE  ResetInv' /\ FailuresLock'
<1> USE SecondFactorAssumption
<1>1. /\ op \in [Requests -> OpType] /\ user \in UserType /\ now \in Nat
      /\ op' = [op EXCEPT ![r] = Idle] /\ UNCHANGED <<now, fails>>
      /\ Idle.step = "none" /\ Idle.later = 0
  BY DEF SecondFactorTypeOK, OpTypeOK, SetLock, Answers, Idle
<1> HIDE DEF Idle
<1>2. op'[r] = Idle /\ \A q \in Requests \ {r} : op'[q] = op[q]
  BY <1>1
<1>3. CASE user' = [user EXCEPT !.lockUntil = now + LockFor] /\ UNCHANGED unlocked
  <2>1. user'.lockUntil = now + LockFor /\ user'.failCount = user.failCount
    BY <1>1, <1>3 DEF UserType
  <2>2. user'.lockUntil > now /\ user'.lockUntil # 0
    BY <1>1, <2>1
  <2>3. ASSUME NEW q \in Requests \ {r}, op[q].step = "lazyReset"
        PROVE  op[q].lockUntil # 0 /\ op[q].lockUntil <= now /\ user'.lockUntil # op[q].lockUntil
    <3>1. op[q].lockUntil \in Nat /\ user'.lockUntil \in Nat
      BY <1>1, <2>1 DEF OpType
    <3> QED BY <1>1, <2>2, <2>3, <3>1 DEF ResetInv
  <2>4. ResetInv'
    BY <1>1, <1>2, <2>3 DEF ResetInv
  <2> QED BY <1>1, <2>1, <2>2, <2>4 DEF FailuresLock
<1>4. CASE unlocked' = TRUE /\ UNCHANGED user
  <2>1. ResetInv'
    BY <1>1, <1>2, <1>4 DEF ResetInv
  <2> QED BY <1>1, <1>4, <2>1 DEF FailuresLock
<1> QED BY <1>3, <1>4 DEF SetLock

\* The fields of a request that reads the lock.
LEMMA LockReads ==
    ASSUME SecondFactorTypeOK, ResetInv, FailuresLock, NEW r \in Requests, IsMfaLocked(r)
    PROVE  ResetInv' /\ FailuresLock'
<1> USE SecondFactorAssumption
<1>1. /\ op \in [Requests -> OpType] /\ user \in UserType /\ now \in Nat
      /\ op[r].step = "lock" /\ UNCHANGED <<now, user, fails, unlocked>>
  BY DEF SecondFactorTypeOK, OpTypeOK, IsMfaLocked, At, history
<1>2. op[r].later = 0
  BY <1>1 DEF ResetInv
<1>3. CASE op' = [op EXCEPT ![r] = Idle]
  <2>1. Idle.step = "none" /\ Idle.later = 0
    BY DEF Idle
  <2> HIDE DEF Idle
  <2> QED BY <1>1, <1>3, <2>1, LockUntouched
<1> DEFINE to == [op[r] EXCEPT !.step = IF user.lockUntil = 0 THEN "verify" ELSE "lazyReset",
                               !.lockUntil = user.lockUntil,
                               !.failCount = IF user.lockUntil = 0 THEN 0 ELSE user.failCount]
<1>4. CASE ~(user.lockUntil > now) /\ op' = [op EXCEPT ![r] = to]
  <2>1. /\ to.step = IF user.lockUntil = 0 THEN "verify" ELSE "lazyReset"
        /\ to.lockUntil = user.lockUntil
        /\ to.failCount = IF user.lockUntil = 0 THEN 0 ELSE user.failCount
        /\ to.later = 0
    BY <1>1, <1>2 DEF OpType
  <2> HIDE DEF to
  <2>2. CASE user.lockUntil = 0
    BY <1>1, <1>4, <2>1, <2>2, LockUntouched
  <2>3. CASE user.lockUntil # 0
    <3>1. user.lockUntil \in Nat /\ user.failCount \in Nat
      BY <1>1 DEF UserType
    <3>2. op'[r] = to /\ \A q \in Requests \ {r} : op'[q] = op[q]
      BY <1>1, <1>4
    <3>3. ResetInv'
      BY <1>1, <1>4, <2>1, <2>3, <3>1, <3>2 DEF ResetInv
    <3>4. Locks => Locks'
      BY <1>1, <3>2 DEF Locks
    <3> QED BY <1>1, <3>3, <3>4 DEF FailuresLock, Locks
  <2> QED BY <2>2, <2>3
<1>5. \/ op' = [op EXCEPT ![r] = Idle]
      \/ ~(user.lockUntil > now) /\ op' = [op EXCEPT ![r] = to]
  BY DEF IsMfaLocked, Answers
<1> QED BY <1>3, <1>4, <1>5

\* A request that answers, ends or goes on, and leaves the lock and the failures alone.
LEMMA LockEnds ==
    ASSUME SecondFactorTypeOK, ResetInv, FailuresLock, NEW r \in Requests,
           NEW step \in Steps \ {"lazyReset"}, Answers(r) \/ Ends(r, step) \/ Goes(r, step),
           op[r].step \notin {"lazyReset", "setLock"}, UNCHANGED <<fails, unlocked>>,
           now' = now, user'.failCount = user.failCount, user'.lockUntil = user.lockUntil
    PROVE  ResetInv' /\ FailuresLock'
<1>1. op \in [Requests -> OpType] /\ op[r].later = 0
  BY DEF SecondFactorTypeOK, OpTypeOK, ResetInv
<1>2. CASE Answers(r)
  <2>1. Idle.step = "none" /\ Idle.later = 0
    BY DEF Idle
  <2> HIDE DEF Idle
  <2> QED BY <1>2, <2>1, LockUntouched DEF Answers
<1>3. CASE Ends(r, step)
  <2>1. op[r].kind \in Kinds \cup {"none", "enroll"}
    BY <1>1 DEF OpType
  <2> DEFINE to == [Idle EXCEPT !.kind = op[r].kind, !.step = step]
  <2>2. to.step = step /\ to.later = 0
    BY DEF Idle
  <2>3. op' = [op EXCEPT ![r] = to]
    BY <1>3 DEF Ends
  <2> HIDE DEF to
  <2> QED BY <2>2, <2>3, LockUntouched
<1>4. CASE Goes(r, step)
  <2> DEFINE to == [op[r] EXCEPT !.step = step]
  <2>1. to.step = step /\ to.later = 0
    BY <1>1 DEF OpType
  <2>2. op' = [op EXCEPT ![r] = to]
    BY <1>4 DEF Goes
  <2> HIDE DEF to
  <2> QED BY <2>1, <2>2, LockUntouched
<1> QED BY <1>2, <1>3, <1>4

\* Beginning, and going on to claim a window.
LEMMA LockBegins ==
    ASSUME SecondFactorTypeOK, ResetInv, FailuresLock, NEW r \in Requests,
           Enroll(r) \/ Begin(r) \/ Verify(r)
    PROVE  ResetInv' /\ FailuresLock'
<1>1. /\ op \in [Requests -> OpType] /\ UNCHANGED <<now, user, fails, unlocked>>
      /\ op[r].step \notin {"lazyReset", "setLock"} /\ op[r].later = 0
  <2>1. op \in [Requests -> OpType]
    BY DEF SecondFactorTypeOK, OpTypeOK
  <2>2. UNCHANGED <<now, user, fails, unlocked>>
    BY DEF Enroll, Begin, Verify, history
  <2>3. op[r] = Idle \/ op[r].step = "verify"
    BY DEF Enroll, Begin, Verify, At
  <2>4. op[r].step \in {"none", "verify"}
    BY <2>3 DEF Idle
  <2> QED BY <2>1, <2>2, <2>4 DEF ResetInv
<1>2. CASE Enroll(r)
  <2> DEFINE to == [Idle EXCEPT !.kind = "enroll", !.step = "act"]
  <2>1. to.step = "act" /\ to.later = 0
    BY DEF Idle
  <2>2. op' = [op EXCEPT ![r] = to]
    BY <1>2 DEF Enroll
  <2> HIDE DEF to
  <2> QED BY <1>1, <2>1, <2>2, LockUntouched
<1>3. CASE Begin(r)
  <2>1. PICK kind \in Kinds :
            op' = [op EXCEPT ![r] =
                [op[r] EXCEPT !.kind = kind, !.step = "lock",
                              !.secret = IF kind \in Reading THEN user.secret ELSE None,
                              !.codes = IF kind \in {"regenerate", "loginRecovery"}
                                        THEN user.codes ELSE {},
                              !.counted = kind = "password" /\ user.failCount > 0]]
    BY <1>3 DEF Begin
  <2> DEFINE to == [op[r] EXCEPT !.kind = kind, !.step = "lock",
                              !.secret = IF kind \in Reading THEN user.secret ELSE None,
                              !.codes = IF kind \in {"regenerate", "loginRecovery"}
                                        THEN user.codes ELSE {},
                              !.counted = kind = "password" /\ user.failCount > 0]
  <2>2. to.step = "lock" /\ to.later = 0
    BY <1>1 DEF OpType
  <2> HIDE DEF to
  <2>3. op' = [op EXCEPT ![r] = to]
    BY <2>1 DEF to
  <2> QED BY <1>1, <2>2, <2>3, LockUntouched
<1>4. CASE Verify(r)
  <2>1. CASE Ends(r, "fail")
    BY <1>1, <2>1, LockEnds DEF Steps
  <2>2. CASE ~Ends(r, "fail")
    <3>1. PICK w \in {now - 1, now, now + 1} :
              op' = [op EXCEPT ![r] = [op[r] EXCEPT !.step = "claim", !.with = w]]
      BY <1>4, <2>2 DEF Verify
    <3> DEFINE to == [op[r] EXCEPT !.step = "claim", !.with = w]
    <3>2. to.step = "claim" /\ to.later = 0
      BY <1>1 DEF OpType
    <3> HIDE DEF to
    <3>3. op' = [op EXCEPT ![r] = to]
      BY <3>1 DEF to
    <3> QED BY <1>1, <3>2, <3>3, LockUntouched
  <2> QED BY <2>1, <2>2
<1> QED BY <1>2, <1>3, <1>4

\* The steps that write the secret or the codes, and forgive nothing.
LEMMA LockKept ==
    ASSUME SecondFactorTypeOK, ResetInv, FailuresLock, NEW r \in Requests,
           \/ EnrollWrites(r) \/ ClaimTotpWindow(r) \/ VerifyPassword(r) \/ Enable(r)
           \/ DisableExplains(r) \/ LoginWithRecoveryCode(r) \/ Regenerate(r)
    PROVE  ResetInv' /\ FailuresLock'
<1>1. user \in UserType /\ UNCHANGED <<now, fails, unlocked>>
  BY DEF SecondFactorTypeOK, EnrollWrites, ClaimTotpWindow, VerifyPassword, Enable,
         DisableExplains, LoginWithRecoveryCode, Regenerate, history
<1>2. op[r].step \in {"act", "claim", "verify", "explain"}
  BY DEF EnrollWrites, ClaimTotpWindow, VerifyPassword, Enable, DisableExplains,
         LoginWithRecoveryCode, Regenerate, At
<1>3. \E step \in Steps \ {"lazyReset"} : Answers(r) \/ Ends(r, step) \/ Goes(r, step)
  <2>1. {"act", "fail", "reset"} \subseteq Steps \ {"lazyReset"}
    BY DEF Steps
  <2>2. \/ Answers(r) \/ Goes(r, "act") \/ Ends(r, "fail") \/ Ends(r, "reset")
    BY DEF EnrollWrites, ClaimTotpWindow, VerifyPassword, Enable, DisableExplains,
           LoginWithRecoveryCode, Regenerate
  <2> QED BY <2>1, <2>2
<1>4. user'.failCount = user.failCount /\ user'.lockUntil = user.lockUntil
  <2>1. CASE UNCHANGED user
    BY <2>1
  <2>2. CASE EnrollWrites(r)
    <3>1. user' = user \/ \E s : user' = [user EXCEPT !.secret = s]
      BY <2>2 DEF EnrollWrites
    <3> QED BY <1>1, <3>1 DEF UserType
  <2>3. CASE ClaimTotpWindow(r)
    <3>1. user' = user \/ user' = [user EXCEPT !.lastCounter = op[r].with]
      BY <2>3 DEF ClaimTotpWindow
    <3> QED BY <1>1, <3>1 DEF UserType
  <2>4. CASE Enable(r)
    <3>1. user' = user \/ \E i : user' = [user EXCEPT !.enabled = TRUE, !.codes = {i}]
      BY <2>4 DEF Enable
    <3> QED BY <1>1, <3>1 DEF UserType
  <2>5. CASE LoginWithRecoveryCode(r)
    <3>1. user' = user \/ \E i : user' = [user EXCEPT !.codes = user.codes \ {i}]
      BY <2>5 DEF LoginWithRecoveryCode
    <3> QED BY <1>1, <3>1 DEF UserType
  <2>6. CASE Regenerate(r)
    <3>1. user' = user \/ \E i : user' = [user EXCEPT !.codes = {i}]
      BY <2>6 DEF Regenerate
    <3> QED BY <1>1, <3>1 DEF UserType
  <2>7. CASE VerifyPassword(r) \/ DisableExplains(r)
    BY <2>7 DEF VerifyPassword, DisableExplains
  <2> QED BY <2>2, <2>3, <2>4, <2>5, <2>6, <2>7
<1> QED BY <1>1, <1>2, <1>3, <1>4, LockEnds

\* The steps that turn two-step verification off, and a success.
LEMMA LockTurnedOff ==
    ASSUME SecondFactorTypeOK, ResetInv, FailuresLock, NEW r \in Requests,
           Disable(r) \/ DisableWithRecoveryCode(r) \/ ResetMfaFailures(r)
    PROVE  ResetInv' /\ FailuresLock'
<1>1. /\ user \in UserType /\ UNCHANGED <<now, unlocked>>
      /\ op[r].step \in {"act", "verify", "reset"}
  BY DEF SecondFactorTypeOK, Disable, DisableWithRecoveryCode, ResetMfaFailures, At
<1>2. \/ UNCHANGED <<user, fails>> /\ (Answers(r) \/ Goes(r, "explain"))
      \/ user' = Off /\ Forgives(r)
      \/ user' = [user EXCEPT !.failCount = 0, !.lockUntil = 0] /\ Forgives(r)
  BY DEF Disable, DisableWithRecoveryCode, ResetMfaFailures
<1>3. CASE UNCHANGED <<user, fails>> /\ (Answers(r) \/ Goes(r, "explain"))
  <2>1. "explain" \in Steps \ {"lazyReset"}
    BY DEF Steps
  <2> QED BY <1>1, <1>3, <2>1, LockEnds
<1>4. CASE user' = Off /\ Forgives(r)
  BY <1>1, <1>4, LockForgiven DEF Off
<1>5. CASE user' = [user EXCEPT !.failCount = 0, !.lockUntil = 0] /\ Forgives(r)
  <2>1. user'.failCount = 0 /\ user'.lockUntil = 0
    BY <1>1, <1>5 DEF UserType
  <2> QED BY <1>1, <1>5, <2>1, LockForgiven
<1> QED BY <1>2, <1>3, <1>4, <1>5

\* No step forgets a failure.
LEMMA LockStays ==
    SecondFactorTypeOK /\ ResetInv /\ FailuresLock /\ [Next]_vars => ResetInv' /\ FailuresLock'
<1> SUFFICES ASSUME SecondFactorTypeOK, ResetInv, FailuresLock, [Next]_vars
             PROVE  ResetInv' /\ FailuresLock'
  OBVIOUS
<1>1. CASE UNCHANGED <<user, op, fails, unlocked>> /\ now' >= now
  <2>1. ResetInv'
    <3> SUFFICES ASSUME NEW r \in Requests, op[r].step = "lazyReset"
                 PROVE  op[r].lockUntil <= now'
      BY <1>1 DEF ResetInv
    <3>1. op[r].lockUntil \in Nat /\ now \in Nat /\ now' \in Nat /\ op[r].lockUntil <= now
      BY TypesStay DEF SecondFactorTypeOK, OpTypeOK, OpType, ResetInv
    <3> QED BY <1>1, <3>1
  <2> QED BY <1>1, <2>1 DEF FailuresLock
<1>2. CASE Tick \/ UNCHANGED vars
  <2>1. now \in Nat
    BY DEF SecondFactorTypeOK
  <2> QED BY <1>1, <1>2, <2>1 DEF Tick, vars, history
<1>3. CASE AdminReset
  <2>1. user'.failCount = 0 /\ user'.lockUntil = 0 /\ now' = now
    BY <1>3 DEF AdminReset, Off
  <2> QED BY <1>3, <2>1, LockForgiven DEF AdminReset
<1>4. ASSUME NEW r \in Requests,
             \/ Enroll(r) \/ Begin(r) \/ Verify(r) \/ EnrollWrites(r) \/ ClaimTotpWindow(r)
             \/ VerifyPassword(r) \/ Enable(r) \/ DisableExplains(r)
             \/ LoginWithRecoveryCode(r) \/ Regenerate(r) \/ Disable(r)
             \/ DisableWithRecoveryCode(r) \/ ResetMfaFailures(r) \/ IsMfaLocked(r)
             \/ LazyReset(r) \/ RecordMfaFailure(r) \/ SetLock(r)
      PROVE  ResetInv' /\ FailuresLock'
  BY <1>4, LockBegins, LockKept, LockTurnedOff, LockReads, LazyResets, FailureCounts, LockSets
<1> QED BY <1>2, <1>3, <1>4 DEF Next

\* MFA_MAX_FAILS failures lock the channel (recordMfaFailure), unless the lock cannot
\* be written, whatever lazy resets run meanwhile.
THEOREM AlwaysFailuresLock == Spec => []FailuresLock
<1>1. Init => ResetInv /\ FailuresLock
  BY SecondFactorAssumption DEF Init, ResetInv, FailuresLock, Idle
<1> QED BY <1>1, SecondFactorTyped, LockStays, PTL DEF Spec
=============================================================================
