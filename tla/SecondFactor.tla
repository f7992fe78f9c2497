----------------------------- MODULE SecondFactor -----------------------------
(***************************************************************************)
(* Two-step verification of one account: enrolling a secret, turning it    *)
(* on and off, issuing recovery codes, and the verifications at login and  *)
(* before sensitive operations.                                            *)
(*                                                                         *)
(* A request reads the account, asks whether the channel is locked, checks *)
(* what it was given against what it read, and only then writes; every     *)
(* read and write is a call of its own, and other requests come between    *)
(* any two of them.  What keeps them apart are the conditions the writes   *)
(* carry.                                                                  *)
(*                                                                         *)
(* A code of the authenticator stands for one time window of one secret.   *)
(* 0 stands for a time, a window or a secret that is not set.              *)
(***************************************************************************)
EXTENDS Naturals, FiniteSets

CONSTANTS
    Requests,
    Secrets,   \* generateSecret draws one that was not drawn before
    Issues,    \* sets of recovery codes generateRecoveryCodes draws, one code in each
    MaxFails,  \* MFA_MAX_FAILS
    LockFor,   \* MFA_LOCK_MS, in time windows
    MaxTime,   \* bound: the clock, in time windows
    MaxFaults, \* bound: writes that fail
    None

ASSUME SecondFactorAssumption ==
    /\ MaxFails \in Nat \ {0} /\ LockFor \in Nat \ {0} /\ MaxTime \in Nat \ {0}
    /\ MaxFaults \in Nat
    /\ None \notin Secrets \cup Issues \cup Requests \cup Nat
    /\ \A i \in Issues : i \notin Nat

VARIABLES
    now,
    user,     \* mfaEnabled, mfaSecret, mfaRecoveryCodes, mfaFailCount, mfaLockUntil and
              \* mfaLastCounter of the account
    op,       \* the requests
    drawn,    \* secrets and recovery codes that were drawn (history)
    uses,     \* how often each window and recovery code was accepted (history)
    proved,   \* secrets a code of which turned two-step verification on (history)
    origin,   \* the secret each recovery code was issued with (history)
    fails,    \* failures counted and not forgiven by a success or by the end of a lock
              \* they led to (history)
    unlocked, \* whether a lock could not be written (history)
    faults    \* number of writes that failed

history == <<drawn, uses, proved, origin, fails, unlocked>>
vars == <<now, user, op, faults, history>>

Idle == [kind |-> "none", step |-> "none", secret |-> None, codes |-> {},
         counted |-> FALSE, lockUntil |-> 0, failCount |-> 0, with |-> None,
         later |-> 0]  \* failures counted since it found the lock run out (history)

Windows == 0..MaxTime + 1

Init ==
    /\ now = 1
    /\ user = [enabled |-> FALSE, secret |-> None, codes |-> {}, failCount |-> 0,
               lockUntil |-> 0, lastCounter |-> 0]
    /\ op = [r \in Requests |-> Idle]
    /\ drawn = {} /\ uses = [x \in Windows \cup Issues |-> 0]
    /\ proved = {} /\ origin = [i \in Issues |-> None]
    /\ fails = 0 /\ unlocked = FALSE /\ faults = 0

Goes(r, step) == op' = [op EXCEPT ![r].step = step]
Ends(r, step) == op' = [op EXCEPT ![r] = [Idle EXCEPT !.kind = op[r].kind, !.step = step]]

\* Every failure so far is forgiven, and the request r answers.
Forgives(r) ==
    /\ fails' = 0
    /\ op' = [q \in Requests |-> IF q = r THEN Idle ELSE [op[q] EXCEPT !.later = 0]]
Answers(r) == op' = [op EXCEPT ![r] = Idle]
At(r, kinds, step) == op[r].kind \in kinds /\ op[r].step = step

\* A write of the account fails, or not.
Fault == faults < MaxFaults /\ faults' = faults + 1
NoFault == UNCHANGED faults

Totp == {"login", "enable", "disable", "regenerate"}
Recovery == {"loginRecovery", "disableRecovery"}
Reading == {"enable", "disable", "disableRecovery", "regenerate"}
Kinds == Totp \cup Recovery \cup {"password"}

-----------------------------------------------------------------------------
(* Enrolment *)

\* mfaEnroll reads the account and answers with the secret that waits to be confirmed;
\* if there is none, it draws one.
Enroll(r) ==
    /\ op[r] = Idle /\ ~user.enabled /\ user.secret = None
    /\ op' = [op EXCEPT ![r] = [Idle EXCEPT !.kind = "enroll", !.step = "act"]]
    /\ UNCHANGED <<now, faults, user, history>>

\* The secret is stored unless one has been stored meanwhile.
EnrollWrites(r) ==
    /\ At(r, {"enroll"}, "act")
    /\ \E s \in Secrets \ drawn :
           IF ~user.enabled /\ user.secret = None
           THEN user' = [user EXCEPT !.secret = s] /\ drawn' = drawn \cup {s}
           ELSE UNCHANGED <<user, drawn>>
    /\ Answers(r)
    /\ UNCHANGED <<now, faults, uses, proved, origin, fails, unlocked>>

-----------------------------------------------------------------------------
(* The channel and its lock *)

\* The handlers begin by reading the account.
Begin(r) ==
    /\ op[r] = Idle
    /\ \E kind \in Kinds :
           /\ kind \in {"enable", "password"} => ~user.enabled
           /\ kind = "enable" => user.secret # None
           /\ kind \in Kinds \ {"enable", "password"} => user.enabled
           /\ op' = [op EXCEPT ![r] =
                  [@ EXCEPT !.kind = kind, !.step = "lock",
                            !.secret = IF kind \in Reading THEN user.secret ELSE None,
                            !.codes = IF kind \in {"regenerate", "loginRecovery"}
                                      THEN user.codes ELSE {},
                            !.counted = kind = "password" /\ user.failCount > 0]]
    /\ UNCHANGED <<now, faults, user, history>>

\* isMfaLocked
IsMfaLocked(r) ==
    /\ At(r, Kinds, "lock")
    /\ IF user.lockUntil > now THEN Answers(r)
       ELSE op' = [op EXCEPT ![r] =
                [@ EXCEPT !.step = IF user.lockUntil = 0 THEN "verify" ELSE "lazyReset",
                          !.lockUntil = user.lockUntil,
                          !.failCount = IF user.lockUntil = 0 THEN 0 ELSE user.failCount]]
    /\ UNCHANGED <<now, faults, user, history>>

\* What the lazy reset asks of the stored account.
SameLock(r) == user.lockUntil = op[r].lockUntil
SameLockAndCount(r) == SameLock(r) /\ user.failCount = op[r].failCount

LazyReset(r) ==
    /\ At(r, Kinds, "lazyReset")
    /\ \/ /\ NoFault /\ SameLockAndCount(r)
          /\ user' = [user EXCEPT !.failCount = 0, !.lockUntil = 0]
          /\ fails' = IF fails < op[r].later THEN fails ELSE op[r].later
       \/ NoFault /\ ~SameLockAndCount(r) /\ UNCHANGED <<user, fails>>
       \/ Fault /\ UNCHANGED <<user, fails>>
    /\ op' = [op EXCEPT ![r] =
           [@ EXCEPT !.step = "verify", !.lockUntil = 0, !.failCount = 0, !.later = 0]]
    /\ UNCHANGED <<now, drawn, uses, proved, origin, unlocked>>

\* recordMfaFailure: a counter that cannot be written counts as the limit.
RecordMfaFailure(r) ==
    /\ At(r, Kinds, "fail")
    /\ \/ /\ NoFault
          /\ user' = [user EXCEPT !.failCount = @ + 1]
          /\ fails' = fails + 1
          /\ op' = [q \in Requests |->
                 IF q # r THEN [op[q] EXCEPT !.later = IF op[q].step = "lazyReset" THEN @ + 1 ELSE @]
                 ELSE IF user'.failCount >= MaxFails THEN [op[r] EXCEPT !.step = "setLock"]
                 ELSE Idle]
       \/ Fault /\ UNCHANGED <<user, fails>> /\ Ends(r, "setLock")
    /\ UNCHANGED <<now, drawn, uses, proved, origin, unlocked>>

SetLock(r) ==
    /\ At(r, Kinds, "setLock")
    /\ \/ NoFault /\ user' = [user EXCEPT !.lockUntil = now + LockFor] /\ UNCHANGED unlocked
       \/ Fault /\ unlocked' = TRUE /\ UNCHANGED user
    /\ Answers(r)
    /\ UNCHANGED <<now, drawn, uses, proved, origin, fails>>

\* resetMfaFailures
ResetMfaFailures(r) ==
    /\ At(r, Kinds, "reset")
    /\ \/ NoFault /\ user' = [user EXCEPT !.failCount = 0, !.lockUntil = 0] /\ Forgives(r)
       \/ Fault /\ UNCHANGED <<user, fails>> /\ Answers(r)
    /\ UNCHANGED <<now, drawn, uses, proved, origin, unlocked>>

-----------------------------------------------------------------------------
(* Codes of the authenticator *)

\* At login and before sensitive operations the secret is read again after the lock.
Secret(r) ==
    IF op[r].kind = "login" THEN user.secret ELSE op[r].secret

\* verifyTotpDetailed: the code is of the secret and of a window next to this one.
Verify(r) ==
    /\ At(r, Totp, "verify")
    /\ \/ Ends(r, "fail")
       \/ \E w \in {now - 1, now, now + 1} :
              /\ Secret(r) # None
              /\ op' = [op EXCEPT ![r] = [@ EXCEPT !.step = "claim", !.with = w]]
    /\ UNCHANGED <<now, faults, user, history>>

\* What claimTotpWindow asks of the stored watermark.
NotBelow(r) == user.lastCounter <= op[r].with
Above(r) == user.lastCounter < op[r].with

\* claimTotpWindow, also in verifyTotpChallenge and verifyReauthMfa
ClaimTotpWindow(r) ==
    /\ At(r, Totp, "claim")
    /\ \/ /\ NoFault /\ Above(r)
          /\ user' = [user EXCEPT !.lastCounter = op[r].with]
          /\ uses' = [uses EXCEPT ![op[r].with] = @ + 1]
          /\ IF op[r].kind = "login" THEN Ends(r, "reset") ELSE Goes(r, "act")
       \/ (Fault \/ (NoFault /\ ~Above(r))) /\ UNCHANGED <<user, uses>> /\ Ends(r, "fail")
    /\ UNCHANGED <<now, drawn, proved, origin, fails, unlocked>>

\* verifyReauthPassword: an account without two-step verification
VerifyPassword(r) ==
    /\ At(r, {"password"}, "verify")
    /\ \/ Ends(r, "fail")
       \/ IF op[r].counted THEN Ends(r, "reset") ELSE Answers(r)
    /\ UNCHANGED <<now, faults, user, history>>

-----------------------------------------------------------------------------
(* Turning it on and off *)

Off == [enabled |-> FALSE, secret |-> None, codes |-> {}, failCount |-> 0, lockUntil |-> 0,
        lastCounter |-> user.lastCounter]

\* What the writes below ask of the stored secret.
AnySecret(r) == TRUE
SameSecret(r) == user.secret = op[r].secret

\* mfaEnable
Enable(r) ==
    /\ At(r, {"enable"}, "act")
    /\ IF ~user.enabled /\ SameSecret(r)
       THEN \E i \in Issues \ drawn :
                /\ user' = [user EXCEPT !.enabled = TRUE, !.codes = {i}]
                /\ drawn' = drawn \cup {i}
                /\ origin' = [origin EXCEPT ![i] = user.secret]
                /\ proved' = proved \cup {op[r].secret}
                /\ Ends(r, "reset")
       ELSE UNCHANGED <<user, drawn, origin, proved>> /\ Answers(r)
    /\ UNCHANGED <<now, faults, uses, fails, unlocked>>

\* disableWithSecondFactor; a failed write leaves it on
Disable(r) ==
    /\ At(r, {"disable"}, "act")
    /\ IF user.enabled /\ SameSecret(r)
       THEN user' = Off /\ Forgives(r)
       ELSE UNCHANGED <<user, fails>> /\ Answers(r)
    /\ UNCHANGED <<now, faults, drawn, uses, proved, origin, unlocked>>

\* disableWithRecoveryCode: the code is checked and spent by the write itself.
DisableWithRecoveryCode(r) ==
    /\ At(r, {"disableRecovery"}, "verify")
    /\ \/ \E i \in user.codes :
              /\ user.enabled /\ SameSecret(r)
              /\ user' = Off /\ Forgives(r)
              /\ uses' = [uses EXCEPT ![i] = @ + 1]
       \/ UNCHANGED <<user, fails, uses>> /\ Goes(r, "explain")
    /\ UNCHANGED <<now, faults, drawn, proved, origin, unlocked>>

\* A write that found nothing, or failed, is a wrong code if nothing else explains it.
DisableExplains(r) ==
    /\ At(r, {"disableRecovery"}, "explain")
    /\ IF user.enabled /\ SameSecret(r) THEN Ends(r, "fail") ELSE Answers(r)
    /\ UNCHANGED <<now, faults, user, history>>

\* resetUserMfa of securityController/admin
AdminReset ==
    /\ user.enabled
    /\ user' = Off /\ Forgives(None)
    /\ UNCHANGED <<now, faults, drawn, uses, proved, origin, unlocked>>

-----------------------------------------------------------------------------
(* Recovery codes *)

\* The codes the write of verifyRecoveryCodeChallenge looks in.
ReadCodes(r) == op[r].codes
StoredCodes(r) == user.codes

\* verifyRecoveryCodeChallenge
LoginWithRecoveryCode(r) ==
    /\ At(r, {"loginRecovery"}, "verify")
    /\ \/ \E i \in StoredCodes(r) :
              /\ user' = [user EXCEPT !.codes = @ \ {i}]
              /\ uses' = [uses EXCEPT ![i] = @ + 1]
              /\ Ends(r, "reset")
       \/ UNCHANGED <<user, uses>> /\ Ends(r, "fail")
    /\ UNCHANGED <<now, faults, drawn, proved, origin, fails, unlocked>>

\* regenerateRecoveryCodes
Regenerate(r) ==
    /\ At(r, {"regenerate"}, "act")
    /\ IF user.enabled /\ user.codes = op[r].codes
       THEN \E i \in Issues \ drawn :
                /\ user' = [user EXCEPT !.codes = {i}]
                /\ drawn' = drawn \cup {i}
                /\ origin' = [origin EXCEPT ![i] = user.secret]
                /\ Ends(r, "reset")
       ELSE UNCHANGED <<user, drawn, origin>> /\ Answers(r)
    /\ UNCHANGED <<now, faults, uses, proved, fails, unlocked>>

-----------------------------------------------------------------------------
Tick ==
    /\ now < MaxTime
    /\ now' = now + 1
    /\ UNCHANGED <<user, op, faults, history>>

Next ==
    \/ Tick \/ AdminReset
    \/ \E r \in Requests :
           \/ Enroll(r) \/ EnrollWrites(r) \/ Begin(r) \/ IsMfaLocked(r) \/ LazyReset(r)
           \/ Verify(r) \/ ClaimTotpWindow(r) \/ VerifyPassword(r)
           \/ Enable(r) \/ Disable(r) \/ DisableWithRecoveryCode(r) \/ DisableExplains(r)
           \/ LoginWithRecoveryCode(r) \/ Regenerate(r)
           \/ RecordMfaFailure(r) \/ SetLock(r) \/ ResetMfaFailures(r)

Spec == Init /\ [][Next]_vars

-----------------------------------------------------------------------------
(* Properties *)

UserType ==
    [enabled : BOOLEAN, secret : Secrets \cup {None}, codes : SUBSET Issues,
     failCount : Nat, lockUntil : Nat, lastCounter : Windows]
Steps == {"none", "act", "lock", "verify", "lazyReset", "claim", "explain", "fail", "setLock",
          "reset"}
OpType ==
    [kind : Kinds \cup {"none", "enroll"}, step : Steps, secret : Secrets \cup {None},
     codes : SUBSET Issues, counted : BOOLEAN, lockUntil : Nat, failCount : Nat,
     with : Windows \cup {None}, later : Nat]

\* A request that claims a window knows which.
OpTypeOK ==
    /\ op \in [Requests -> OpType]
    /\ \A r \in Requests : op[r].step = "claim" => op[r].with \in Windows

\* What each variable holds.
SecondFactorTypeOK ==
    /\ now \in 1..MaxTime /\ user \in UserType /\ OpTypeOK
    /\ uses \in [Windows \cup Issues -> Nat] /\ origin \in [Issues -> Secrets \cup {None}]
    /\ drawn \subseteq Secrets \cup Issues /\ proved \subseteq Secrets \cup {None}
    /\ fails \in Nat /\ unlocked \in BOOLEAN /\ faults \in Nat

\* No code of the authenticator and no recovery code is accepted twice, whether at
\* login, before a sensitive operation, or to turn two-step verification on or off.
UsedOnce == \A x \in DOMAIN uses : uses[x] <= 1

\* Two-step verification is on only with a secret of which the account has shown a
\* code, though the secret may have been replaced while the code was being checked.
EnabledWasProved == user.enabled => user.secret \in proved

\* A request that turns it off has shown a code of the secret in force, or a recovery
\* code issued with it, and not of one that was in force before.
DisabledByItsFactor ==
    [][\A r \in Requests :
           (Disable(r) \/ DisableWithRecoveryCode(r)) /\ user.enabled /\ ~user'.enabled =>
               \/ op[r].kind = "disable" /\ op[r].secret = user.secret
               \/ \E i \in Issues : uses'[i] > uses[i] /\ origin[i] = user.secret]_vars

\* A failure is forgotten only by a success, or by a lazy reset of the lock it came
\* before; MFA_MAX_FAILS of them lock the channel, or are about to.
FailuresLock ==
    /\ user.failCount >= fails
    /\ fails >= MaxFails =>
           user.lockUntil # 0 \/ unlocked \/ \E r \in Requests : op[r].step = "setLock"
=============================================================================
