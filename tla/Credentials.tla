---------------------------- MODULE Credentials ----------------------------
(***************************************************************************)
(* The credentials of one user: the rows of auth.auth_methods (the login   *)
(* methods and the TOTP factors), the passkeys, users.is_mfa_enabled and   *)
(* password_hash, the recovery codes, and what the second factor keeps in  *)
(* Redis (staged enrolments, MFA sessions, the attempt counter and the     *)
(* codes already seen).                                                    *)
(*                                                                         *)
(* TOTP secrets are 1..NTotp in the order enrollInit generates them; each  *)
(* has one code (a later code of the same secret is another such number)   *)
(* and its enrolment one recovery code.  A request presents a code, right  *)
(* or wrong.  A transaction is one step per statement others can observe.  *)
(***************************************************************************)
EXTENDS Naturals, FiniteSets

CONSTANTS
    Proc,          \* concurrent requests
    Logins,        \* rows of a login-capable type
    Password,      \* the one of type PASSWORD
    Passkeys,
    NTotp,         \* bound: TOTP secrets ever generated
    Tickets,       \* bound: MFA sessions ever created
    MaxAttempts,   \* MAX_MFA_VERIFICATION_ATTEMPTS
    None

ASSUME PasswordAssumption == Password \in Logins

ASSUME BoundsAssumption == NTotp \in Nat /\ MaxAttempts \in Nat

Totps == 1..NTotp

\* Rows of different kinds are different rows.
ASSUME KindsAssumption ==
    None \notin Proc \cup Tickets /\ Logins \cap Totps = {}

VARIABLES
    methods,   \* login methods with an active row (revoked_at IS NULL)
    totps,     \* secrets with an active MFA_TOTP row
    keys,      \* active passkeys
    hash,      \* users.password_hash is set
    mfa,       \* users.is_mfa_enabled
    rcode,     \* secret -> the recovery code of its enrolment
    requires,  \* an organization of the user requires MFA
    stage,     \* the secret staged in Redis, 0 when none
    made,      \* secrets generated
    ticket,    \* MFA session -> none, open or spent
    attempts,  \* the counter of verification attempts
    seen,      \* secrets whose code has been consumed (replay key)
    mlock,     \* holder of the credential-mutation lock
    op,        \* request -> what it does
    pc,        \* request -> its next step
    arg,       \* request -> the row, passkey or code it is about
    tick,      \* request -> the MFA session it has taken
    listed,    \* request -> the TOTP rows it has read as active
    counted,   \* history: requests counted in the current window
    tried,     \* history: codes compared in the current window
    grants,    \* history: <<kind, one-time thing>> -> successes it gave
    strayed    \* history: a TOTP row was removed as a plain auth method

accounts == <<methods, totps, keys, hash, mfa, rcode>>
redis == <<stage, made, ticket, attempts, seen>>
local == <<op, pc, arg, tick, listed>>
history == <<counted, tried, grants, strayed>>
vars == <<accounts, requires, redis, mlock, local, history>>

Ops == {"none", "mfa_login", "step_up", "enroll", "delete_mfa", "delete", "revoke_passkey"}
Steps == {"idle", "attempt", "compare", "replay", "recover", "finish", "lock", "revoke", "commit"}
OneTime == ({"code", "recovery"} \X Totps) \cup ({"session"} \X Tickets)

TypeOK ==
    /\ methods \in SUBSET Logins
    /\ totps \in SUBSET Totps
    /\ keys \in SUBSET Passkeys
    /\ hash \in BOOLEAN /\ mfa \in BOOLEAN /\ requires \in BOOLEAN
    /\ rcode \in [Totps -> {"absent", "unused", "used"}]
    /\ stage \in 0..NTotp /\ made \in 0..NTotp
    /\ ticket \in [Tickets -> {"none", "open", "spent"}]
    /\ attempts \in 0..MaxAttempts + 1
    /\ seen \in SUBSET Totps
    /\ mlock \in Proc \cup {None}
    /\ op \in [Proc -> Ops] /\ pc \in [Proc -> Steps]
    /\ arg \in [Proc -> 0..NTotp \cup Logins \cup Passkeys]
    /\ tick \in [Proc -> Tickets \cup {None}]
    /\ listed \in [Proc -> SUBSET Totps]
    /\ counted \in SUBSET Proc
    /\ tried \in Nat
    /\ grants \in [OneTime -> Nat]
    /\ strayed \in BOOLEAN

\* A user who has signed up with one of the login methods.
Init ==
    /\ \E m \in Logins : methods = {m} /\ hash = (m = Password)
    /\ totps = {} /\ keys = {}
    /\ mfa = FALSE
    /\ rcode = [n \in Totps |-> "absent"]
    /\ requires \in BOOLEAN
    /\ stage = 0 /\ made = 0
    /\ ticket = [k \in Tickets |-> "none"]
    /\ attempts = 0
    /\ seen = {}
    /\ mlock = None
    /\ op = [p \in Proc |-> "none"] /\ pc = [p \in Proc |-> "idle"]
    /\ arg = [p \in Proc |-> 0]
    /\ tick = [p \in Proc |-> None]
    /\ listed = [p \in Proc |-> {}]
    /\ counted = {} /\ tried = 0
    /\ grants = [x \in OneTime |-> 0]
    /\ strayed = FALSE

Go(p, next) == pc' = [pc EXCEPT ![p] = next]

Begin(p, what, next, x) ==
    /\ pc[p] = "idle"
    /\ op' = [op EXCEPT ![p] = what]
    /\ arg' = [arg EXCEPT ![p] = x]
    /\ Go(p, next)

\* The request is over, answered or refused.
Reset(p) ==
    /\ op' = [op EXCEPT ![p] = "none"]
    /\ pc' = [pc EXCEPT ![p] = "idle"]
    /\ arg' = [arg EXCEPT ![p] = 0]
    /\ tick' = [tick EXCEPT ![p] = None]
    /\ listed' = [listed EXCEPT ![p] = {}]

Unlock(p) == mlock' = IF mlock = p THEN None ELSE mlock

\* Postgres: the row x has been updated by a transaction that is still open.
RowFree(x) == \A q \in Proc : ~(op[q] \in {"delete", "delete_mfa"} /\ pc[q] = "commit" /\ arg[q] = x)

-----------------------------------------------------------------------------
(* verifyLoginMfa and verify.                                              *)

\* completeFirstFactorAuth asks for the second factor (createMfaSession).
IssueTicket(k) ==
    /\ ticket[k] = "none"
    /\ mfa \/ requires
    /\ ticket' = [ticket EXCEPT ![k] = "open"]
    /\ UNCHANGED <<accounts, requires, stage, made, attempts, seen, mlock, local, history>>

\* Mutant: GET and DEL are two commands, and the DEL comes too late.
TakeTicketAgain(p, k, x, next) ==
    /\ ticket[k] = "open"
    /\ Begin(p, "mfa_login", next, x)
    /\ tick' = [tick EXCEPT ![p] = k]
    /\ UNCHANGED <<accounts, requires, redis, mlock, listed, history>>

\* verifyMfaSession (GETDEL); the request carries a TOTP or a recovery code x.
TakeTicket(p, k, x, next) ==
    /\ ticket[k] = "open"
    /\ ticket' = [ticket EXCEPT ![k] = "spent"]
    /\ Begin(p, "mfa_login", next, x)
    /\ tick' = [tick EXCEPT ![p] = k]
    /\ UNCHANGED <<accounts, requires, stage, made, attempts, seen, mlock, listed, history>>

StepUp(p, x) ==
    /\ Begin(p, "step_up", "attempt", x)
    /\ UNCHANGED <<accounts, requires, redis, mlock, tick, listed, history>>

\* Mutant: the counter is read here and incremented when the code was wrong.
AttemptReads(p) ==
    /\ pc[p] = "attempt"
    /\ IF attempts >= MaxAttempts THEN Reset(p) ELSE Go(p, "compare") /\ UNCHANGED <<op, arg, tick, listed>>
    /\ counted' = counted \cup {p}
    /\ UNCHANGED <<accounts, requires, redis, mlock, tried, grants, strayed>>

\* consumeMfaVerificationAttempt.  Bound: the counter stops at MaxAttempts + 1.
Attempt(p) ==
    /\ pc[p] = "attempt"
    /\ attempts' = IF attempts > MaxAttempts THEN attempts ELSE attempts + 1
    /\ \/ /\ attempts < MaxAttempts
          /\ Go(p, "compare")
          /\ counted' = counted \cup {p}
          /\ UNCHANGED <<op, arg, tick, listed>>
       \/ attempts >= MaxAttempts /\ Reset(p) /\ UNCHANGED counted
    /\ UNCHANGED <<accounts, requires, stage, made, ticket, seen, mlock,
                   tried, grants, strayed>>

\* findTotpByUserId and the comparison: the code fits the active secret only.
Compare(p) ==
    /\ pc[p] = "compare"
    /\ tried' = IF p \in counted THEN tried + 1 ELSE tried
    /\ \/ arg[p] \in totps /\ Go(p, "replay") /\ UNCHANGED <<op, arg, tick, listed>>
       \/ arg[p] \notin totps /\ Reset(p)
    /\ UNCHANGED <<accounts, requires, redis, mlock, counted, grants, strayed>>

\* rejectReplayedTotpCode (SET NX).
Replay(p) ==
    /\ pc[p] = "replay"
    /\ \/ /\ arg[p] \notin seen
          /\ seen' = seen \cup {arg[p]}
          /\ Go(p, IF op[p] = "enroll" THEN "lock" ELSE "finish")
          /\ UNCHANGED <<op, arg, tick, listed>>
       \/ arg[p] \in seen /\ Reset(p) /\ UNCHANGED seen
    /\ UNCHANGED <<accounts, requires, stage, made, ticket, attempts, mlock, history>>

\* consumeMfaRecoveryCode (UPDATE ... WHERE used_at IS NULL).
Recover(p) ==
    /\ pc[p] = "recover"
    /\ \/ /\ arg[p] \in Totps /\ rcode[arg[p]] = "unused"
          /\ rcode' = [rcode EXCEPT ![arg[p]] = "used"]
          /\ Go(p, "finish")
          /\ listed' = [listed EXCEPT ![p] = {arg[p]}]
          /\ UNCHANGED <<op, arg, tick>>
       \/ ~(arg[p] \in Totps /\ rcode[arg[p]] = "unused") /\ Reset(p) /\ UNCHANGED rcode
    /\ UNCHANGED <<methods, totps, keys, hash, mfa, requires, redis, mlock, history>>

\* What the request has consumed; a recovery code is noted in listed.
Consumed(p) ==
    {<<IF listed[p] = {} THEN "code" ELSE "recovery", arg[p]>>}
        \cup (IF tick[p] = None THEN {} ELSE {<<"session", tick[p]>>})

\* The counter is cleared and the session issued (createSessionForUser), or
\* the step-up confirmed.
Finish(p) ==
    /\ pc[p] = "finish"
    /\ attempts' = 0 /\ counted' = {} /\ tried' = 0
    /\ grants' = [x \in OneTime |-> IF x \in Consumed(p) THEN grants[x] + 1 ELSE grants[x]]
    /\ Reset(p)
    /\ UNCHANGED <<accounts, requires, stage, made, ticket, seen, mlock, strayed>>

-----------------------------------------------------------------------------
(* enrollInit, enrollConfirm and deleteMfa.                                *)

\* Bound: one secret more.  An earlier staged secret is overwritten.
EnrollInit ==
    /\ made < NTotp
    /\ made' = made + 1
    /\ stage' = made + 1
    /\ UNCHANGED <<accounts, requires, ticket, attempts, seen, mlock, local, history>>

\* GETDEL of the staged secret; a wrong code ends the request.
EnrollTake(p) ==
    /\ stage # 0
    /\ stage' = 0
    /\ \/ Begin(p, "enroll", "replay", stage)
       \/ pc[p] = "idle" /\ UNCHANGED <<op, pc, arg>>
    /\ UNCHANGED <<accounts, requires, made, ticket, attempts, seen, mlock, tick, listed, history>>

\* The credential-mutation lock, then the list of the active TOTP rows.
EnrollLock(p) ==
    /\ pc[p] = "lock"
    /\ mlock = None
    /\ mlock' = p
    /\ listed' = [listed EXCEPT ![p] = totps]
    /\ Go(p, "commit")
    /\ UNCHANGED <<accounts, requires, redis, op, arg, tick, history>>

\* Mutant: the recovery codes of the replaced enrolment stay usable.
RcodesKept(n) == [rcode EXCEPT ![n] = "unused"]

\* invalidateAllUnusedRecoveryCodesForUser and insertMfaRecoveryCodes.
Rcodes(n) ==
    [m \in Totps |-> IF m = n THEN "unused" ELSE IF rcode[m] = "unused" THEN "used" ELSE rcode[m]]

EnrollCommit(p) ==
    /\ op[p] = "enroll" /\ pc[p] = "commit"
    /\ \A n \in listed[p] : RowFree(n)
    /\ totps' = (totps \ listed[p]) \cup {arg[p]}
    /\ rcode' = Rcodes(arg[p])
    /\ mfa' = TRUE
    /\ Unlock(p)
    /\ Reset(p)
    /\ UNCHANGED <<methods, keys, hash, requires, redis, history>>

\* Mutant: the lock is not taken.
DeleteMfaUnlocked(p, n) ==
    /\ n \in totps
    /\ Cardinality(totps) <= 1 => ~requires
    /\ Begin(p, "delete_mfa", "revoke", n)
    /\ UNCHANGED <<accounts, requires, redis, mlock, tick, listed, history>>

\* Under the lock: the row, the count and the organizations' policy.
DeleteMfa(p, n) ==
    /\ mlock = None
    /\ n \in totps
    /\ Cardinality(totps) <= 1 => ~requires
    /\ mlock' = p
    /\ Begin(p, "delete_mfa", "revoke", n)
    /\ UNCHANGED <<accounts, requires, redis, tick, listed, history>>

\* The UPDATE of the row, and the list of the rows that remain.
DeleteMfaRevoke(p) ==
    /\ pc[p] = "revoke"
    /\ RowFree(arg[p])
    /\ listed' = [listed EXCEPT ![p] = totps \ {arg[p]}]
    /\ Go(p, "commit")
    /\ UNCHANGED <<accounts, requires, redis, mlock, op, arg, tick, history>>

\* updateMfaEnabled(false) when none remains, and the commit.
DeleteMfaCommit(p) ==
    /\ op[p] = "delete_mfa" /\ pc[p] = "commit"
    /\ totps' = totps \ {arg[p]}
    /\ mfa' = (mfa /\ listed[p] # {})
    /\ Unlock(p)
    /\ Reset(p)
    /\ UNCHANGED <<methods, keys, hash, rcode, requires, redis, history>>

-----------------------------------------------------------------------------
(* Linked methods and passkeys.                                            *)

\* create, linkOAuthProviderIfMissing: one row more.  The second takes neither
\* the lock nor the cap on linked methods, so the model asks for neither.
AddMethod(m) ==
    /\ m # Password
    /\ m \notin methods
    /\ RowFree(m)
    /\ methods' = methods \cup {m}
    /\ UNCHANGED <<totps, keys, hash, mfa, rcode, requires, redis, mlock, local, history>>

\* The WHERE clause of revokeUnlessLastLoginCapable, over committed rows.
MayRevoke(m) ==
    \/ m \in totps
    \/ m \in methods /\ methods # {m}

\* AuthMethodService.delete: the UPDATE, not yet committed.
Delete(p, m) ==
    /\ MayRevoke(m)
    /\ RowFree(m)
    /\ Begin(p, "delete", "commit", m)
    /\ UNCHANGED <<accounts, requires, redis, mlock, tick, listed, history>>

\* clearPasswordHash goes with the row of type PASSWORD.
DeleteCommit(p) ==
    /\ op[p] = "delete" /\ pc[p] = "commit"
    /\ IF arg[p] \in Totps
       THEN totps' = totps \ {arg[p]} /\ strayed' = TRUE /\ UNCHANGED <<methods, hash>>
       ELSE /\ methods' = methods \ {arg[p]}
            /\ hash' = (hash /\ arg[p] # Password)
            /\ UNCHANGED <<totps, strayed>>
    /\ Reset(p)
    /\ UNCHANGED <<keys, mfa, rcode, requires, redis, mlock, counted, tried, grants>>

\* verifyRegistration.
RegisterPasskey(k) ==
    /\ k \notin keys
    /\ keys' = keys \cup {k}
    /\ UNCHANGED <<methods, totps, hash, mfa, rcode, requires, redis, mlock, local, history>>

\* revokeCredential under the lock: the last passkey needs another login method.
RevokePasskey(p, k) ==
    /\ mlock = None
    /\ k \in keys
    /\ keys = {k} => methods # {}
    /\ mlock' = p
    /\ Begin(p, "revoke_passkey", "commit", k)
    /\ UNCHANGED <<accounts, requires, redis, tick, listed, history>>

RevokePasskeyCommit(p) ==
    /\ op[p] = "revoke_passkey" /\ pc[p] = "commit"
    /\ keys' = keys \ {arg[p]}
    /\ Unlock(p)
    /\ Reset(p)
    /\ UNCHANGED <<methods, totps, hash, mfa, rcode, requires, redis, history>>

-----------------------------------------------------------------------------
(* The environment.                                                        *)

\* The lockout window ends.
CounterExpires ==
    /\ attempts > 0
    /\ attempts' = 0 /\ counted' = {} /\ tried' = 0
    /\ UNCHANGED <<accounts, requires, stage, made, ticket, seen, mlock, local,
                   grants, strayed>>

\* The process serving p dies; an open transaction rolls back.
Crash(p) ==
    /\ pc[p] # "idle"
    /\ Unlock(p)
    /\ Reset(p)
    /\ UNCHANGED <<accounts, requires, redis, history>>

Next ==
    \/ \E p \in Proc :
        \/ Attempt(p) \/ Compare(p) \/ Replay(p) \/ Recover(p) \/ Finish(p)
        \/ EnrollTake(p) \/ EnrollLock(p) \/ EnrollCommit(p)
        \/ DeleteMfaRevoke(p) \/ DeleteMfaCommit(p)
        \/ DeleteCommit(p) \/ RevokePasskeyCommit(p) \/ Crash(p)
        \/ \E x \in 0..NTotp :
            \/ StepUp(p, x)
            \/ \E k \in Tickets, next \in {"attempt", "recover"} : TakeTicket(p, k, x, next)
        \/ \E n \in Totps : DeleteMfa(p, n)
        \/ \E m \in Totps \cup Logins : Delete(p, m)
        \/ \E k \in Passkeys : RevokePasskey(p, k)
    \/ EnrollInit \/ CounterExpires
    \/ \E k \in Tickets : IssueTicket(k)
    \/ \E m \in Logins : AddMethod(m)
    \/ \E k \in Passkeys : RegisterPasskey(k)

Spec == Init /\ [][Next]_vars

-----------------------------------------------------------------------------
(* Properties.                                                             *)

\* auth-mfa.service "leave is_mfa_enabled inconsistent with the actual method
\* rows": the login asks for a second factor exactly when there is one to
\* answer with, however enrolments and deletions interleave, unless its row
\* was removed through AuthMethodService.delete, which leaves the flag.
FlagMatchesTotp ==
    /\ totps # {} => mfa
    /\ mfa => totps # {} \/ strayed

\* A code, a recovery code and an MFA session each succeed at most once,
\* however many requests present them at the same time.
SingleUse == \A x \in OneTime : grants[x] <= 1

\* consumeMfaVerificationAttempt: in one lockout window no more than
\* MAX_MFA_VERIFICATION_ATTEMPTS codes are compared, also by a burst.
AttemptBudget == tried <= MaxAttempts

\* enrollConfirm: an enrolment that replaces another leaves none of the old
\* recovery codes usable.
OldCodesDie == Cardinality({n \in Totps : rcode[n] = "unused"}) <= 1

\* auth-method.service and revokeUnlessLastLoginCapable: "two concurrent
\* deletes cannot each see 'one other left' and both succeed".  They can: the
\* UPDATE of each looks at the rows the other has not committed yet.
LoginMethodKept == methods # {}
=============================================================================
