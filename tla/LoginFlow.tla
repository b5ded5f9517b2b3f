------------------------------- MODULE LoginFlow -------------------------------
(***************************************************************************)
(* Logging in: backend/src/auth/routes.js up to the session, with the      *)
(* per-account lockout of lockout.js and the backup codes of totp.js.      *)
(*                                                                         *)
(* A right password opens a pending login.  Depending on the account it is *)
(* exchanged, together with a code, for the enrolment of an authenticator  *)
(* and a first session, or for a session.  Every password or backup code   *)
(* is checked by argon2 on another thread: the handler awaits it, and      *)
(* other handlers run meanwhile.  Those handlers are two steps here, begun *)
(* and ended, with what they carry across the await in `call'.  Everything *)
(* else runs without a break.                                              *)
(*                                                                         *)
(* Passwords, codes and secrets are only right or wrong.  A name without   *)
(* an account only ever meets the failing branch, with the same lockout.   *)
(***************************************************************************)
EXTENDS Naturals, FiniteSets

CONSTANTS
    Users,
    Secrets,        \* TOTP secrets that may be generated
    Codes,          \* backup codes that may be generated, each only once
    Pendings,       \* ids of pending logins, each only once
    Slots,          \* names for the handlers under way
    None,
    CodesPerUser,   \* generateBackupCodes(count = 10)
    MaxAttempts,    \* MAX_ATTEMPTS of lockout.js
    Restarts        \* whether the process may die and be restarted

ASSUME Sizes ==
    /\ CodesPerUser \in Nat \ {0}
    /\ MaxAttempts \in Nat \ {0}
    /\ Restarts \in BOOLEAN
    /\ None \notin Secrets
    /\ IsFiniteSet(Slots)

VARIABLES
    secret,     \* users.totp_secret_enc
    enabled,    \* users with totp_enabled = 1
    codes,      \* codes[u]: the rows of backup_codes of user u
    used,       \* codes whose used_at is set
    pending,    \* pending[p]: a row of pending_logins, or None
    failures,   \* lockout.js: entry.count, which beyond MaxAttempts only
                \*   lengthens the lock and is not counted on
    locked,     \* names whose lockedUntil is still to come
    call,       \* call[s]: a handler waiting for argon2, or None
    sessions,   \* history: sessions[p] sessions were issued for pending login p
    spent,      \* history: spent[c] sessions were issued for backup code c
    together,   \* history: codes typed into a verification while another one
                \*   of the same code was under way
    cutOff,     \* history: users whose confirmation a restart has cut off
    wrongPasswords, \* history: wrong passwords for a name since a right one
    wrongCodes, \* history: wrong second factors for a name; both are counted
                \*   since its last session by a second factor, the end of
                \*   its last lock, or the start of the process
    cleared     \* history: names with wrong second factors whose count a
                \*   right password has cleared since

vars == <<secret, enabled, codes, used, pending, failures, locked, call,
          sessions, spent, together, cutOff, wrongPasswords, wrongCodes, cleared>>
account == <<secret, enabled, codes, used>>
lockout == <<failures, locked, wrongPasswords, wrongCodes, cleared>>
history == <<sessions, spent, together, cutOff>>

(* gone: the row was deleted; its id is kept, as ids do not come back.     *)
Pending == [user : Users, expired : BOOLEAN, gone : BOOLEAN]

(* right: the password is the account's; code and unused: the backup code  *)
(* typed and the rows it is compared with; a confirmation has no further   *)
(* state than how many codes it has stored, which is codes[user].          *)
Call ==
    [kind : {"login"}, user : Users, right : BOOLEAN]
        \cup [kind : {"confirm"}, user : Users, pending : Pendings]
        \cup [kind : {"verify"}, user : Users, pending : Pendings,
              code : Codes, unused : SUBSET Codes]

ASSUME NoneIsNothing == None \notin Pending \cup Call

TypeOK ==
    /\ secret \in [Users -> Secrets \cup {None}]
    /\ enabled \subseteq Users
    /\ codes \in [Users -> SUBSET Codes]
    /\ used \subseteq Codes
    /\ pending \in [Pendings -> Pending \cup {None}]
    /\ failures \in [Users -> 0 .. MaxAttempts]
    /\ locked \subseteq Users
    /\ call \in [Slots -> Call \cup {None}]
    /\ sessions \in [Pendings -> Nat]
    /\ spent \in [Codes -> Nat]
    /\ together \subseteq Codes
    /\ cutOff \subseteq Users
    /\ wrongPasswords \in [Users -> Nat]
    /\ wrongCodes \in [Users -> Nat]
    /\ cleared \subseteq Users

Init ==
    /\ secret = [u \in Users |-> None]
    /\ enabled = {}
    /\ codes = [u \in Users |-> {}]
    /\ used = {}
    /\ pending = [p \in Pendings |-> None]
    /\ failures = [u \in Users |-> 0]
    /\ locked = {}
    /\ call = [s \in Slots |-> None]
    /\ sessions = [p \in Pendings |-> 0]
    /\ spent = [c \in Codes |-> 0]
    /\ together = {}
    /\ cutOff = {}
    /\ wrongPasswords = [u \in Users |-> 0]
    /\ wrongCodes = [u \in Users |-> 0]
    /\ cleared = {}

Exists(p) == pending[p] # None /\ ~pending[p].gone
Open(p) == Exists(p) /\ ~pending[p].expired
Stored == UNION {codes[u] : u \in Users}

--------------------------------------------------------------------------------
(* lockout.js                                                              *)
RecordFailureLate(u) ==
    /\ failures' = [failures EXCEPT ![u] = IF @ < MaxAttempts THEN @ + 1 ELSE @]
    /\ locked' = IF failures[u] >= MaxAttempts THEN locked \cup {u} ELSE locked

RecordFailure(u) ==
    /\ failures' = [failures EXCEPT ![u] = IF @ < MaxAttempts THEN @ + 1 ELSE @]
    /\ locked' = IF failures[u] + 1 >= MaxAttempts THEN locked \cup {u} ELSE locked

RecordSuccess(u) ==
    /\ failures' = [failures EXCEPT ![u] = 0]
    /\ locked' = locked \ {u}

(* The histories of both factors start again.                              *)
Afresh(u) ==
    /\ wrongPasswords' = [wrongPasswords EXCEPT ![u] = 0]
    /\ wrongCodes' = [wrongCodes EXCEPT ![u] = 0]
    /\ cleared' = cleared \ {u}

(* One count and one lock serve both factors.  A right password clears     *)
(* them (routes.js:98), although the second factor is still to come; only  *)
(* the histories tell the factors apart.                                   *)
WrongPassword(u) ==
    /\ RecordFailure(u)
    /\ wrongPasswords' = [wrongPasswords EXCEPT ![u] = @ + 1]
    /\ UNCHANGED <<wrongCodes, cleared>>

WrongCode(u) ==
    /\ RecordFailure(u)
    /\ wrongCodes' = [wrongCodes EXCEPT ![u] = @ + 1]
    /\ UNCHANGED <<wrongPasswords, cleared>>

RightPassword(u) ==
    /\ RecordSuccess(u)
    /\ wrongPasswords' = [wrongPasswords EXCEPT ![u] = 0]
    /\ cleared' = IF wrongCodes[u] > 0 THEN cleared \cup {u} ELSE cleared
    /\ UNCHANGED wrongCodes

RightCode(u) == RecordSuccess(u) /\ Afresh(u)

(* lockedUntil passes; the count stays, so the next failure locks again.   *)
LockPasses(u) ==
    /\ u \in locked
    /\ locked' = locked \ {u}
    /\ Afresh(u)
    /\ UNCHANGED <<account, pending, failures, call, history>>

(* consumePendingLogin deletes a row it finds, expired or not.             *)
ConsumeNothing(p) == Exists(p) /\ UNCHANGED pending

Consume(p) == Exists(p) /\ pending' = [pending EXCEPT ![p].gone = TRUE]

(* issueSessionForUser; the session itself is RefreshTokens' business.     *)
IssueSession(p) == sessions' = [sessions EXCEPT ![p] = @ + 1]

Begin(s, rec) == call[s] = None /\ call' = [call EXCEPT ![s] = rec]
End(s) == call' = [call EXCEPT ![s] = None]
Doing(s, kind) == call[s] # None /\ call[s].kind = kind

--------------------------------------------------------------------------------
(* POST /login up to verifyPassword.  A locked name is refused before.     *)
Login(s, u) ==
    /\ u \notin locked
    /\ \E right \in BOOLEAN : Begin(s, [kind |-> "login", user |-> u, right |-> right])
    /\ UNCHANGED <<account, pending, lockout, history>>

LoginFails(s) ==
    /\ Doing(s, "login") /\ ~call[s].right
    /\ WrongPassword(call[s].user)
    /\ End(s)
    /\ UNCHANGED <<account, pending, history>>

(* createPendingLogin                                                      *)
LoginSucceeds(s) ==
    /\ Doing(s, "login") /\ call[s].right
    /\ RightPassword(call[s].user)
    /\ \E p \in Pendings :
          /\ pending[p] = None
          /\ pending' = [pending EXCEPT
                ![p] = [user |-> call[s].user, expired |-> FALSE, gone |-> FALSE]]
    /\ End(s)
    /\ UNCHANGED <<account, history>>

PendingExpires(p) ==
    /\ Open(p)
    /\ pending' = [pending EXCEPT ![p].expired = TRUE]
    /\ UNCHANGED <<account, lockout, call, history>>

--------------------------------------------------------------------------------
(* POST /totp/setup/init: a new secret, as often as it is asked for, until *)
(* one of them is confirmed.                                               *)
SetupInitAlways(p) ==
    /\ Open(p)
    /\ \E k \in Secrets \ {secret[pending[p].user]} :
          secret' = [secret EXCEPT ![pending[p].user] = k]
    /\ UNCHANGED <<enabled, codes, used, pending, lockout, call, history>>

SetupInit(p) ==
    /\ Open(p)
    /\ pending[p].user \notin enabled
    /\ \E k \in Secrets \ {secret[pending[p].user]} :
          secret' = [secret EXCEPT ![pending[p].user] = k]
    /\ UNCHANGED <<enabled, codes, used, pending, lockout, call, history>>

(* POST /totp/setup/confirm with a code of secret k: right if k is the     *)
(* secret of the account now, and not that of an earlier QR code.          *)
ConfirmFits(p, k) ==
    /\ ~pending[p].expired
    /\ pending[p].user \notin enabled
    /\ k = secret[pending[p].user]

ConfirmRefused(p, k) ==
    /\ Consume(p)
    /\ ~ConfirmFits(p, k)
    /\ UNCHANGED <<account, lockout, call, history>>

(* ... up to the first hashBackupCode.                                     *)
ConfirmEnablesLater(s, p, k) ==
    /\ Consume(p)
    /\ ConfirmFits(p, k)
    /\ Begin(s, [kind |-> "confirm", user |-> pending[p].user, pending |-> p])
    /\ UNCHANGED <<account, lockout, history>>

Confirm(s, p, k) ==
    /\ Consume(p)
    /\ ConfirmFits(p, k)
    /\ enabled' = enabled \cup {pending[p].user}
    /\ Begin(s, [kind |-> "confirm", user |-> pending[p].user, pending |-> p])
    /\ UNCHANGED <<secret, codes, used, lockout, history>>

(* One code is hashed and inserted; after the last one the session is      *)
(* issued and the codes are shown.                                         *)
StoreCode(s) ==
    LET u == call[s].user IN
    /\ Doing(s, "confirm")
    /\ \E c \in Codes \ Stored : codes' = [codes EXCEPT ![u] = @ \cup {c}]
    /\ IF Cardinality(codes'[u]) < CodesPerUser
       THEN UNCHANGED <<call, sessions>>
       ELSE End(s) /\ IssueSession(call[s].pending)
    /\ UNCHANGED <<secret, enabled, used, pending, lockout, spent, together, cutOff>>

--------------------------------------------------------------------------------
(* POST /totp/verify: what stops it before any code is looked at.          *)
VerifyFits(p) ==
    /\ ~pending[p].expired
    /\ pending[p].user \in enabled
    /\ pending[p].user \notin locked

VerifyRefused(p) ==
    /\ Consume(p)
    /\ ~VerifyFits(p)
    /\ UNCHANGED <<account, lockout, call, history>>

(* With six digits: the code is checked on the spot.                       *)
VerifyTotp(p) ==
    /\ Consume(p)
    /\ VerifyFits(p)
    /\ \/ RightCode(pending[p].user) /\ IssueSession(p)
       \/ WrongCode(pending[p].user) /\ UNCHANGED sessions
    /\ UNCHANGED <<account, call, spent, together, cutOff>>

(* With a backup code: the unused codes are read, then compared one after  *)
(* the other.  When there is none the call fails at once.                  *)
Verifying(c) == \E s \in Slots : Doing(s, "verify") /\ call[s].code = c

UnusedForgotten(u) == codes[u]

Unused(u) == codes[u] \ used

VerifyCode(s, p, c) ==
    /\ Consume(p)
    /\ VerifyFits(p)
    /\ LET u == pending[p].user IN
       IF Unused(u) = {}
       THEN WrongCode(u) /\ UNCHANGED <<call, together>>
       ELSE /\ Begin(s, [kind |-> "verify", user |-> u, pending |-> p,
                         code |-> c, unused |-> Unused(u)])
            /\ together' = IF Verifying(c) THEN together \cup {c} ELSE together
            /\ UNCHANGED lockout
    /\ UNCHANGED <<account, sessions, spent, cutOff>>

CodeAccepted(s) ==
    LET c == call[s].code IN
    /\ Doing(s, "verify") /\ c \in call[s].unused
    /\ used' = used \cup {c}
    /\ spent' = [spent EXCEPT ![c] = @ + 1]
    /\ RightCode(call[s].user)
    /\ IssueSession(call[s].pending)
    /\ End(s)
    /\ UNCHANGED <<secret, enabled, codes, pending, together, cutOff>>

CodeRejected(s) ==
    /\ Doing(s, "verify") /\ call[s].code \notin call[s].unused
    /\ WrongCode(call[s].user)
    /\ End(s)
    /\ UNCHANGED <<account, pending, history>>

Confirming(u) == \E s \in Slots : Doing(s, "confirm") /\ call[s].user = u

(* The process dies: the Map of lockout.js and the handlers are gone, the  *)
(* database stays as it is.                                                *)
Restart ==
    /\ Restarts
    /\ failures' = [u \in Users |-> 0]
    /\ locked' = {}
    /\ wrongPasswords' = [u \in Users |-> 0]
    /\ wrongCodes' = [u \in Users |-> 0]
    /\ cleared' = {}
    /\ call' = [s \in Slots |-> None]
    /\ cutOff' = cutOff \cup {u \in Users : Confirming(u)}
    /\ UNCHANGED <<account, pending, sessions, spent, together>>

Next ==
    \/ \E s \in Slots, u \in Users : Login(s, u)
    \/ \E s \in Slots : LoginFails(s)
    \/ \E s \in Slots : LoginSucceeds(s)
    \/ \E p \in Pendings : PendingExpires(p)
    \/ \E u \in Users : LockPasses(u)
    \/ \E p \in Pendings : SetupInit(p)
    \/ \E p \in Pendings, k \in Secrets : ConfirmRefused(p, k)
    \/ \E s \in Slots, p \in Pendings, k \in Secrets : Confirm(s, p, k)
    \/ \E s \in Slots : StoreCode(s)
    \/ \E p \in Pendings : VerifyRefused(p)
    \/ \E p \in Pendings : VerifyTotp(p)
    \/ \E s \in Slots, p \in Pendings, c \in Codes : VerifyCode(s, p, c)
    \/ \E s \in Slots : CodeAccepted(s)
    \/ \E s \in Slots : CodeRejected(s)
    \/ Restart

Spec == Init /\ [][Next]_vars

--------------------------------------------------------------------------------
(* A pending login is good for one session, however many calls present it  *)
(* at once, on whichever route (routes.js:56-62).                          *)
PendingOpensOneSession == \A p \in Pendings : sessions[p] <= 1

(* "mandatory TOTP" (README.md:24): a session exists only for an account   *)
(* that is enrolled; with several logins of it under way, too.             *)
SessionNeedsEnrolment ==
    \A p \in Pendings : sessions[p] > 0 => pending[p].user \in enabled

(* A confirmed enrolment is final: no login that was pending at the time   *)
(* can put another secret in its place (routes.js:119, 145).               *)
EnrolmentIsFinal ==
    [][\A u \in enabled : u \in enabled' /\ secret'[u] = secret[u]]_vars

(* An enrolled account has as many codes as it was shown, unless they are  *)
(* being stored or a restart cut that off, and nobody else has any; two    *)
(* confirmations at once do not store two sets (routes.js:155-161).        *)
CodesAreComplete ==
    \A u \in Users :
        \/ u \in enabled /\ (Confirming(u) \/ u \in cutOff)
        \/ u \in enabled /\ Cardinality(codes[u]) = CodesPerUser
        \/ u \notin enabled /\ codes[u] = {}

(* A backup code opens a second session only if both were asked for at the *)
(* same time; a used code stays used across sessions, failures and         *)
(* restarts (routes.js:195-199).                                           *)
CodesUsedOnceUnlessTogether == \A c \in Codes : spent[c] > 1 => c \in together

(* The lockout bounds the wrong tries for a name although it is checked    *)
(* before the await and counted after it: only the calls that were under   *)
(* way when the lock came can add to MaxAttempts (lockout.js:14-37).  So   *)
(* for wrong passwords; wrong second factors are bounded with them only    *)
(* until a right password, which clears the count that they share, comes   *)
(* after one of them (routes.js:98).                                       *)
LockoutBoundsTries ==
    \A u \in Users :
        /\ wrongPasswords[u] <= MaxAttempts + Cardinality(Slots)
        /\ wrongPasswords[u] + wrongCodes[u] > MaxAttempts + Cardinality(Slots)
              => u \in cleared
================================================================================
