-------------------------------- MODULE Login --------------------------------
(***************************************************************************)
(* Signing in to one account: the password, the pending login that waits   *)
(* for a second factor, TOTP with its recovery codes, passkeys, and the    *)
(* server-side sessions.  A request is a goroutine of its own; between two *)
(* of its store calls any other request may run.  The rate limiter only    *)
(* ends a request early (see LoginLimiter): before the password check it   *)
(* is left out, after it it is LeaveLogin.                                 *)
(***************************************************************************)
EXTENDS Integers, FiniteSets

CONSTANTS
  Requests,       \* requests in flight at a time
  Tokens,         \* mfa tokens
  Sessions,       \* session ids
  Passkeys,       \* credential ids
  MaxMFAFailures, \* mfaMaxFailures
  MaxPasskeys,    \* webauthnMaxPerUser
  MaxSecret,      \* bound: TOTP secrets generated, and sets of recovery codes
  MaxPassword,    \* bound: password changes
  MaxRequests     \* bound: requests served

ASSUME LoginAssumption ==
  /\ Requests # {} /\ \A S \in {Requests, Tokens, Sessions, Passkeys} : IsFiniteSet(S)
  /\ {MaxMFAFailures, MaxPasskeys} \subseteq Nat \ {0}
  /\ {MaxSecret, MaxPassword, MaxRequests} \subseteq Nat

VARIABLES
  passwd,     \* the password in force: how often it was changed
  disabled,   \* users.disabled
  totp,       \* the row of user_totp
  passkeys,   \* the rows of user_webauthn_credentials
  reg,        \* webauthnRegistrations holds a ceremony of this user
  pending,    \* mfaPendingStore.items
  session,    \* the rows of sessions
  call,       \* the requests
  served,     \* requests started
  secrets,    \* secrets generated so far
  proven,     \* history: secrets a valid code was shown for, before they were enabled
  raced,      \* history: an enrolment and a confirmation overlapped
  wrong,      \* history: wrong codes judged per token
  spent       \* history: sessions or refusals a recovery code was good for

loginVars == <<passwd, disabled, totp, passkeys, reg, pending, session, call, served,
               secrets, proven, raced, wrong, spent>>

NoRow == [state |-> "none", secret |-> 0, codes |-> {}]
RecoveryCodes == (1..MaxSecret) \X {"x", "y"}
FreshCodes(n) == {n} \X {"x", "y"}

Idle == [pc |-> "idle", kind |-> "none", tok |-> "none", exact |-> TRUE, pw |-> 0,
         code |-> "none", row |-> NoRow, factors |-> {}, steady |-> {}, unread |-> {},
         keep |-> "none"]

Factors(t, k) == (IF t.state = "enabled" THEN {"totp"} ELSE {})
                 \cup (IF k # {} THEN {"passkey"} ELSE {})

On(r, pc) == call[r].pc = pc
Step(r, fields) == call' = [call EXCEPT ![r] = fields]
To(r, pc) == Step(r, [call[r] EXCEPT !.pc = pc])
End(r) == Step(r, Idle)

\* A request begins: it is a login of its kind, or a call with a session's cookie.
Begin(r, fields) ==
  /\ On(r, "idle") /\ served < MaxRequests
  /\ served' = served + 1
  /\ Step(r, fields)

\* currentUserIDWithError: a session of a disabled account counts for nothing.
Authenticated(s) == session[s].live /\ ~disabled

store == <<passwd, disabled, totp, passkeys, reg, pending, session>>
history == <<secrets, proven, raced, wrong, spent>>

LoginInit ==
  /\ passwd = 0 /\ disabled = FALSE
  /\ totp \in {NoRow, [state |-> "enabled", secret |-> 1, codes |-> FreshCodes(1)]}
  /\ passkeys \in {{}} \cup {{k} : k \in Passkeys}
  /\ reg = FALSE
  /\ pending = [t \in Tokens |-> [state |-> "free", failures |-> 0, challenge |-> FALSE, pw |-> 0]]
  /\ \E early \in SUBSET Sessions :  \* sessions of logins made before
       /\ Cardinality(early) =< 1
       /\ session = [s \in Sessions |-> [live |-> s \in early, used |-> s \in early, pw |-> 0,
                                         excused |-> FALSE, factor |-> TRUE, steady |-> {}, unread |-> {}]]
  /\ call = [r \in Requests |-> Idle]
  /\ served = 0
  /\ secrets = IF totp = NoRow THEN 0 ELSE 1
  /\ proven = {totp.secret}
  /\ raced = FALSE
  /\ wrong = [t \in Tokens |-> 0]
  /\ spent = [c \in RecoveryCodes |-> 0]

-------------------------------------------------------------------------------
\* The factors that stay enabled while other requests change them.
Steadily(t, k, calls) ==
  [r \in Requests |-> [calls[r] EXCEPT !.steady = @ \cap Factors(t, k)]]

\* handleLogin: Authenticate, the check of TOTP, the check of passkeys.
Authenticate(r, pw) ==
  /\ pw \in 0..passwd
  /\ Begin(r, IF disabled \/ pw # passwd THEN Idle
              ELSE [Idle EXCEPT !.pc = "totp?", !.kind = "login", !.pw = pw,
                                !.steady = Factors(totp, passkeys)])
  /\ UNCHANGED <<store, history>>

AskTOTP(r) ==
  /\ On(r, "totp?")
  /\ Step(r, [call[r] EXCEPT !.pc = "passkeys?", !.factors = Factors(totp, {})])
  /\ UNCHANGED <<store, history, served>>

\* Enabled swallows the error of its read: the factor counts as not enabled.
TOTPUnread(r) ==
  /\ On(r, "totp?")
  /\ Step(r, [call[r] EXCEPT !.pc = "passkeys?", !.unread = @ \cup {"totp"}])
  /\ UNCHANGED <<store, history, served>>

factorsFoundFault(r) == IF call[r].factors = {} THEN {} ELSE Factors(NoRow, passkeys)

factorsFound(r) == call[r].factors \cup Factors(NoRow, passkeys)

AskPasskeys(r) ==
  /\ On(r, "passkeys?")
  /\ To(r, IF factorsFound(r) # {} THEN "issue" ELSE "finish")
  /\ UNCHANGED <<store, history, served>>

\* hasPasskeys does so too.
PasskeysUnread(r) ==
  /\ On(r, "passkeys?")
  /\ Step(r, [call[r] EXCEPT !.unread = @ \cup {"passkey"},
                             !.pc = IF call[r].factors # {} THEN "issue" ELSE "finish"])
  /\ UNCHANGED <<store, history, served>>

issue(r, t) ==
  /\ On(r, "issue")
  /\ pending[t].state = "free"
  /\ pending' = [pending EXCEPT ![t] = [state |-> "live", failures |-> 0, challenge |-> FALSE,
                                        pw |-> call[r].pw]]
  /\ End(r)
  /\ UNCHANGED <<passwd, disabled, totp, passkeys, reg, session, served, history>>

\* finishLogin: the session row, for the password the login was made with.
FinishLogin(r, s) ==
  /\ On(r, "finish")
  /\ ~session[s].used
  /\ session' = [session EXCEPT ![s] =
       [live |-> TRUE, used |-> TRUE, pw |-> call[r].pw, excused |-> call[r].pw # passwd \/ disabled,
        factor |-> call[r].kind # "login", steady |-> call[r].steady, unread |-> call[r].unread]]
  /\ End(r)
  /\ UNCHANGED <<passwd, disabled, totp, passkeys, reg, pending, served, history>>

\* The pending login expires, or is collected by a later issue.
Expire(t) ==
  /\ pending[t].state = "live"
  /\ pending' = [pending EXCEPT ![t].state = "gone"]
  /\ UNCHANGED <<passwd, disabled, totp, passkeys, reg, session, call, served, history>>

-------------------------------------------------------------------------------
\* handleLoginTOTP.  get finds the pending login; Verify loads the row, and
\* either accepts a code of its secret, or consumes a recovery code with an
\* UPDATE guarded by the codes it has read.
GetPending(r, t, exact, code, kind) ==
  /\ pending[t].state = "live"
  /\ kind = "webauthn" => pending[t].challenge
  /\ Begin(r, [Idle EXCEPT !.pc = "load", !.kind = kind, !.tok = t, !.exact = exact,
                           !.pw = pending[t].pw, !.code = code,
                           !.steady = Factors(totp, passkeys)])
  /\ UNCHANGED <<store, history>>

loadSecret(r) ==
  /\ On(r, "load") /\ call[r].kind = "totp"
  /\ LET c == call[r].code
     IN Step(r, [call[r] EXCEPT !.row = totp, !.pc =
          IF totp.state # "enabled" THEN "wrong"
          ELSE IF c = <<totp.secret, "totp">> THEN "right"
          ELSE IF c \in totp.codes THEN "spend" ELSE "wrong"])
  /\ UNCHANGED <<store, history, served>>

\* A store that fails in Verify counts as a wrong code.
VerifyFails(r) ==
  /\ call[r].pc \in {"load", "spend"} /\ call[r].kind = "totp"
  /\ To(r, "wrong")
  /\ UNCHANGED <<store, history, served>>

MatchesFault(r) == totp.state # "none"

Matches(r) == totp.state # "none" /\ totp.codes = call[r].row.codes

spendCode(r) ==
  /\ On(r, "spend")
  /\ IF Matches(r)
       THEN /\ totp' = [totp EXCEPT !.codes = call[r].row.codes \ {call[r].code}]
            /\ spent' = [spent EXCEPT ![call[r].code] = @ + 1]
            /\ To(r, "right")
       ELSE To(r, "wrong") /\ UNCHANGED <<totp, spent>>
  /\ UNCHANGED <<passwd, disabled, passkeys, reg, pending, session, served,
                 secrets, proven, raced, wrong>>

failFault(r) ==
  /\ On(r, "wrong")
  /\ wrong' = [wrong EXCEPT ![call[r].tok] = @ + 1]
  /\ End(r)
  /\ UNCHANGED <<store, served, secrets, proven, raced, spent>>

\* fail: the fifth wrong code discards the pending login.
fail(r) ==
  /\ On(r, "wrong")
  /\ LET t == call[r].tok
         n == pending[t].failures + 1
     IN /\ pending' = IF pending[t].state # "live" THEN pending
                      ELSE [pending EXCEPT ![t].failures = n,
                              ![t].state = IF n >= MaxMFAFailures THEN "gone" ELSE "live"]
        /\ wrong' = [wrong EXCEPT ![t] = @ + 1]
  /\ End(r)
  /\ UNCHANGED <<passwd, disabled, totp, passkeys, reg, session, served, secrets, proven, raced, spent>>

\* consume.  handleLoginTOTP looks the token up without the blanks around it and
\* consumes it with them: one that was not sent exactly stays.
consume(r) ==
  /\ On(r, "right")
  /\ pending' = IF call[r].exact \/ call[r].kind = "webauthn"
                  THEN [pending EXCEPT ![call[r].tok].state = "gone"] ELSE pending
  /\ To(r, "finish")
  /\ UNCHANGED <<passwd, disabled, totp, passkeys, reg, session, served, history>>

\* handleLoginWebAuthnBegin puts a challenge on the pending login, and
\* handleLoginWebAuthnFinish checks an assertion of a registered passkey.
setWebAuthnSession(r, t) ==
  /\ pending[t].state = "live" /\ passkeys # {}
  /\ Begin(r, Idle)
  /\ pending' = [pending EXCEPT ![t].challenge = TRUE]
  /\ UNCHANGED <<passwd, disabled, totp, passkeys, reg, session, history>>

ValidateLogin(r) ==
  /\ On(r, "load") /\ call[r].kind = "webauthn"
  /\ To(r, IF call[r].code \in passkeys THEN "right" ELSE "wrong")
  /\ UNCHANGED <<store, history, served>>

-------------------------------------------------------------------------------
\* TOTP enrolment.  BeginEnrolment checks that no factor is enabled, and then
\* overwrites the row whatever it is by then.
BeginEnrolment(r, s) ==
  /\ Authenticated(s)
  /\ Begin(r, IF totp.state = "enabled" THEN Idle
              ELSE [Idle EXCEPT !.pc = "upsert", !.kind = "enrol"])
  /\ UNCHANGED <<store, history>>

\* The check is Enabled: a read that fails lets the enrolment overwrite an enabled factor.
EnrolUnread(r, s) ==
  /\ Authenticated(s)
  /\ Begin(r, [Idle EXCEPT !.pc = "upsert", !.kind = "enrol"])
  /\ UNCHANGED <<store, history>>

Upsert(r) ==
  /\ On(r, "upsert") /\ secrets < MaxSecret
  /\ totp' = [state |-> "pending", secret |-> secrets + 1, codes |-> {}]
  /\ secrets' = secrets + 1
  /\ call' = Steadily(totp', passkeys, [call EXCEPT ![r] = Idle])
  /\ raced' = (raced \/ \E q \in Requests : On(q, "enable"))
  /\ UNCHANGED <<passwd, disabled, passkeys, reg, pending, session, served, proven, wrong, spent>>

ConfirmFault(r, s, secret) ==
  /\ Authenticated(s)
  /\ Begin(r, IF totp.state = "pending"
                THEN [Idle EXCEPT !.pc = "enable", !.kind = "enrol", !.row = totp] ELSE Idle)
  /\ UNCHANGED <<store, history>>

\* Confirm checks a code against the secret it has read, and then enables
\* whatever row waits for confirmation.
Confirm(r, s, secret) ==
  /\ Authenticated(s)
  /\ Begin(r, IF totp.state = "pending" /\ totp.secret = secret
                THEN [Idle EXCEPT !.pc = "enable", !.kind = "enrol", !.row = totp]
                ELSE Idle)
  /\ proven' = IF totp.state = "pending" /\ totp.secret = secret
                 THEN proven \cup {secret} ELSE proven
  /\ UNCHANGED <<store, secrets, raced, wrong, spent>>

Enable(r) ==
  /\ On(r, "enable")
  /\ IF totp.state = "pending"
       THEN totp' = [totp EXCEPT !.state = "enabled", !.codes = FreshCodes(totp.secret)]
       ELSE totp' = totp
  /\ End(r)
  /\ UNCHANGED <<passwd, disabled, passkeys, reg, pending, session, served, history>>

\* handleTOTPDisable after the password was given again.
Disable(r, s, pw) ==
  /\ Authenticated(s)
  /\ Begin(r, IF pw = passwd THEN [Idle EXCEPT !.pc = "drop", !.kind = "disable"] ELSE Idle)
  /\ UNCHANGED <<store, history>>

\* handleAdminResetTOTP removes the row, and then the passkeys.
AdminReset(r) ==
  /\ Begin(r, [Idle EXCEPT !.pc = "drop", !.kind = "reset"])
  /\ UNCHANGED <<store, history>>

DropTOTP(r) ==
  /\ On(r, "drop")
  /\ totp' = NoRow
  /\ call' = Steadily(NoRow, passkeys,
       [call EXCEPT ![r] = IF @.kind = "reset" THEN [@ EXCEPT !.pc = "keys"] ELSE Idle])
  /\ UNCHANGED <<passwd, disabled, passkeys, reg, pending, session, served, history>>

\* A reset goes on to the passkeys when the row could not be removed.
KeepTOTP(r) ==
  /\ On(r, "drop") /\ call[r].kind = "reset"
  /\ To(r, "keys")
  /\ UNCHANGED <<store, history, served>>

DropPasskeys(r) ==
  /\ On(r, "keys")
  /\ passkeys' = {}
  /\ call' = Steadily(totp, {}, [call EXCEPT ![r] = Idle])
  /\ UNCHANGED <<passwd, disabled, totp, reg, pending, session, served, history>>

-------------------------------------------------------------------------------
\* Passkey registration: one ceremony per user, and a cap checked before the row.
RegisterBegin(r, s) ==
  /\ Authenticated(s)
  /\ Begin(r, Idle)
  /\ reg' = TRUE
  /\ UNCHANGED <<passwd, disabled, totp, passkeys, pending, session, history>>

RegisterFinish(r, s) ==
  /\ Authenticated(s) /\ reg
  /\ reg' = FALSE
  /\ Begin(r, [Idle EXCEPT !.pc = "count", !.kind = "register"])
  /\ UNCHANGED <<passwd, disabled, totp, passkeys, pending, session, history>>

CountPasskeysFault(r) ==
  /\ On(r, "count")
  /\ IF Cardinality(passkeys) > MaxPasskeys THEN End(r) ELSE To(r, "add")
  /\ UNCHANGED <<store, history, served>>

CountPasskeys(r) ==
  /\ On(r, "count")
  /\ IF Cardinality(passkeys) >= MaxPasskeys THEN End(r) ELSE To(r, "add")
  /\ UNCHANGED <<store, history, served>>

AddPasskey(r, k) ==
  /\ On(r, "add") /\ k \notin passkeys
  /\ passkeys' = passkeys \cup {k}
  /\ End(r)
  /\ UNCHANGED <<passwd, disabled, totp, reg, pending, session, served, history>>

DeletePasskey(r, s, k) ==
  /\ Authenticated(s) /\ k \in passkeys
  /\ passkeys' = passkeys \ {k}
  /\ served < MaxRequests /\ On(r, "idle") /\ served' = served + 1
  /\ call' = Steadily(totp, passkeys', call)
  /\ UNCHANGED <<passwd, disabled, totp, reg, pending, session, history>>

-------------------------------------------------------------------------------
\* handleChangePassword: UpdatePassword verifies, then updates; the sessions of
\* the account go, all but the caller's own.
VerifyPassword(r, s, pw) ==
  /\ Authenticated(s)
  /\ Begin(r, IF pw = passwd
                THEN [Idle EXCEPT !.pc = "update", !.kind = "password", !.keep = s]
                ELSE Idle)
  /\ UNCHANGED <<store, history>>

UpdatePassword(r) ==
  /\ On(r, "update") /\ passwd < MaxPassword
  /\ passwd' = passwd + 1
  /\ To(r, "revoke")
  /\ UNCHANGED <<disabled, totp, passkeys, reg, pending, session, served, history>>

DeleteAllForUserFault(r) ==
  /\ On(r, "revoke")
  /\ End(r)
  /\ UNCHANGED <<store, served, history>>

DeleteAllForUser(r) ==
  /\ On(r, "revoke")
  /\ session' = [s \in Sessions |->
       IF s = call[r].keep THEN [session[s] EXCEPT !.excused = TRUE]
       ELSE [session[s] EXCEPT !.live = FALSE]]
  /\ End(r)
  /\ UNCHANGED <<passwd, disabled, totp, passkeys, reg, pending, served, history>>

\* Its failure is only audited.
RevokeFails(r) ==
  /\ On(r, "revoke")
  /\ session' = [s \in Sessions |-> [session[s] EXCEPT !.excused = TRUE]]
  /\ End(r)
  /\ UNCHANGED <<passwd, disabled, totp, passkeys, reg, pending, served, history>>

\* handleLogout.
Logout(r, s) ==
  /\ session[s].live
  /\ Begin(r, Idle)
  /\ session' = [session EXCEPT ![s].live = FALSE]
  /\ UNCHANGED <<passwd, disabled, totp, passkeys, reg, pending, history>>

\* An administrator disables the account, which revokes its sessions, or enables it.
SetDisabled(r) ==
  /\ Begin(r, IF disabled THEN Idle ELSE [Idle EXCEPT !.pc = "revoke", !.kind = "admin"])
  /\ disabled' = ~disabled
  /\ UNCHANGED <<passwd, totp, passkeys, reg, pending, session, history>>

\* A request ends early: the limiter refuses the answer to a pending login, no token can
\* be made, or the store fails in a write or in the count of the passkeys before one.
LeaveLogin(r) ==
  /\ call[r].pc \in {"load", "issue", "finish", "upsert", "enable", "drop", "keys",
                     "count", "add", "update"}
  /\ ~(On(r, "drop") /\ call[r].kind = "reset")
  /\ End(r)
  /\ UNCHANGED <<store, history, served>>

LoginNext ==
  \/ \E r \in Requests :
       \/ \E pw \in 0..MaxPassword : Authenticate(r, pw)
       \/ AskTOTP(r) \/ TOTPUnread(r) \/ AskPasskeys(r) \/ PasskeysUnread(r)
       \/ \E t \in Tokens : issue(r, t)
       \/ \E s \in Sessions : FinishLogin(r, s)
       \/ \E t \in Tokens, e \in BOOLEAN, c \in RecoveryCodes \cup ((0..MaxSecret) \X {"totp"}) :
            GetPending(r, t, e, c, "totp")
       \/ \E t \in Tokens, k \in Passkeys : GetPending(r, t, TRUE, k, "webauthn")
       \/ loadSecret(r) \/ VerifyFails(r) \/ spendCode(r) \/ fail(r) \/ consume(r)
       \/ \E t \in Tokens : setWebAuthnSession(r, t)
       \/ ValidateLogin(r)
       \/ \E s \in Sessions : BeginEnrolment(r, s) \/ EnrolUnread(r, s)
       \/ Upsert(r)
       \/ \E s \in Sessions, n \in 1..MaxSecret : Confirm(r, s, n)
       \/ Enable(r)
       \/ \E s \in Sessions, pw \in 0..MaxPassword : Disable(r, s, pw)
       \/ AdminReset(r) \/ DropTOTP(r) \/ KeepTOTP(r) \/ DropPasskeys(r)
       \/ \E s \in Sessions : RegisterBegin(r, s) \/ RegisterFinish(r, s)
       \/ CountPasskeys(r)
       \/ \E k \in Passkeys : AddPasskey(r, k)
       \/ \E s \in Sessions, k \in Passkeys : DeletePasskey(r, s, k)
       \/ \E s \in Sessions, pw \in 0..MaxPassword : VerifyPassword(r, s, pw)
       \/ UpdatePassword(r) \/ DeleteAllForUser(r) \/ RevokeFails(r)
       \/ \E s \in Sessions : Logout(r, s)
       \/ SetDisabled(r)
       \/ LeaveLogin(r)
  \/ \E t \in Tokens : Expire(t)

LoginSpec == LoginInit /\ [][LoginNext]_loginVars

-------------------------------------------------------------------------------
\* Verify reads the codes and writes what is left of them: a recovery code is
\* good for one login, however many requests bring it at the same time.
RecoveryCodeOnce == \A c \in RecoveryCodes : spent[c] =< 1

\* The failures of a pending login are counted after the code was judged, so
\* requests that overlap may judge a few more, but only as many as are in flight.
GuessesBounded == \A t \in Tokens : wrong[t] =< MaxMFAFailures + Cardinality(Requests) - 1

\* handleLogin asks for TOTP and for passkeys in two reads: a factor that was
\* enabled from the password check to the new session is skipped only by a login
\* whose read of that very factor failed.
SecondFactorAsked ==
  \A s \in Sessions : session[s].used /\ ~session[s].factor => session[s].steady \subseteq session[s].unread

\* Confirm proves one secret and enables the row: what is enabled was proven,
\* unless an enrolment came between the two.
EnabledWasProven == totp.state = "enabled" => totp.secret \in proven \/ raced

\* A changed password or a disabled account ends the other sessions.  What is
\* left is the session that asked for the change, and logins that had passed
\* the password check before it and finished after.
SessionsRevoked ==
  (\A r \in Requests : ~On(r, "revoke")) =>
    \A s \in Sessions : session[s].live =>
      session[s].excused \/ (session[s].pw = passwd /\ ~disabled)

\* The cap on passkeys is checked before the row is written: it is passed by at
\* most the registrations that overlap.
PasskeysCapped == Cardinality(passkeys) =< MaxPasskeys + Cardinality(Requests) - 1

\* The second factor as a whole: it is asked for, it was proven before it was
\* enabled, a recovery code is good once, and guesses and passkeys pass their caps by
\* no more than what overlaps.
SecondFactorSound ==
  SecondFactorAsked /\ EnabledWasProven /\ RecoveryCodeOnce /\ GuessesBounded /\ PasskeysCapped

===============================================================================
