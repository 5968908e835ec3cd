----------------------------- MODULE LoginProofs -----------------------------
(***************************************************************************)
(* Signing in, for any number of requests, pending logins, sessions and    *)
(* passkeys.  What Login promises is not inductive: between the read of a  *)
(* request and its write any other request may run, so the invariant says  *)
(* of each place of a request what it has read that still holds there      *)
(* (LoginCallOK), and counts the wrong codes together with the codes still *)
(* being judged, and the passkeys with the registrations past their count. *)
(* The limiter before it is sound for buckets of any length, so what its   *)
(* pruning loop keeps is shown by induction over the bucket; the library's *)
(* induction takes a predicate, here it is stated for sets.                *)
(***************************************************************************)
EXTENDS Login, LoginLimiter, FiniteSetTheorems, WellFoundedInduction, TLAPS

FactorNames == {"totp", "passkey"}
TotpRow == [state : {"none", "pending", "enabled"}, secret : Nat, codes : SUBSET (Nat \X {"x", "y"})]
PendingRow == [state : {"free", "live", "gone"}, failures : Nat, challenge : BOOLEAN, pw : Nat]
SessionRow == [live : BOOLEAN, used : BOOLEAN, pw : Nat, excused : BOOLEAN, factor : BOOLEAN,
               steady : SUBSET FactorNames, unread : SUBSET FactorNames]
TotpCodes == RecoveryCodes \cup ((0..MaxSecret) \X {"totp"})
LoginCall == [pc : {"idle", "totp?", "passkeys?", "issue", "finish", "load", "spend", "right", "wrong",
                    "upsert", "enable", "drop", "keys", "count", "add", "update", "revoke"},
              kind : {"none", "login", "totp", "webauthn", "enrol", "disable", "reset", "register",
                      "password", "admin"},
              tok : Tokens \cup {"none"}, exact : BOOLEAN, pw : Nat,
              code : TotpCodes \cup Passkeys \cup {"none"}, row : TotpRow,
              factors : SUBSET FactorNames, steady : SUBSET FactorNames,
              unread : SUBSET FactorNames, keep : Sessions \cup {"none"}]

LoginTypeOK ==
  /\ passwd \in Nat /\ disabled \in BOOLEAN
  /\ totp \in TotpRow /\ passkeys \subseteq Passkeys
  /\ pending \in [Tokens -> PendingRow] /\ session \in [Sessions -> SessionRow]
  /\ call \in [Requests -> LoginCall]
  /\ secrets \in Nat /\ raced \in BOOLEAN
  /\ wrong \in [Tokens -> Nat] /\ spent \in [RecoveryCodes -> Nat]

JudgePlaces == {"load", "spend", "wrong"}

\* What a request has read that is still true when it acts on it: the pending login it
\* answers was issued, the recovery code it spends was of the row it read, the factors
\* that stayed enabled are enabled, and it has seen those it has asked for and could read; the secret it
\* is about to enable was proven, and is the one that waits unless an enrolment came between.
LoginCallOK(c) ==
  /\ c.pc \in JudgePlaces \cup {"right"} =>
       c.kind \in {"totp", "webauthn"} /\ c.tok \in Tokens /\ pending[c.tok].state # "free"
  /\ c.pc = "load" /\ c.kind = "totp" => c.code \in TotpCodes
  /\ c.pc = "spend" => c.code \in RecoveryCodes /\ c.code \in c.row.codes
  /\ c.steady \subseteq Factors(totp, passkeys)
  /\ c.pc = "passkeys?" => c.steady \subseteq c.factors \cup c.unread \cup {"passkey"}
  /\ c.pc = "finish" /\ c.kind = "login" => c.steady \subseteq c.unread
  /\ c.pc = "enable" =>
       c.row.secret \in proven /\ (totp.state = "pending" => totp.secret = c.row.secret \/ raced)

LoginCallsOK == \A q \in Requests : LoginCallOK(call[q])

\* A recovery code that is still in the row was not spent, nor was any of the secret that
\* waits for confirmation or of one not generated yet.
CodesUnspent ==
  /\ totp.secret =< secrets
  /\ totp.codes \subseteq FreshCodes(totp.secret)
  /\ totp.state # "enabled" => totp.codes = {}
  /\ \A c \in RecoveryCodes :
       c \in totp.codes \/ (totp.state = "pending" /\ c[1] = totp.secret) \/ c[1] > secrets => spent[c] = 0

\* A pending login that can still be answered has counted every wrong code.
PendingCounts ==
  \A t \in Tokens :
    /\ pending[t].state = "live" => wrong[t] = pending[t].failures /\ wrong[t] < MaxMFAFailures
    /\ pending[t].state = "free" => wrong[t] = 0

Judging(t) == {q \in Requests : call[q].tok = t /\ call[q].pc \in JudgePlaces}
Adding == {q \in Requests : call[q].pc = "add"}

\* The wrong codes of a pending login and the codes still being judged, the passkeys and
\* the registrations past the count: each pair together stays within the bound.
GuessBudget ==
  \A t \in Tokens : wrong[t] + Cardinality(Judging(t)) =< MaxMFAFailures + Cardinality(Requests) - 1
KeyBudget == Cardinality(passkeys) + Cardinality(Adding) =< MaxPasskeys + Cardinality(Requests) - 1

LoginIInv == /\ LoginTypeOK /\ LoginCallsOK /\ CodesUnspent /\ PendingCounts /\ GuessBudget /\ KeyBudget
             /\ RecoveryCodeOnce /\ EnabledWasProven /\ SecondFactorAsked /\ SessionsRevoked

\* A request that has not begun, or has ended, is in order before and after any step.
LEMMA IdleIsOK ==
  /\ Idle \in LoginCall /\ Idle.pc = "idle" /\ NoRow \in TotpRow
  /\ LoginCallOK(Idle) /\ LoginCallOK(Idle)'
<1>1. NoRow \in TotpRow BY DEF NoRow, TotpRow
<1>2. Idle \in LoginCall BY <1>1 DEF Idle, LoginCall
<1>3. LoginCallOK(Idle) /\ LoginCallOK(Idle)' BY DEF LoginCallOK, Idle, JudgePlaces
<1> QED BY <1>1, <1>2, <1>3 DEF Idle

\* Everything that is counted is finite, and the caps are positive.
LEMMA LoginCounts ==
  ASSUME LoginTypeOK
  PROVE  /\ IsFiniteSet(Requests) /\ Cardinality(Requests) \in Nat /\ Cardinality(Requests) >= 1
         /\ IsFiniteSet(passkeys) /\ Cardinality(passkeys) \in Nat
         /\ IsFiniteSet(Adding) /\ Cardinality(Adding) \in Nat
         /\ \A t : IsFiniteSet(Judging(t)) /\ Cardinality(Judging(t)) \in Nat
         /\ MaxPasskeys \in Nat /\ MaxPasskeys >= 1 /\ MaxMFAFailures \in Nat /\ MaxMFAFailures >= 1
<1>1. IsFiniteSet(Requests) /\ IsFiniteSet(Passkeys) /\ Requests # {} BY LoginAssumption
<1>2. Cardinality(Requests) \in Nat /\ Cardinality(Requests) # 0
      BY <1>1, FS_CardinalityType, FS_EmptySet
<1>3. Adding \subseteq Requests /\ \A t : Judging(t) \subseteq Requests BY DEF Adding, Judging
<1>4. IsFiniteSet(passkeys) BY <1>1, FS_Subset DEF LoginTypeOK
<1>5. IsFiniteSet(Adding) /\ \A t : IsFiniteSet(Judging(t)) BY <1>1, <1>3, FS_Subset
<1>6. MaxPasskeys \in Nat /\ MaxPasskeys >= 1 /\ MaxMFAFailures \in Nat /\ MaxMFAFailures >= 1
      BY LoginAssumption
<1> QED BY <1>1, <1>2, <1>4, <1>5, <1>6, FS_CardinalityType

\* An account with or without factors, and at most one session of an earlier login.
LEMMA LoginStart == LoginInit => LoginIInv
<1> SUFFICES ASSUME LoginInit PROVE LoginIInv
    OBVIOUS
<1>0. NoRow \in TotpRow /\ [state |-> "enabled", secret |-> 1, codes |-> FreshCodes(1)] \in TotpRow
      /\ NoRow.state = "none" /\ NoRow.secret = 0 /\ NoRow.codes = {}
      BY DEF NoRow, TotpRow, FreshCodes
<1>1. /\ totp \in TotpRow
      /\ totp = NoRow \/ totp = [state |-> "enabled", secret |-> 1, codes |-> FreshCodes(1)]
      BY <1>0 DEF LoginInit
<1>2. passkeys \subseteq Passkeys /\ \E k : passkeys \subseteq {k}
  <2>1. CASE passkeys = {} BY <2>1
  <2>2. CASE \E k \in Passkeys : passkeys = {k} BY <2>2
  <2> QED BY <2>1, <2>2 DEF LoginInit
<1>3. session \in [Sessions -> SessionRow] /\ SecondFactorAsked /\ SessionsRevoked
  <2>1. PICK early \in SUBSET Sessions :
          session = [s \in Sessions |-> [live |-> s \in early, used |-> s \in early, pw |-> 0,
                                         excused |-> FALSE, factor |-> TRUE, steady |-> {}, unread |-> {}]]
        BY DEF LoginInit
  <2>2. passwd = 0 /\ ~disabled BY DEF LoginInit
  <2>3. session \in [Sessions -> SessionRow] BY <2>1 DEF SessionRow
  <2>4. SecondFactorAsked BY <2>1 DEF SecondFactorAsked
  <2>5. SessionsRevoked BY <2>1, <2>2 DEF SessionsRevoked
  <2> QED BY <2>3, <2>4, <2>5
<1>4. pending \in [Tokens -> PendingRow] BY DEF LoginInit, PendingRow
<1>5. call \in [Requests -> LoginCall] /\ \A q \in Requests : call[q] = Idle
      BY IdleIsOK DEF LoginInit
<1>6. secrets \in Nat /\ wrong \in [Tokens -> Nat] /\ spent \in [RecoveryCodes -> Nat]
      /\ (\A t \in Tokens : wrong[t] = 0) /\ (\A c \in RecoveryCodes : spent[c] = 0)
      BY DEF LoginInit
<1>7. LoginTypeOK
      BY <1>1, <1>2, <1>3, <1>4, <1>5, <1>6 DEF LoginInit, LoginTypeOK
<1>8. LoginCallsOK BY <1>5, IdleIsOK DEF LoginCallsOK
<1>9. CodesUnspent
  <2>1. totp.secret =< secrets /\ (totp.state # "enabled" => totp.codes = {}) BY <1>0, <1>1 DEF LoginInit
  <2>2. totp.codes \subseteq FreshCodes(totp.secret) BY <1>0, <1>1
  <2> QED BY <1>6, <2>1, <2>2 DEF CodesUnspent
<1>10. PendingCounts BY <1>6, LoginAssumption DEF LoginInit, PendingCounts
<1>11. Adding = {} /\ \A t : Judging(t) = {}
       BY <1>5, IdleIsOK DEF Adding, Judging, JudgePlaces
<1>12. GuessBudget BY <1>6, <1>7, <1>11, LoginCounts, FS_EmptySet DEF GuessBudget
<1>13. KeyBudget
  <2>1. PICK k : passkeys \subseteq {k} BY <1>2
  <2>2. IsFiniteSet({k}) /\ Cardinality({k}) = 1 BY FS_Singleton
  <2>3. Cardinality(passkeys) =< 1 BY <2>1, <2>2, FS_Subset
  <2> QED BY <1>7, <1>11, <2>3, LoginCounts, FS_EmptySet DEF KeyBudget
<1>14. RecoveryCodeOnce /\ EnabledWasProven
       BY <1>6 DEF RecoveryCodeOnce, EnabledWasProven, LoginInit
<1> QED BY <1>3, <1>7, <1>8, <1>9, <1>10, <1>12, <1>13, <1>14 DEF LoginIInv

\* What one step does to the pending logins: one is issued, ends, or gets a challenge;
\* the count of its wrong codes stays as it is.
PendingMoves ==
  /\ pending' \in [Tokens -> PendingRow]
  /\ \A t \in Tokens :
       /\ pending'[t].state = "free" => pending[t].state = "free"
       /\ pending'[t].state = "live" =>
            \/ pending[t].state = "live" /\ pending'[t].failures = pending[t].failures
            \/ pending[t].state = "free" /\ pending'[t].failures = 0

\* A step of one request that leaves the factors alone, and whose new place is in order.
LEMMA RequestMoves ==
  ASSUME LoginIInv, NEW r \in Requests, NEW f \in LoginCall, call' = [call EXCEPT ![r] = f],
         LoginCallOK(f)',
         f.pc \in JudgePlaces =>
           (call[r].pc \in JudgePlaces /\ f.tok = call[r].tok) \/ pending[f.tok].state = "live",
         f.pc = "add" => Cardinality(passkeys) < MaxPasskeys,
         PendingMoves, proven \subseteq proven',
         UNCHANGED <<totp, passkeys, secrets, raced, wrong, spent>>
  PROVE  /\ call' \in [Requests -> LoginCall] /\ call'[r] = f
         /\ \A q \in Requests \ {r} : call'[q] = call[q]
         /\ LoginCallsOK' /\ CodesUnspent' /\ PendingCounts' /\ GuessBudget' /\ KeyBudget'
         /\ RecoveryCodeOnce' /\ EnabledWasProven'
<1> USE DEF LoginIInv
<1>1. /\ call' \in [Requests -> LoginCall] /\ call'[r] = f
      /\ \A q \in Requests \ {r} : call'[q] = call[q]
      BY DEF LoginTypeOK
<1>2. LoginCallsOK'
  <2> SUFFICES ASSUME NEW q \in Requests PROVE LoginCallOK(call[q])'
      BY DEF LoginCallsOK
  <2>1. CASE q = r BY <1>1, <2>1 DEF LoginCallOK
  <2>2. CASE q # r
    <3>1. LoginCallOK(call[q]) /\ call'[q] = call[q] BY <1>1, <2>2 DEF LoginCallsOK
    <3> QED BY <3>1 DEF LoginCallOK, PendingMoves, Factors
  <2> QED BY <2>1, <2>2
<1>3. CodesUnspent' /\ RecoveryCodeOnce' BY DEF CodesUnspent, RecoveryCodeOnce
<1>4. EnabledWasProven' BY DEF EnabledWasProven
<1>5. PendingCounts' BY LoginCounts DEF PendingCounts, PendingMoves
<1>6. GuessBudget'
  <2> SUFFICES ASSUME NEW t \in Tokens
               PROVE  wrong[t] + Cardinality(Judging(t)') =< MaxMFAFailures + Cardinality(Requests) - 1
      BY DEF GuessBudget
  <2>1. Judging(t)' \subseteq Requests BY DEF Judging
  <2>2. /\ Cardinality(Judging(t)') =< Cardinality(Requests) /\ Cardinality(Judging(t)') \in Nat
        /\ wrong[t] \in Nat
        BY <2>1, LoginCounts, FS_Subset, FS_CardinalityType DEF LoginTypeOK
  <2>3. CASE pending[t].state = "live"
        BY <2>2, <2>3, LoginCounts DEF PendingCounts
  <2>4. CASE pending[t].state # "live"
    <3>1. Judging(t)' \subseteq Judging(t) BY <1>1, <2>4 DEF Judging
    <3>2. Cardinality(Judging(t)') =< Cardinality(Judging(t)) BY <3>1, LoginCounts, FS_Subset
    <3> QED BY <2>2, <3>2, LoginCounts DEF GuessBudget
  <2> QED BY <2>3, <2>4
<1>7. KeyBudget'
  <2>1. Adding' \subseteq Requests BY DEF Adding
  <2>2. /\ Cardinality(Adding') =< Cardinality(Requests) /\ Cardinality(Adding') \in Nat
        BY <2>1, LoginCounts, FS_Subset, FS_CardinalityType
  <2>3. CASE f.pc = "add" BY <2>2, <2>3, LoginCounts DEF KeyBudget
  <2>4. CASE f.pc # "add"
    <3>1. Adding' \subseteq Adding BY <1>1, <2>4 DEF Adding
    <3>2. Cardinality(Adding') =< Cardinality(Adding) BY <3>1, LoginCounts, FS_Subset
    <3> QED BY <2>2, <3>2, LoginCounts DEF KeyBudget
  <2> QED BY <2>3, <2>4
<1> QED BY <1>1, <1>2, <1>3, <1>4, <1>5, <1>6, <1>7

\* The sessions stay as they are while no request leaves the revocation of them.
LEMMA SessionsStay ==
  ASSUME LoginIInv, UNCHANGED <<passwd, disabled, session>>,
         \A q \in Requests : call[q].pc = "revoke" => call'[q].pc = "revoke"
  PROVE  SecondFactorAsked' /\ SessionsRevoked'
BY DEF LoginIInv, SecondFactorAsked, SessionsRevoked, On

\* A step that changes nothing but where one request is.
LEMMA RequestReads ==
  ASSUME LoginIInv, NEW r \in Requests, NEW f \in LoginCall, call' = [call EXCEPT ![r] = f],
         LoginCallOK(f)', call[r].pc # "revoke",
         f.pc \in JudgePlaces =>
           (call[r].pc \in JudgePlaces /\ f.tok = call[r].tok) \/ pending[f.tok].state = "live",
         f.pc = "add" => Cardinality(passkeys) < MaxPasskeys,
         PendingMoves, proven \subseteq proven',
         UNCHANGED <<passwd, disabled, totp, passkeys, session, secrets, raced, wrong, spent>>
  PROVE  LoginIInv'
<1>1. /\ call' \in [Requests -> LoginCall] /\ call'[r] = f
      /\ \A q \in Requests \ {r} : call'[q] = call[q]
      /\ LoginCallsOK' /\ CodesUnspent' /\ PendingCounts' /\ GuessBudget' /\ KeyBudget'
      /\ RecoveryCodeOnce' /\ EnabledWasProven'
      BY RequestMoves
<1>2. SecondFactorAsked' /\ SessionsRevoked' BY <1>1, SessionsStay
<1>3. LoginTypeOK' BY <1>1 DEF LoginIInv, LoginTypeOK, PendingMoves
<1> QED BY <1>1, <1>2, <1>3 DEF LoginIInv

\* A step that leaves the pending logins alone.
LEMMA PendingStays == ASSUME LoginIInv, UNCHANGED pending PROVE PendingMoves
BY DEF LoginIInv, LoginTypeOK, PendingMoves

\* A request that ends and leaves at most a challenge or a new ceremony.
LEMMA RequestEnds ==
  ASSUME LoginIInv, NEW r \in Requests, call' = [call EXCEPT ![r] = Idle], call[r].pc # "revoke",
         PendingMoves, UNCHANGED <<passwd, disabled, totp, passkeys, session, secrets, proven, raced, wrong, spent>>
  PROVE  LoginIInv'
<1>1. Idle \in LoginCall /\ LoginCallOK(Idle)' /\ Idle.pc = "idle" BY IdleIsOK
<1>2. Idle.pc \notin JudgePlaces /\ Idle.pc # "add" BY <1>1 DEF JudgePlaces
<1> HIDE DEF Idle
<1> QED BY <1>1, <1>2, RequestReads

\* handleLogin up to the session, and the request that gives up.
LEMMA PasswordKeeps ==
  ASSUME LoginIInv, NEW r \in Requests,
         \/ \E pw \in 0..MaxPassword : Authenticate(r, pw)
         \/ AskTOTP(r) \/ TOTPUnread(r) \/ AskPasskeys(r) \/ PasskeysUnread(r) \/ LeaveLogin(r)
         \/ \E t \in Tokens : issue(r, t)
  PROVE  LoginIInv'
<1> USE DEF On, Step, To, End, Begin, store, history
<1>1. ASSUME NEW pw \in 0..MaxPassword, Authenticate(r, pw) PROVE LoginIInv'
  <2>1. CASE disabled \/ pw # passwd
    <3>1. call' = [call EXCEPT ![r] = Idle] /\ call[r].pc = "idle" /\ PendingMoves
          BY <1>1, <2>1, PendingStays DEF Authenticate
    <3> QED BY <1>1, <3>1, RequestEnds DEF Authenticate
  <2>2. CASE ~(disabled \/ pw # passwd)
    <3>1. PICK f : f = [Idle EXCEPT !.pc = "totp?", !.kind = "login", !.pw = pw, !.steady = Factors(totp, passkeys)]
          OBVIOUS
    <3>2. pw \in Nat /\ Factors(totp, passkeys) \subseteq FactorNames
          BY LoginAssumption DEF Factors, FactorNames
    <3>3. f \in LoginCall /\ f.pc = "totp?" /\ f.steady = Factors(totp, passkeys)
          BY <3>1, <3>2, IdleIsOK DEF LoginCall, Idle
    <3>4. call' = [call EXCEPT ![r] = f] /\ call[r].pc = "idle" /\ UNCHANGED <<store, history>>
          BY <1>1, <2>2, <3>1 DEF Authenticate
    <3>5. LoginCallOK(f)' BY <3>3, <3>4 DEF LoginCallOK, JudgePlaces
    <3>6. PendingMoves BY <3>4, PendingStays
    <3>7. f.pc \notin JudgePlaces /\ f.pc # "add" /\ call[r].pc # "revoke" BY <3>3, <3>4 DEF JudgePlaces
    <3> QED BY <3>3, <3>4, <3>5, <3>6, <3>7, RequestReads
  <2> QED BY <2>1, <2>2
<1>2. CASE AskTOTP(r)
  <2>1. PICK f : f = [call[r] EXCEPT !.pc = "passkeys?", !.factors = Factors(totp, {})]
        OBVIOUS
  <2>2. Factors(totp, {}) \subseteq FactorNames BY DEF Factors, FactorNames
  <2>3. call[r] \in LoginCall /\ LoginCallOK(call[r]) BY DEF LoginIInv, LoginTypeOK, LoginCallsOK
  <2>4. f \in LoginCall /\ f.pc = "passkeys?" /\ f.factors = Factors(totp, {}) /\ f.steady = call[r].steady
        BY <2>1, <2>2, <2>3 DEF LoginCall
  <2>5. call' = [call EXCEPT ![r] = f] /\ call[r].pc = "totp?" /\ UNCHANGED <<store, history>>
        BY <1>2, <2>1 DEF AskTOTP
  <2>6. f.steady \subseteq Factors(totp, passkeys) BY <2>3, <2>4 DEF LoginCallOK
  <2>7. f.steady \subseteq f.factors \cup f.unread \cup {"passkey"} BY <2>4, <2>6 DEF Factors
  <2>8. LoginCallOK(f)' BY <2>4, <2>5, <2>6, <2>7 DEF LoginCallOK, JudgePlaces
  <2>9. PendingMoves BY <2>5, PendingStays
  <2>10. f.pc \notin JudgePlaces /\ f.pc # "add" /\ call[r].pc # "revoke" BY <2>4, <2>5 DEF JudgePlaces
  <2> QED BY <2>4, <2>5, <2>8, <2>9, <2>10, RequestReads
<1>6. CASE TOTPUnread(r)
  <2>1. PICK f : f = [call[r] EXCEPT !.pc = "passkeys?", !.unread = @ \cup {"totp"}]
        OBVIOUS
  <2>3. call[r] \in LoginCall /\ LoginCallOK(call[r]) BY DEF LoginIInv, LoginTypeOK, LoginCallsOK
  <2>4. /\ f \in LoginCall /\ f.pc = "passkeys?" /\ f.steady = call[r].steady
        /\ f.unread = call[r].unread \cup {"totp"}
        BY <2>1, <2>3 DEF LoginCall, FactorNames
  <2>5. call' = [call EXCEPT ![r] = f] /\ call[r].pc = "totp?" /\ UNCHANGED <<store, history>>
        BY <1>6, <2>1 DEF TOTPUnread
  <2>6. f.steady \subseteq Factors(totp, passkeys) /\ f.steady \subseteq FactorNames
        BY <2>3, <2>4 DEF LoginCallOK, LoginCall
  <2>7. f.steady \subseteq f.factors \cup f.unread \cup {"passkey"} BY <2>4, <2>6 DEF FactorNames
  <2>8. LoginCallOK(f)' BY <2>4, <2>5, <2>6, <2>7 DEF LoginCallOK, JudgePlaces
  <2>9. PendingMoves BY <2>5, PendingStays
  <2>10. f.pc \notin JudgePlaces /\ f.pc # "add" /\ call[r].pc # "revoke" BY <2>4, <2>5 DEF JudgePlaces
  <2> QED BY <2>4, <2>5, <2>8, <2>9, <2>10, RequestReads
<1>7. CASE PasskeysUnread(r)
  <2>1. PICK f : f = [call[r] EXCEPT !.unread = @ \cup {"passkey"},
                                     !.pc = IF call[r].factors # {} THEN "issue" ELSE "finish"]
        OBVIOUS
  <2>3. call[r] \in LoginCall /\ LoginCallOK(call[r]) BY DEF LoginIInv, LoginTypeOK, LoginCallsOK
  <2>4. /\ f \in LoginCall /\ f.pc = IF call[r].factors # {} THEN "issue" ELSE "finish"
        /\ f.steady = call[r].steady /\ f.unread = call[r].unread \cup {"passkey"}
        BY <2>1, <2>3 DEF LoginCall, FactorNames
  <2>5. call' = [call EXCEPT ![r] = f] /\ call[r].pc = "passkeys?" /\ UNCHANGED <<store, history>>
        BY <1>7, <2>1 DEF PasskeysUnread
  <2>6. /\ f.steady \subseteq Factors(totp, passkeys)
        /\ f.steady \subseteq call[r].factors \cup call[r].unread \cup {"passkey"}
        BY <2>3, <2>4, <2>5 DEF LoginCallOK
  <2>7. f.pc = "finish" => f.steady \subseteq f.unread BY <2>4, <2>6
  <2>8. LoginCallOK(f)' BY <2>4, <2>5, <2>6, <2>7 DEF LoginCallOK, JudgePlaces
  <2>9. PendingMoves BY <2>5, PendingStays
  <2>10. f.pc \notin JudgePlaces /\ f.pc # "add" /\ call[r].pc # "revoke" BY <2>4, <2>5 DEF JudgePlaces
  <2> QED BY <2>4, <2>5, <2>8, <2>9, <2>10, RequestReads
<1>3. CASE AskPasskeys(r)
  <2>1. PICK f : f = [call[r] EXCEPT !.pc = IF factorsFound(r) # {} THEN "issue" ELSE "finish"]
        OBVIOUS
  <2>3. call[r] \in LoginCall /\ LoginCallOK(call[r]) BY DEF LoginIInv, LoginTypeOK, LoginCallsOK
  <2>4. /\ f \in LoginCall /\ f.pc = IF factorsFound(r) # {} THEN "issue" ELSE "finish"
        /\ f.steady = call[r].steady /\ f.unread = call[r].unread
        BY <2>1, <2>3 DEF LoginCall
  <2>5. call' = [call EXCEPT ![r] = f] /\ call[r].pc = "passkeys?" /\ UNCHANGED <<store, history>>
        BY <1>3, <2>1 DEF AskPasskeys
  <2>6. /\ f.steady \subseteq Factors(totp, passkeys)
        /\ f.steady \subseteq call[r].factors \cup f.unread \cup {"passkey"}
        BY <2>3, <2>4, <2>5 DEF LoginCallOK
  <2>7. f.pc = "finish" => f.steady \subseteq f.unread
    <3>1. SUFFICES ASSUME call[r].factors = {}, Factors(NoRow, passkeys) = {} PROVE f.steady \subseteq f.unread
          BY <2>4 DEF factorsFound
    <3>2. "passkey" \notin Factors(totp, passkeys) BY <3>1 DEF Factors, NoRow
    <3> QED BY <2>6, <3>1, <3>2
  <2>8. LoginCallOK(f)' BY <2>4, <2>5, <2>6, <2>7 DEF LoginCallOK, JudgePlaces
  <2>9. PendingMoves BY <2>5, PendingStays
  <2>10. f.pc \notin JudgePlaces /\ f.pc # "add" /\ call[r].pc # "revoke" BY <2>4, <2>5 DEF JudgePlaces
  <2> QED BY <2>4, <2>5, <2>8, <2>9, <2>10, RequestReads
<1>4. CASE LeaveLogin(r)
  <2>1. call' = [call EXCEPT ![r] = Idle] /\ call[r].pc # "revoke" /\ UNCHANGED <<store, history>>
        BY <1>4 DEF LeaveLogin
  <2> QED BY <2>1, PendingStays, RequestEnds
<1>5. ASSUME NEW t \in Tokens, issue(r, t) PROVE LoginIInv'
  <2>1. call[r].pw \in Nat BY DEF LoginIInv, LoginTypeOK, LoginCall
  <2>2. PendingMoves
    <3>1. PICK row : row = [state |-> "live", failures |-> 0, challenge |-> FALSE, pw |-> call[r].pw]
          OBVIOUS
    <3>2. row \in PendingRow /\ row.state = "live" /\ row.failures = 0 BY <2>1, <3>1 DEF PendingRow
    <3>3. pending' = [pending EXCEPT ![t] = row] /\ pending[t].state = "free" BY <1>5, <3>1 DEF issue
    <3> QED BY <3>2, <3>3 DEF PendingMoves, LoginIInv, LoginTypeOK
  <2> QED BY <1>5, <2>2, RequestEnds DEF issue
<1> QED BY <1>1, <1>2, <1>3, <1>4, <1>5, <1>6, <1>7

\* The answer to a pending login, up to the code that is right or wrong.
LEMMA JudgingKeeps ==
  ASSUME LoginIInv, NEW r \in Requests,
         \/ \E t \in Tokens, e \in BOOLEAN, c \in RecoveryCodes \cup ((0..MaxSecret) \X {"totp"}) :
              GetPending(r, t, e, c, "totp")
         \/ \E t \in Tokens, k \in Passkeys : GetPending(r, t, TRUE, k, "webauthn")
         \/ loadSecret(r) \/ VerifyFails(r) \/ ValidateLogin(r) \/ consume(r)
         \/ \E t \in Tokens : setWebAuthnSession(r, t)
  PROVE  LoginIInv'
<1> USE DEF On, Step, To, End, Begin, store, history
<1>0. call[r] \in LoginCall /\ LoginCallOK(call[r]) BY DEF LoginIInv, LoginTypeOK, LoginCallsOK
<1>1. ASSUME NEW t \in Tokens, NEW e \in BOOLEAN, NEW kind \in {"totp", "webauthn"},
             NEW c \in TotpCodes \cup Passkeys, kind = "totp" => c \in TotpCodes,
             GetPending(r, t, e, c, kind)
      PROVE  LoginIInv'
  <2>1. PICK f : f = [Idle EXCEPT !.pc = "load", !.kind = kind, !.tok = t, !.exact = e,
                                  !.pw = pending[t].pw, !.code = c, !.steady = Factors(totp, passkeys)]
        OBVIOUS
  <2>2. pending[t].pw \in Nat /\ Factors(totp, passkeys) \subseteq FactorNames
        BY DEF LoginIInv, LoginTypeOK, PendingRow, Factors, FactorNames
  <2>3. /\ f \in LoginCall /\ f.pc = "load" /\ f.tok = t /\ f.kind = kind /\ f.code = c
        /\ f.steady = Factors(totp, passkeys)
        BY <2>1, <2>2, IdleIsOK DEF LoginCall, Idle
  <2>4. /\ call' = [call EXCEPT ![r] = f] /\ call[r].pc = "idle" /\ UNCHANGED <<store, history>>
        /\ pending[t].state = "live"
        BY <1>1, <2>1 DEF GetPending
  <2>5. LoginCallOK(f)' BY <1>1, <2>3, <2>4 DEF LoginCallOK
  <2>6. PendingMoves BY <2>4, PendingStays
  <2> QED BY <2>3, <2>4, <2>5, <2>6, RequestReads
<1>2. CASE loadSecret(r)
  <2>1. PICK pc : pc = IF totp.state # "enabled" THEN "wrong"
                       ELSE IF call[r].code = <<totp.secret, "totp">> THEN "right"
                       ELSE IF call[r].code \in totp.codes THEN "spend" ELSE "wrong"
        OBVIOUS
  <2>2. pc \in {"wrong", "right", "spend"} /\ (pc = "spend" => call[r].code \in totp.codes) BY <2>1
  <2>3. PICK f : f = [call[r] EXCEPT !.row = totp, !.pc = pc] OBVIOUS
  <2>4. /\ call' = [call EXCEPT ![r] = f] /\ call[r].pc = "load" /\ call[r].kind = "totp"
        /\ UNCHANGED <<store, history>>
        BY <1>2, <2>1, <2>3 DEF loadSecret
  <2>5. totp \in TotpRow BY DEF LoginIInv, LoginTypeOK
  <2>6. /\ f \in LoginCall /\ f.pc = pc /\ f.tok = call[r].tok /\ f.kind = call[r].kind
        /\ f.code = call[r].code /\ f.steady = call[r].steady /\ f.row = totp
        BY <1>0, <2>2, <2>3, <2>5 DEF LoginCall
  <2>7. pc = "spend" => f.code \in RecoveryCodes /\ f.code \in f.row.codes
    <3> SUFFICES ASSUME pc = "spend" PROVE f.code \in RecoveryCodes /\ f.code \in f.row.codes
        OBVIOUS
    <3>1. f.code \in totp.codes /\ f.code \in TotpCodes BY <1>0, <2>2, <2>4, <2>6 DEF LoginCallOK
    <3>2. f.code \notin (0..MaxSecret) \X {"totp"} BY <2>5, <3>1 DEF TotpRow
    <3> QED BY <2>6, <3>1, <3>2 DEF TotpCodes
  <2>8. /\ call[r].tok \in Tokens /\ pending[call[r].tok].state # "free"
        /\ call[r].steady \subseteq Factors(totp, passkeys)
        BY <1>0, <2>4 DEF LoginCallOK, JudgePlaces
  <2>9. LoginCallOK(f)' BY <2>2, <2>4, <2>6, <2>7, <2>8 DEF LoginCallOK
  <2>10. PendingMoves BY <2>4, PendingStays
  <2>11. call[r].pc \in JudgePlaces /\ f.pc # "add" BY <2>2, <2>4, <2>6 DEF JudgePlaces
  <2> QED BY <2>4, <2>6, <2>9, <2>10, <2>11, RequestReads
<1>8. CASE VerifyFails(r)
  <2>1. PICK f : f = [call[r] EXCEPT !.pc = "wrong"] OBVIOUS
  <2>2. /\ call' = [call EXCEPT ![r] = f] /\ call[r].pc \in {"load", "spend"} /\ UNCHANGED <<store, history>>
        BY <1>8, <2>1 DEF VerifyFails
  <2>3. /\ f \in LoginCall /\ f.pc = "wrong" /\ f.tok = call[r].tok /\ f.kind = call[r].kind
        /\ f.steady = call[r].steady
        BY <1>0, <2>1 DEF LoginCall
  <2>4. LoginCallOK(f)' BY <1>0, <2>2, <2>3 DEF LoginCallOK, JudgePlaces
  <2>5. PendingMoves BY <2>2, PendingStays
  <2>6. call[r].pc \in JudgePlaces /\ f.pc # "add" BY <2>2, <2>3 DEF JudgePlaces
  <2>7. call[r].pc # "revoke" BY <2>2
  <2> QED BY <2>2, <2>3, <2>4, <2>5, <2>6, <2>7, RequestReads
<1>3. CASE ValidateLogin(r)
  <2>1. PICK f : f = [call[r] EXCEPT !.pc = IF call[r].code \in passkeys THEN "right" ELSE "wrong"]
        OBVIOUS
  <2>2. /\ call' = [call EXCEPT ![r] = f] /\ call[r].pc = "load" /\ UNCHANGED <<store, history>>
        BY <1>3, <2>1 DEF ValidateLogin
  <2>3. /\ f \in LoginCall /\ f.pc \in {"right", "wrong"} /\ f.tok = call[r].tok /\ f.kind = call[r].kind
        /\ f.steady = call[r].steady
        BY <1>0, <2>1 DEF LoginCall
  <2>4. LoginCallOK(f)' BY <1>0, <2>2, <2>3 DEF LoginCallOK, JudgePlaces
  <2>5. PendingMoves BY <2>2, PendingStays
  <2>6. call[r].pc \in JudgePlaces /\ f.pc # "add" BY <2>2, <2>3 DEF JudgePlaces
  <2> QED BY <2>2, <2>3, <2>4, <2>5, <2>6, RequestReads
<1>4. CASE consume(r)
  <2>1. PICK f : f = [call[r] EXCEPT !.pc = "finish"] OBVIOUS
  <2>2. /\ call' = [call EXCEPT ![r] = f] /\ call[r].pc = "right"
        /\ UNCHANGED <<passwd, disabled, totp, passkeys, reg, session, history>>
        BY <1>4, <2>1 DEF consume
  <2>3. /\ f \in LoginCall /\ f.pc = "finish" /\ f.kind = call[r].kind /\ f.steady = call[r].steady
        BY <1>0, <2>1 DEF LoginCall
  <2>4. LoginCallOK(f)' BY <1>0, <2>2, <2>3 DEF LoginCallOK, JudgePlaces
  <2>5. call[r].tok \in Tokens /\ pending[call[r].tok].state # "free" BY <1>0, <2>2 DEF LoginCallOK
  <2>6. PendingMoves
        BY <1>4, <2>5, PendingStays DEF consume, PendingMoves, LoginIInv, LoginTypeOK, PendingRow
  <2>7. f.pc \notin JudgePlaces /\ f.pc # "add" /\ call[r].pc # "revoke" BY <2>2, <2>3 DEF JudgePlaces
  <2> QED BY <2>2, <2>3, <2>4, <2>6, <2>7, RequestReads
<1>5. ASSUME NEW t \in Tokens, setWebAuthnSession(r, t) PROVE LoginIInv'
  <2>1. PendingMoves
    <3>1. PICK p : p = [pending[t] EXCEPT !.challenge = TRUE] OBVIOUS
    <3>2. pending \in [Tokens -> PendingRow] BY DEF LoginIInv, LoginTypeOK
    <3>3. pending' = [pending EXCEPT ![t] = p] BY <1>5, <3>1 DEF setWebAuthnSession
    <3>4. p \in PendingRow /\ p.state = pending[t].state /\ p.failures = pending[t].failures
          BY <3>1, <3>2 DEF PendingRow
    <3>5. pending[t].state = "live" BY <1>5 DEF setWebAuthnSession
    <3>6. pending' \in [Tokens -> PendingRow] /\ pending'[t] = p /\ \A u \in Tokens \ {t} : pending'[u] = pending[u]
          BY <3>2, <3>3, <3>4
    <3> QED BY <3>4, <3>5, <3>6 DEF PendingMoves
  <2> QED BY <1>5, <2>1, RequestEnds DEF setWebAuthnSession
<1>6. \A t \in Tokens, e \in BOOLEAN, c \in RecoveryCodes \cup ((0..MaxSecret) \X {"totp"}) :
        GetPending(r, t, e, c, "totp") => LoginIInv'
      BY <1>1 DEF TotpCodes
<1>7. \A t \in Tokens, k \in Passkeys : GetPending(r, t, TRUE, k, "webauthn") => LoginIInv'
      BY <1>1
<1> QED BY <1>2, <1>3, <1>4, <1>5, <1>6, <1>7, <1>8

\* A request that starts at a place where it has only to act.
LEMMA RequestStarts ==
  ASSUME LoginIInv, NEW r \in Requests, NEW f \in LoginCall, call' = [call EXCEPT ![r] = f], call[r].pc = "idle",
         f.pc \in {"upsert", "drop", "count", "update"}, f.steady = {},
         UNCHANGED <<passwd, disabled, totp, passkeys, pending, session, history>>
  PROVE  LoginIInv'
<1>1. LoginCallOK(f)' BY DEF LoginCallOK, JudgePlaces
<1>2. PendingMoves BY PendingStays
<1>3. f.pc \notin JudgePlaces /\ f.pc # "add" /\ call[r].pc # "revoke" BY DEF JudgePlaces
<1> QED BY <1>1, <1>2, <1>3, RequestReads DEF history

\* Enrolment, removal, registration and the change of the password, up to their write.
LEMMA ChecksKeep ==
  ASSUME LoginIInv, NEW r \in Requests,
         \/ \E s \in Sessions : BeginEnrolment(r, s) \/ EnrolUnread(r, s)
         \/ \E s \in Sessions, n \in 1..MaxSecret : Confirm(r, s, n)
         \/ \E s \in Sessions, pw \in 0..MaxPassword : Disable(r, s, pw)
         \/ AdminReset(r) \/ KeepTOTP(r)
         \/ \E s \in Sessions : RegisterBegin(r, s) \/ RegisterFinish(r, s)
         \/ CountPasskeys(r)
         \/ \E s \in Sessions, pw \in 0..MaxPassword : VerifyPassword(r, s, pw)
  PROVE  LoginIInv'
<1> USE DEF On, Step, To, End, Begin
<1>0. call[r] \in LoginCall /\ LoginCallOK(call[r]) /\ totp \in TotpRow
      BY DEF LoginIInv, LoginTypeOK, LoginCallsOK
<1>1. ASSUME call' = [call EXCEPT ![r] = Idle], call[r].pc # "revoke",
             UNCHANGED <<passwd, disabled, totp, passkeys, pending, session, history>>
      PROVE  LoginIInv'
      BY <1>1, PendingStays, RequestEnds DEF history
<1>2. ASSUME NEW s \in Sessions, BeginEnrolment(r, s) PROVE LoginIInv'
  <2>1. CASE totp.state = "enabled" BY <1>1, <1>2, <2>1 DEF BeginEnrolment, store
  <2>2. CASE totp.state # "enabled"
    <3>1. PICK f : f = [Idle EXCEPT !.pc = "upsert", !.kind = "enrol"] OBVIOUS
    <3>2. f \in LoginCall /\ f.pc = "upsert" /\ f.steady = {} BY <1>0, <3>1, IdleIsOK DEF LoginCall, Idle
    <3>3. call' = [call EXCEPT ![r] = f] BY <1>2, <2>2, <3>1 DEF BeginEnrolment
    <3> QED BY <1>2, <3>2, <3>3, RequestStarts DEF BeginEnrolment, store
  <2> QED BY <2>1, <2>2
<1>10. ASSUME NEW s \in Sessions, EnrolUnread(r, s) PROVE LoginIInv'
  <2>1. PICK f : f = [Idle EXCEPT !.pc = "upsert", !.kind = "enrol"] OBVIOUS
  <2>2. f \in LoginCall /\ f.pc = "upsert" /\ f.steady = {} BY <1>0, <2>1, IdleIsOK DEF LoginCall, Idle
  <2>3. call' = [call EXCEPT ![r] = f] BY <1>10, <2>1 DEF EnrolUnread
  <2> QED BY <1>10, <2>2, <2>3, RequestStarts DEF EnrolUnread, store
<1>11. CASE KeepTOTP(r)
  <2>1. PICK f : f = [call[r] EXCEPT !.pc = "keys"] OBVIOUS
  <2>2. f \in LoginCall /\ f.pc = "keys" /\ f.steady = call[r].steady BY <1>0, <2>1 DEF LoginCall
  <2>3. call' = [call EXCEPT ![r] = f] /\ call[r].pc = "drop" /\ UNCHANGED <<store, history>>
        BY <1>11, <2>1 DEF KeepTOTP
  <2>4. LoginCallOK(f)' BY <1>0, <2>2, <2>3 DEF LoginCallOK, JudgePlaces, store, history
  <2>5. PendingMoves BY <2>3, PendingStays DEF store
  <2>6. f.pc \notin JudgePlaces /\ f.pc # "add" /\ call[r].pc # "revoke" BY <2>2, <2>3 DEF JudgePlaces
  <2> QED BY <2>2, <2>3, <2>4, <2>5, <2>6, RequestReads DEF store, history
<1>3. ASSUME NEW s \in Sessions, NEW n \in 1..MaxSecret, Confirm(r, s, n) PROVE LoginIInv'
  <2>1. CASE totp.state = "pending" /\ totp.secret = n
    <3>1. PICK f : f = [Idle EXCEPT !.pc = "enable", !.kind = "enrol", !.row = totp] OBVIOUS
    <3>2. f \in LoginCall /\ f.pc = "enable" /\ f.steady = {} /\ f.row = totp
          BY <1>0, <3>1, IdleIsOK DEF LoginCall, Idle
    <3>3. /\ call' = [call EXCEPT ![r] = f] /\ call[r].pc = "idle" /\ proven' = proven \cup {n}
          /\ UNCHANGED <<store, secrets, raced, wrong, spent>>
          BY <1>3, <2>1, <3>1 DEF Confirm
    <3>4. LoginCallOK(f)' BY <2>1, <3>2, <3>3 DEF LoginCallOK, JudgePlaces, store
    <3>5. PendingMoves BY <3>3, PendingStays DEF store
    <3>6. f.pc \notin JudgePlaces /\ f.pc # "add" /\ call[r].pc # "revoke" BY <3>2, <3>3 DEF JudgePlaces
    <3> QED BY <3>2, <3>3, <3>4, <3>5, <3>6, RequestReads DEF store
  <2>2. CASE ~(totp.state = "pending" /\ totp.secret = n) BY <1>1, <1>3, <2>2 DEF Confirm, store, history
  <2> QED BY <2>1, <2>2
<1>4. ASSUME NEW s \in Sessions, NEW pw \in 0..MaxPassword, Disable(r, s, pw) PROVE LoginIInv'
  <2>1. CASE pw # passwd BY <1>1, <1>4, <2>1 DEF Disable, store
  <2>2. CASE pw = passwd
    <3>1. PICK f : f = [Idle EXCEPT !.pc = "drop", !.kind = "disable"] OBVIOUS
    <3>2. f \in LoginCall /\ f.pc = "drop" /\ f.steady = {} BY <3>1, IdleIsOK DEF LoginCall, Idle
    <3>3. call' = [call EXCEPT ![r] = f] BY <1>4, <2>2, <3>1 DEF Disable
    <3> QED BY <1>4, <3>2, <3>3, RequestStarts DEF Disable, store
  <2> QED BY <2>1, <2>2
<1>5. CASE AdminReset(r)
  <2>1. PICK f : f = [Idle EXCEPT !.pc = "drop", !.kind = "reset"] OBVIOUS
  <2>2. f \in LoginCall /\ f.pc = "drop" /\ f.steady = {} BY <2>1, IdleIsOK DEF LoginCall, Idle
  <2>3. call' = [call EXCEPT ![r] = f] BY <1>5, <2>1 DEF AdminReset
  <2> QED BY <1>5, <2>2, <2>3, RequestStarts DEF AdminReset, store
<1>6. ASSUME NEW s \in Sessions, RegisterBegin(r, s) PROVE LoginIInv'
      BY <1>1, <1>6 DEF RegisterBegin
<1>7. ASSUME NEW s \in Sessions, RegisterFinish(r, s) PROVE LoginIInv'
  <2>1. PICK f : f = [Idle EXCEPT !.pc = "count", !.kind = "register"] OBVIOUS
  <2>2. f \in LoginCall /\ f.pc = "count" /\ f.steady = {} BY <2>1, IdleIsOK DEF LoginCall, Idle
  <2>3. call' = [call EXCEPT ![r] = f] BY <1>7, <2>1 DEF RegisterFinish
  <2> QED BY <1>7, <2>2, <2>3, RequestStarts DEF RegisterFinish
<1>8. CASE CountPasskeys(r)
  <2>1. CASE Cardinality(passkeys) >= MaxPasskeys BY <1>1, <1>8, <2>1 DEF CountPasskeys, store
  <2>2. CASE ~(Cardinality(passkeys) >= MaxPasskeys)
    <3>1. PICK f : f = [call[r] EXCEPT !.pc = "add"] OBVIOUS
    <3>2. f \in LoginCall /\ f.pc = "add" /\ f.steady = call[r].steady BY <1>0, <3>1 DEF LoginCall
    <3>3. call' = [call EXCEPT ![r] = f] /\ call[r].pc = "count" /\ UNCHANGED <<store, history>>
          BY <1>8, <2>2, <3>1 DEF CountPasskeys
    <3>4. LoginCallOK(f)' BY <1>0, <3>2, <3>3 DEF LoginCallOK, JudgePlaces, store, history
    <3>5. PendingMoves BY <3>3, PendingStays DEF store
    <3>6. f.pc \notin JudgePlaces /\ call[r].pc # "revoke" BY <3>2, <3>3 DEF JudgePlaces
    <3>7. Cardinality(passkeys) < MaxPasskeys BY <2>2, LoginCounts DEF LoginIInv
    <3> QED BY <3>2, <3>3, <3>4, <3>5, <3>6, <3>7, RequestReads DEF store, history
  <2> QED BY <2>1, <2>2
<1>9. ASSUME NEW s \in Sessions, NEW pw \in 0..MaxPassword, VerifyPassword(r, s, pw) PROVE LoginIInv'
  <2>1. CASE pw # passwd BY <1>1, <1>9, <2>1 DEF VerifyPassword, store
  <2>2. CASE pw = passwd
    <3>1. PICK f : f = [Idle EXCEPT !.pc = "update", !.kind = "password", !.keep = s] OBVIOUS
    <3>2. f \in LoginCall /\ f.pc = "update" /\ f.steady = {} BY <3>1, IdleIsOK DEF LoginCall, Idle
    <3>3. call' = [call EXCEPT ![r] = f] BY <1>9, <2>2, <3>1 DEF VerifyPassword
    <3> QED BY <1>9, <3>2, <3>3, RequestStarts DEF VerifyPassword, store
  <2> QED BY <2>1, <2>2
<1> QED BY <1>2, <1>3, <1>4, <1>5, <1>6, <1>7, <1>8, <1>9, <1>10, <1>11

\* What the steps of the sessions do: the new session of a login that asked for what was
\* enabled, and the sessions that a change of the password or a disabled account ends.
LEMMA SessionsKeep ==
  ASSUME LoginIInv, NEW r \in Requests,
         \/ \E s \in Sessions : FinishLogin(r, s)
         \/ UpdatePassword(r) \/ DeleteAllForUser(r) \/ RevokeFails(r)
         \/ \E s \in Sessions : Logout(r, s)
         \/ SetDisabled(r)
  PROVE  LoginIInv'
<1> USE DEF On, Step, To, End, Begin
<1>0. call[r] \in LoginCall /\ LoginCallOK(call[r]) /\ session \in [Sessions -> SessionRow]
      /\ passwd \in Nat /\ disabled \in BOOLEAN
      BY DEF LoginIInv, LoginTypeOK, LoginCallsOK
<1>a. \A s \in Sessions : session[s] \in SessionRow BY <1>0
<1>1. ASSUME NEW f \in LoginCall, call' = [call EXCEPT ![r] = f], LoginCallOK(f)',
             f.pc \in {"idle", "revoke"},
             passwd' \in Nat, disabled' \in BOOLEAN, session' \in [Sessions -> SessionRow],
             UNCHANGED <<totp, passkeys, pending, history>>,
             SecondFactorAsked',
             (\A q \in Requests : call'[q].pc # "revoke") => SessionsRevoked'
      PROVE  LoginIInv'
  <2>1. PendingMoves BY <1>1, PendingStays
  <2>2. f.pc \notin JudgePlaces /\ f.pc # "add" BY <1>1 DEF JudgePlaces
  <2>3. /\ call' \in [Requests -> LoginCall] /\ call'[r] = f
        /\ \A q \in Requests \ {r} : call'[q] = call[q]
        /\ LoginCallsOK' /\ CodesUnspent' /\ PendingCounts' /\ GuessBudget' /\ KeyBudget'
        /\ RecoveryCodeOnce' /\ EnabledWasProven'
        BY <1>1, <2>1, <2>2, RequestMoves DEF history
  <2>4. SessionsRevoked' BY <1>1 DEF SessionsRevoked
  <2>5. LoginTypeOK' BY <1>1, <2>3 DEF LoginIInv, LoginTypeOK, history
  <2> QED BY <1>1, <2>3, <2>4, <2>5 DEF LoginIInv
<1>2. Idle \in LoginCall /\ LoginCallOK(Idle)' /\ Idle.pc = "idle" BY IdleIsOK
<1>3. ASSUME NEW s \in Sessions, FinishLogin(r, s) PROVE LoginIInv'
  <2>1. PICK row : row = [live |-> TRUE, used |-> TRUE, pw |-> call[r].pw,
                          excused |-> call[r].pw # passwd \/ disabled,
                          factor |-> call[r].kind # "login", steady |-> call[r].steady, unread |-> call[r].unread]
        OBVIOUS
  <2>2. /\ call[r].pw \in Nat /\ call[r].steady \subseteq FactorNames /\ call[r].pc = "finish"
        /\ call[r].unread \subseteq FactorNames
        /\ session' = [session EXCEPT ![s] = row] /\ call' = [call EXCEPT ![r] = Idle]
        /\ UNCHANGED <<passwd, disabled, totp, passkeys, reg, pending, history>>
        BY <1>0, <1>3, <2>1 DEF FinishLogin, LoginCall
  <2>3. row \in SessionRow BY <1>0, <2>1, <2>2 DEF SessionRow
  <2>4. /\ session' \in [Sessions -> SessionRow]
        /\ \A z \in Sessions : session'[z] = IF z = s THEN row ELSE session[z]
        BY <1>0, <2>2, <2>3
  <2>5. row.used /\ ~row.factor => row.steady \subseteq row.unread
        BY <1>0, <2>1, <2>2 DEF LoginCallOK
  <2>6. SecondFactorAsked' BY <2>4, <2>5 DEF LoginIInv, SecondFactorAsked
  <2>7. row.live => row.excused \/ (row.pw = passwd /\ ~disabled) BY <1>0, <2>1
  <2>8. (\A q \in Requests : call'[q].pc # "revoke") => SessionsRevoked'
    <3> SUFFICES ASSUME \A q \in Requests : call'[q].pc # "revoke" PROVE SessionsRevoked'
        OBVIOUS
    <3>1. \A q \in Requests : call[q].pc # "revoke"
          BY <2>2 DEF LoginIInv, LoginTypeOK
    <3> QED BY <2>2, <2>4, <2>7, <3>1 DEF LoginIInv, SessionsRevoked
  <2> QED BY <1>0, <1>1, <1>2, <2>2, <2>4, <2>6, <2>8
<1>4. CASE UpdatePassword(r)
  <2>1. PICK f : f = [call[r] EXCEPT !.pc = "revoke"] OBVIOUS
  <2>2. f \in LoginCall /\ f.pc = "revoke" /\ f.steady = call[r].steady BY <1>0, <2>1 DEF LoginCall
  <2>3. /\ call' = [call EXCEPT ![r] = f] /\ passwd' = passwd + 1
        /\ UNCHANGED <<disabled, totp, passkeys, pending, session, history>>
        BY <1>4, <2>1 DEF UpdatePassword
  <2>4. LoginCallOK(f)' BY <1>0, <2>2, <2>3 DEF LoginCallOK, JudgePlaces
  <2>5. call'[r].pc = "revoke" BY <2>2, <2>3 DEF LoginIInv, LoginTypeOK
  <2>6. SecondFactorAsked' BY <2>3 DEF LoginIInv, SecondFactorAsked
  <2>7. passwd' \in Nat /\ disabled' \in BOOLEAN /\ session' \in [Sessions -> SessionRow] BY <1>0, <2>3
  <2> QED BY <1>1, <2>2, <2>3, <2>4, <2>5, <2>6, <2>7
<1>5. CASE DeleteAllForUser(r)
  <2>1. /\ call' = [call EXCEPT ![r] = Idle] /\ UNCHANGED <<passwd, disabled, totp, passkeys, pending, history>>
        /\ session' = [s \in Sessions |->
             IF s = call[r].keep THEN [session[s] EXCEPT !.excused = TRUE]
             ELSE [session[s] EXCEPT !.live = FALSE]]
        BY <1>5 DEF DeleteAllForUser
  <2>2. ASSUME NEW s \in Sessions
        PROVE  /\ session'[s] \in SessionRow /\ (session'[s].live => session'[s].excused)
               /\ session'[s].used = session[s].used /\ session'[s].factor = session[s].factor
               /\ session'[s].steady = session[s].steady /\ session'[s].unread = session[s].unread
        BY <1>a, <2>1 DEF SessionRow
  <2>3. session' \in [Sessions -> SessionRow]
        BY <2>1, <2>2
  <2>4. SecondFactorAsked' BY <2>2 DEF LoginIInv, SecondFactorAsked
  <2>5. SessionsRevoked' BY <2>2 DEF SessionsRevoked
  <2> QED BY <1>0, <1>1, <1>2, <2>1, <2>3, <2>4, <2>5
<1>6. CASE RevokeFails(r)
  <2>1. /\ call' = [call EXCEPT ![r] = Idle] /\ UNCHANGED <<passwd, disabled, totp, passkeys, pending, history>>
        /\ session' = [s \in Sessions |-> [session[s] EXCEPT !.excused = TRUE]]
        BY <1>6 DEF RevokeFails
  <2>2. ASSUME NEW s \in Sessions
        PROVE  /\ session'[s] \in SessionRow /\ session'[s].excused
               /\ session'[s].used = session[s].used /\ session'[s].factor = session[s].factor
               /\ session'[s].steady = session[s].steady /\ session'[s].unread = session[s].unread
        BY <1>a, <2>1 DEF SessionRow
  <2>3. session' \in [Sessions -> SessionRow]
        BY <2>1, <2>2
  <2>4. SecondFactorAsked' BY <2>2 DEF LoginIInv, SecondFactorAsked
  <2>5. SessionsRevoked' BY <2>2 DEF SessionsRevoked
  <2> QED BY <1>0, <1>1, <1>2, <2>1, <2>3, <2>4, <2>5
<1>7. ASSUME NEW s \in Sessions, Logout(r, s) PROVE LoginIInv'
  <2>1. /\ call' = [call EXCEPT ![r] = Idle] /\ call[r].pc = "idle"
        /\ UNCHANGED <<passwd, disabled, totp, passkeys, pending, history>>
        /\ session' = [session EXCEPT ![s].live = FALSE]
        BY <1>7 DEF Logout
  <2>2. ASSUME NEW z \in Sessions
        PROVE  /\ session'[z] \in SessionRow /\ (session'[z].live => session[z].live)
               /\ session'[z].used = session[z].used /\ session'[z].factor = session[z].factor
               /\ session'[z].steady = session[z].steady /\ session'[z].pw = session[z].pw
               /\ session'[z].unread = session[z].unread
               /\ session'[z].excused = session[z].excused
        BY <1>0, <1>a, <2>1 DEF SessionRow
  <2>3. session' \in [Sessions -> SessionRow]
        BY <1>0, <2>1, <2>2
  <2>4. SecondFactorAsked' BY <2>2 DEF LoginIInv, SecondFactorAsked
  <2>5. \A q \in Requests : call[q].pc = "revoke" => call'[q].pc = "revoke"
        BY <2>1 DEF LoginIInv, LoginTypeOK
  <2>6. SessionsRevoked' BY <2>1, <2>2, <2>5 DEF LoginIInv, SessionsRevoked
  <2> QED BY <1>0, <1>1, <1>2, <2>1, <2>3, <2>4, <2>6
<1>8. CASE SetDisabled(r)
  <2>1. CASE disabled
    <3>1. /\ call' = [call EXCEPT ![r] = Idle] /\ call[r].pc = "idle" /\ disabled' = FALSE
          /\ UNCHANGED <<passwd, totp, passkeys, pending, session, history>>
          BY <1>8, <2>1 DEF SetDisabled
    <3>2. SecondFactorAsked' BY <3>1 DEF LoginIInv, SecondFactorAsked
    <3>3. \A q \in Requests : call[q].pc = "revoke" => call'[q].pc = "revoke"
          BY <3>1 DEF LoginIInv, LoginTypeOK
    <3>4. SessionsRevoked' BY <2>1, <3>1, <3>3 DEF LoginIInv, SessionsRevoked
    <3> QED BY <1>0, <1>1, <1>2, <3>1, <3>2, <3>4
  <2>2. CASE ~disabled
    <3>1. PICK f : f = [Idle EXCEPT !.pc = "revoke", !.kind = "admin"] OBVIOUS
    <3>2. f \in LoginCall /\ f.pc = "revoke" /\ f.steady = {} BY <3>1, IdleIsOK DEF LoginCall, Idle
    <3>3. /\ call' = [call EXCEPT ![r] = f] /\ disabled' \in BOOLEAN
          /\ UNCHANGED <<passwd, totp, passkeys, pending, session, history>>
          BY <1>8, <2>2, <3>1 DEF SetDisabled
    <3>4. LoginCallOK(f)' BY <3>2, <3>3 DEF LoginCallOK, JudgePlaces
    <3>5. call'[r].pc = "revoke" BY <3>2, <3>3 DEF LoginIInv, LoginTypeOK
    <3>6. SecondFactorAsked' BY <3>3 DEF LoginIInv, SecondFactorAsked
    <3> QED BY <1>0, <1>1, <3>2, <3>3, <3>4, <3>5, <3>6
  <2> QED BY <2>1, <2>2
<1> QED BY <1>3, <1>4, <1>5, <1>6, <1>7, <1>8

\* The requests but one stay where they are, with no more factors than before: the codes
\* being judged and the registrations past their count do not grow, and no revocation ends.
LEMMA OthersWait ==
  ASSUME LoginIInv, NEW r \in Requests, call' \in [Requests -> LoginCall],
         call[r].pc # "revoke", call'[r].pc \notin JudgePlaces \cup {"add"},
         \A q \in Requests \ {r} : call'[q].pc = call[q].pc /\ call'[q].tok = call[q].tok,
         passkeys' \subseteq passkeys, UNCHANGED <<passwd, disabled, pending, session, wrong>>
  PROVE  PendingCounts' /\ GuessBudget' /\ KeyBudget' /\ SecondFactorAsked' /\ SessionsRevoked'
<1> USE DEF LoginIInv
<1>1. PendingCounts' BY DEF PendingCounts
<1>2. GuessBudget'
  <2> SUFFICES ASSUME NEW t \in Tokens
               PROVE  wrong[t] + Cardinality(Judging(t)') =< MaxMFAFailures + Cardinality(Requests) - 1
      BY DEF GuessBudget
  <2>1. Judging(t)' \subseteq Judging(t) BY DEF Judging
  <2>2. Cardinality(Judging(t)') =< Cardinality(Judging(t)) /\ IsFiniteSet(Judging(t)')
        BY <2>1, LoginCounts, FS_Subset
  <2>3. Cardinality(Judging(t)') \in Nat /\ wrong[t] \in Nat BY <2>2, FS_CardinalityType DEF LoginTypeOK
  <2> QED BY <2>2, <2>3, LoginCounts DEF GuessBudget
<1>3. KeyBudget'
  <2>1. Adding' \subseteq Adding BY DEF Adding
  <2>2. /\ Cardinality(Adding') =< Cardinality(Adding) /\ IsFiniteSet(Adding')
        /\ Cardinality(passkeys') =< Cardinality(passkeys) /\ IsFiniteSet(passkeys')
        BY <2>1, LoginCounts, FS_Subset
  <2>3. Cardinality(Adding') \in Nat /\ Cardinality(passkeys') \in Nat BY <2>2, FS_CardinalityType
  <2> QED BY <2>2, <2>3, LoginCounts DEF KeyBudget
<1>4. \A q \in Requests : call[q].pc = "revoke" => call'[q].pc = "revoke" OBVIOUS
<1> QED BY <1>1, <1>2, <1>3, <1>4, SessionsStay

\* verify spends a recovery code that nobody has spent since it was read.
LEMMA SpendKeeps == ASSUME LoginIInv, NEW r \in Requests, spendCode(r) PROVE LoginIInv'
<1> USE DEF On, Step, To
<1>0. call[r] \in LoginCall /\ LoginCallOK(call[r]) /\ totp \in TotpRow
      BY DEF LoginIInv, LoginTypeOK, LoginCallsOK
<1>1. PICK pc \in {"right", "wrong"} : pc = IF Matches(r) THEN "right" ELSE "wrong" OBVIOUS
<1>2. PICK f : f = [call[r] EXCEPT !.pc = pc] OBVIOUS
<1>3. /\ call' = [call EXCEPT ![r] = f] /\ call[r].pc = "spend"
      /\ UNCHANGED <<passwd, disabled, passkeys, reg, pending, session, served, secrets, proven, raced, wrong>>
      BY <1>1, <1>2 DEF spendCode
<1>4. /\ f \in LoginCall /\ f.pc = pc /\ f.tok = call[r].tok /\ f.kind = call[r].kind
      /\ f.steady = call[r].steady
      BY <1>0, <1>2 DEF LoginCall
<1>5. /\ call[r].code \in RecoveryCodes /\ call[r].code \in call[r].row.codes
      /\ call[r].kind \in {"totp", "webauthn"}
      /\ call[r].tok \in Tokens /\ pending[call[r].tok].state # "free"
      BY <1>0, <1>3 DEF LoginCallOK, JudgePlaces
<1>6. CASE ~Matches(r)
  <2>1. UNCHANGED <<totp, spent>> /\ pc = "wrong" BY <1>1, <1>6 DEF spendCode
  <2>2. LoginCallOK(f)' BY <1>0, <1>3, <1>4, <1>5, <2>1 DEF LoginCallOK, JudgePlaces
  <2>3. PendingMoves BY <1>3, PendingStays
  <2>4. call[r].pc \in JudgePlaces /\ f.pc # "add" BY <1>3, <1>4, <2>1 DEF JudgePlaces
  <2> QED BY <1>3, <1>4, <2>1, <2>2, <2>3, <2>4, RequestReads
<1>7. CASE Matches(r)
  <2>1. PICK c : c = call[r].code OBVIOUS
  <2>2. /\ c \in totp.codes /\ c \in RecoveryCodes /\ pc = "right"
        /\ totp' = [totp EXCEPT !.codes = totp.codes \ {c}] /\ spent' = [spent EXCEPT ![c] = @ + 1]
        BY <1>1, <1>5, <1>7, <2>1 DEF spendCode, Matches
  <2>3. /\ totp' \in TotpRow /\ totp'.state = totp.state /\ totp'.secret = totp.secret
        /\ totp'.codes = totp.codes \ {c}
        BY <1>0, <2>2 DEF TotpRow
  <2>4. /\ spent' \in [RecoveryCodes -> Nat] /\ spent[c] = 0 /\ spent'[c] = 1
        /\ \A d \in RecoveryCodes \ {c} : spent'[d] = spent[d]
    <3>1. spent \in [RecoveryCodes -> Nat] /\ spent[c] = 0 BY <2>2 DEF LoginIInv, LoginTypeOK, CodesUnspent
    <3> QED BY <2>2, <3>1
  <2>5. totp.state = "enabled" BY <2>2 DEF LoginIInv, CodesUnspent
  <2>6. /\ call' \in [Requests -> LoginCall] /\ call'[r] = f
        /\ \A q \in Requests \ {r} : call'[q] = call[q]
        BY <1>3, <1>4 DEF LoginIInv, LoginTypeOK
  <2>7. LoginTypeOK' BY <1>3, <2>3, <2>4, <2>6 DEF LoginIInv, LoginTypeOK
  <2>8. c[1] = totp.secret BY <2>2 DEF LoginIInv, CodesUnspent, FreshCodes
  <2>9. CodesUnspent'
    <3>1. totp'.secret =< secrets' /\ totp'.codes \subseteq FreshCodes(totp'.secret)
          BY <1>3, <2>3 DEF LoginIInv, CodesUnspent
    <3>2. ASSUME NEW d \in RecoveryCodes, d \in totp'.codes \/ d[1] > secrets PROVE spent'[d] = 0
      <4>1. d # c
            BY <2>3, <2>8, <3>2 DEF LoginIInv, CodesUnspent, LoginTypeOK, TotpRow, RecoveryCodes
      <4>2. spent[d] = 0 BY <2>3, <3>2 DEF LoginIInv, CodesUnspent
      <4> QED BY <2>4, <4>1, <4>2
    <3> QED BY <1>3, <2>3, <2>5, <3>1, <3>2 DEF CodesUnspent
  <2>10. RecoveryCodeOnce' BY <2>4 DEF LoginIInv, RecoveryCodeOnce
  <2>11. EnabledWasProven' BY <1>3, <2>3 DEF LoginIInv, EnabledWasProven
  <2>12. LoginCallsOK'
    <3>1. Factors(totp, passkeys)' = Factors(totp, passkeys) BY <1>3, <2>3 DEF Factors
    <3> SUFFICES ASSUME NEW q \in Requests PROVE LoginCallOK(call[q])'
        BY DEF LoginCallsOK
    <3>2. CASE q = r
          BY <1>0, <1>3, <1>4, <1>5, <2>2, <2>6, <3>1, <3>2 DEF LoginCallOK, JudgePlaces
    <3>3. CASE q # r
      <4>1. LoginCallOK(call[q]) /\ call'[q] = call[q] BY <2>6, <3>3 DEF LoginIInv, LoginCallsOK
      <4> QED BY <1>3, <2>3, <3>1, <4>1 DEF LoginCallOK
    <3> QED BY <3>2, <3>3
  <2>13. call'[r].pc \notin JudgePlaces \cup {"add"} BY <1>4, <2>2, <2>6 DEF JudgePlaces
  <2>14. PendingCounts' /\ GuessBudget' /\ KeyBudget' /\ SecondFactorAsked' /\ SessionsRevoked'
         BY <1>3, <2>6, <2>13, OthersWait
  <2> QED BY <2>7, <2>9, <2>10, <2>11, <2>12, <2>14 DEF LoginIInv
<1> QED BY <1>6, <1>7

\* fail counts the wrong code, and the last one allowed discards the pending login.
LEMMA FailKeeps == ASSUME LoginIInv, NEW r \in Requests, fail(r) PROVE LoginIInv'
<1> USE DEF On, Step, End
<1>0. call[r] \in LoginCall /\ LoginCallOK(call[r]) /\ call[r].pc = "wrong"
      BY DEF LoginIInv, LoginTypeOK, LoginCallsOK, fail
<1>1. PICK t \in Tokens : t = call[r].tok BY <1>0 DEF LoginCallOK, JudgePlaces
<1>2. pending[t].state # "free" BY <1>0, <1>1 DEF LoginCallOK, JudgePlaces
<1>3. /\ call' = [call EXCEPT ![r] = Idle] /\ wrong' = [wrong EXCEPT ![t] = @ + 1]
      /\ pending' = IF pending[t].state # "live" THEN pending
                    ELSE [pending EXCEPT ![t].failures = pending[t].failures + 1,
                           ![t].state = IF pending[t].failures + 1 >= MaxMFAFailures THEN "gone" ELSE "live"]
      /\ UNCHANGED <<passwd, disabled, totp, passkeys, reg, session, secrets, proven, raced, spent>>
      BY <1>1 DEF fail
<1>4. /\ call' \in [Requests -> LoginCall] /\ call'[r] = Idle
      /\ \A q \in Requests \ {r} : call'[q] = call[q]
      BY <1>3, IdleIsOK DEF LoginIInv, LoginTypeOK
<1>5. /\ wrong' \in [Tokens -> Nat] /\ wrong'[t] = wrong[t] + 1 /\ wrong[t] \in Nat
      /\ \A u \in Tokens \ {t} : wrong'[u] = wrong[u]
      BY <1>3 DEF LoginIInv, LoginTypeOK
<1>6. /\ pending' \in [Tokens -> PendingRow] /\ \A u \in Tokens \ {t} : pending'[u] = pending[u]
      /\ pending'[t].state # "free"
      /\ pending'[t].state = "live" => /\ pending[t].state = "live"
                                       /\ pending'[t].failures = pending[t].failures + 1
                                       /\ ~(pending[t].failures + 1 >= MaxMFAFailures)
  <2>1. pending \in [Tokens -> PendingRow] /\ pending[t] \in PendingRow BY DEF LoginIInv, LoginTypeOK
  <2>2. CASE pending[t].state # "live" BY <1>2, <1>3, <2>1, <2>2
  <2>3. CASE pending[t].state = "live"
    <3>1. PICK end \in {"gone", "live"} :
            end = IF pending[t].failures + 1 >= MaxMFAFailures THEN "gone" ELSE "live"
          OBVIOUS
    <3>2. PICK row : row = [pending[t] EXCEPT !.failures = pending[t].failures + 1, !.state = end]
          OBVIOUS
    <3>3. row \in PendingRow /\ row.failures = pending[t].failures + 1 /\ row.state = end
      <4>1. pending[t].failures + 1 \in Nat BY <2>1 DEF PendingRow
      <4> QED BY <2>1, <3>2, <4>1 DEF PendingRow
    <3>4. pending' = [pending EXCEPT ![t] = row]
      <4>1. pending' = [pending EXCEPT ![t].failures = pending[t].failures + 1, ![t].state = end]
            BY <1>3, <2>3, <3>1
      <4> QED BY <2>1, <3>2, <4>1
    <3> QED BY <2>1, <2>3, <3>1, <3>3, <3>4
  <2> QED BY <2>2, <2>3
<1>7. LoginTypeOK' BY <1>3, <1>4, <1>5, <1>6 DEF LoginIInv, LoginTypeOK
<1>8. PendingCounts'
  <2> SUFFICES ASSUME NEW u \in Tokens
               PROVE  /\ pending'[u].state = "live" => wrong'[u] = pending'[u].failures /\ wrong'[u] < MaxMFAFailures
                      /\ pending'[u].state = "free" => wrong'[u] = 0
      BY DEF PendingCounts
  <2>1. CASE u # t BY <1>5, <1>6, <2>1 DEF LoginIInv, PendingCounts
  <2>2. CASE u = t
        BY <1>5, <1>6, <2>2, LoginCounts DEF LoginIInv, PendingCounts
  <2> QED BY <2>1, <2>2
<1>9. GuessBudget'
  <2> SUFFICES ASSUME NEW u \in Tokens
               PROVE  wrong'[u] + Cardinality(Judging(u)') =< MaxMFAFailures + Cardinality(Requests) - 1
      BY DEF GuessBudget
  <2>1. /\ IsFiniteSet(Judging(u)) /\ Cardinality(Judging(u)) \in Nat /\ Cardinality(Requests) \in Nat
        /\ MaxMFAFailures \in Nat /\ wrong[u] \in Nat
        /\ wrong[u] + Cardinality(Judging(u)) =< MaxMFAFailures + Cardinality(Requests) - 1
        BY LoginCounts DEF LoginIInv, LoginTypeOK, GuessBudget
  <2>2. Judging(u)' = Judging(u) \ {r} BY <1>4, IdleIsOK DEF Judging, JudgePlaces
  <2>3. CASE u = t
    <3>1. r \in Judging(u) BY <1>0, <1>1, <2>3 DEF Judging, JudgePlaces
    <3>2. Cardinality(Judging(u)') = Cardinality(Judging(u)) - 1 BY <2>1, <2>2, <3>1, FS_RemoveElement
    <3> QED BY <1>5, <2>1, <2>3, <3>2
  <2>4. CASE u # t
    <3>1. /\ Cardinality(Judging(u)') =< Cardinality(Judging(u)) /\ IsFiniteSet(Judging(u)')
          BY <2>1, <2>2, FS_Subset
    <3>2. Cardinality(Judging(u)') \in Nat BY <3>1, FS_CardinalityType
    <3> QED BY <1>5, <2>1, <2>4, <3>1, <3>2
  <2> QED BY <2>3, <2>4
<1>10. KeyBudget'
  <2>1. Adding' = Adding BY <1>0, <1>4, IdleIsOK DEF Adding
  <2> QED BY <1>3, <2>1 DEF LoginIInv, KeyBudget
<1>11. LoginCallsOK'
  <2> SUFFICES ASSUME NEW q \in Requests PROVE LoginCallOK(call[q])'
      BY DEF LoginCallsOK
  <2>1. CASE q = r BY <1>4, <2>1, IdleIsOK DEF LoginCallOK
  <2>2. CASE q # r
    <3>1. LoginCallOK(call[q]) /\ call'[q] = call[q] BY <1>4, <2>2 DEF LoginIInv, LoginCallsOK
    <3>2. \A u \in Tokens : pending[u].state # "free" => pending'[u].state # "free" BY <1>6
    <3>3. UNCHANGED <<totp, passkeys, proven, raced>> BY <1>3
    <3>4. Factors(totp, passkeys)' = Factors(totp, passkeys) BY <3>3 DEF Factors
    <3> QED BY <3>1, <3>2, <3>3, <3>4 DEF LoginCallOK
  <2> QED BY <2>1, <2>2
<1>12. CodesUnspent' /\ RecoveryCodeOnce' /\ EnabledWasProven'
       BY <1>3 DEF LoginIInv, CodesUnspent, RecoveryCodeOnce, EnabledWasProven
<1>13. \A q \in Requests : call[q].pc = "revoke" => call'[q].pc = "revoke" BY <1>0, <1>4
<1>14. SecondFactorAsked' /\ SessionsRevoked' BY <1>3, <1>13, SessionsStay
<1> QED BY <1>7, <1>8, <1>9, <1>10, <1>11, <1>12, <1>14 DEF LoginIInv

\* A request stays in order when the factors change and it keeps those that still hold.
LEMMA SteadyStaysOK ==
  ASSUME LoginTypeOK, NEW c \in LoginCall, NEW d, LoginCallOK(c), UNCHANGED <<pending, proven>>,
         d = [c EXCEPT !.steady = c.steady \cap Factors(totp', passkeys')],
         c.pc = "enable" /\ totp'.state = "pending" => totp'.secret = c.row.secret \/ raced'
  PROVE  LoginCallOK(d)' /\ d.pc = c.pc /\ d.tok = c.tok
<1>1. PICK F : F = Factors(totp', passkeys') OBVIOUS
<1>2. Factors(totp, passkeys)' = F BY <1>1 DEF Factors
<1>5. d = [c EXCEPT !.steady = c.steady \cap F] BY <1>1
<1>3. /\ d.pc = c.pc /\ d.tok = c.tok /\ d.kind = c.kind /\ d.code = c.code /\ d.row = c.row
      /\ d.factors = c.factors /\ d.unread = c.unread /\ d.steady = c.steady \cap F
      BY <1>5 DEF LoginCall
<1>4. LoginCallOK(d)'
  <2>1. d.steady \subseteq F BY <1>3
  <2> QED BY <1>2, <1>3, <2>1 DEF LoginCallOK
<1> QED BY <1>3, <1>4

\* A step that takes a factor away, or replaces the row: BeginEnrolment's write, and the removals.
LEMMA FactorGoes ==
  ASSUME LoginIInv, NEW r \in Requests, NEW f \in LoginCall, LoginCallOK(f), f.pc \notin JudgePlaces \cup {"add"},
         call[r].pc # "revoke",
         call' = Steadily(totp', passkeys', [call EXCEPT ![r] = f]),
         totp' \in TotpRow, totp'.codes \subseteq FreshCodes(totp'.secret), totp'.state # "enabled" \/ totp' = totp,
         totp'.state # "enabled" => totp'.codes = {},
         totp'.state = "pending" => totp' = totp \/ totp'.secret = secrets + 1,
         totp'.secret =< secrets', secrets' \in Nat, secrets' >= secrets,
         raced' \in BOOLEAN, raced => raced',
         totp' = totp \/ totp'.state = "none" \/ (\A q \in Requests : call[q].pc = "enable" => raced'),
         f.pc = "enable" => f = call[r],
         passkeys' \subseteq passkeys,
         UNCHANGED <<passwd, disabled, pending, session, proven, wrong, spent>>
  PROVE  LoginIInv'
<1>0. PICK F : F = Factors(totp', passkeys') OBVIOUS
<1>1. call' = [p \in Requests |-> [[call EXCEPT ![r] = f][p] EXCEPT !.steady = @ \cap F]]
      BY <1>0 DEF Steadily
<1>2. ASSUME NEW q \in Requests
      PROVE  /\ LoginCallOK(call[q])' /\ call'[q].pc = (IF q = r THEN f ELSE call[q]).pc
             /\ call'[q].tok = (IF q = r THEN f ELSE call[q]).tok /\ call'[q] \in LoginCall
  <2>1. PICK c \in LoginCall : /\ c = IF q = r THEN f ELSE call[q]
                               /\ call'[q] = [c EXCEPT !.steady = c.steady \cap F]
                               /\ call'[q] \in LoginCall
    <3>1. call \in [Requests -> LoginCall] BY DEF LoginIInv, LoginTypeOK
    <3>2. PICK c \in LoginCall : c = IF q = r THEN f ELSE call[q] BY <3>1
    <3>3. [call EXCEPT ![r] = f][q] = c BY <3>1, <3>2
    <3>4. call'[q] = [c EXCEPT !.steady = c.steady \cap F] BY <1>1, <3>3
    <3>5. [c EXCEPT !.steady = c.steady \cap F] \in LoginCall BY DEF LoginCall
    <3> QED BY <3>2, <3>4, <3>5
  <2>2. LoginCallOK(c) BY <2>1 DEF LoginIInv, LoginCallsOK
  <2>3. PICK d : d = call'[q] OBVIOUS
  <2>4. d = [c EXCEPT !.steady = c.steady \cap Factors(totp', passkeys')] BY <1>0, <2>1, <2>3
  <2>5. c.pc = "enable" => call[q].pc = "enable" /\ c = call[q] BY <2>1
  <2>6. c.pc = "enable" /\ totp'.state = "pending" => totp'.secret = c.row.secret \/ raced'
        BY <2>2, <2>5 DEF LoginCallOK
  <2>7. LoginCallOK(d)' /\ d.pc = c.pc /\ d.tok = c.tok BY <2>2, <2>4, <2>6, SteadyStaysOK DEF LoginIInv
  <2>8. LoginCallOK(call[q])' BY <2>3, <2>7 DEF LoginCallOK
  <2> QED BY <2>1, <2>3, <2>7, <2>8
<1>9. call' \in [Requests -> LoginCall] BY <1>1, <1>2
<1>3. LoginCallsOK' BY <1>2 DEF LoginCallsOK
<1>4. LoginTypeOK' BY <1>9 DEF LoginIInv, LoginTypeOK
<1>5. CodesUnspent'
  <2>1. ASSUME NEW c \in RecoveryCodes,
               c \in totp'.codes \/ (totp'.state = "pending" /\ c[1] = totp'.secret) \/ c[1] > secrets'
        PROVE  spent'[c] = 0
    <3>1. c[1] \in Nat /\ secrets \in Nat BY DEF RecoveryCodes, LoginIInv, LoginTypeOK
    <3>2. \/ c[1] > secrets \/ totp' = totp \/ c \in totp'.codes
          BY <2>1, <3>1
    <3> QED BY <2>1, <3>1, <3>2 DEF LoginIInv, CodesUnspent
  <2> QED BY <2>1 DEF CodesUnspent
<1>6. RecoveryCodeOnce' BY DEF LoginIInv, RecoveryCodeOnce
<1>7. EnabledWasProven' BY DEF LoginIInv, EnabledWasProven
<1>8. PendingCounts' /\ GuessBudget' /\ KeyBudget' /\ SecondFactorAsked' /\ SessionsRevoked'
  <2>1. call'[r].pc \notin JudgePlaces \cup {"add"} BY <1>2
  <2>2. \A q \in Requests \ {r} : call'[q].pc = call[q].pc /\ call'[q].tok = call[q].tok BY <1>2
  <2> QED BY <1>9, <2>1, <2>2, OthersWait
<1> QED BY <1>3, <1>4, <1>5, <1>6, <1>7, <1>8 DEF LoginIInv

\* Upsert, the removals of handleTOTPDisable and handleAdminResetTOTP, and a deleted passkey.
LEMMA RemovalsKeep ==
  ASSUME LoginIInv, NEW r \in Requests,
         \/ Upsert(r) \/ DropTOTP(r) \/ DropPasskeys(r)
         \/ \E s \in Sessions, k \in Passkeys : DeletePasskey(r, s, k)
  PROVE  LoginIInv'
<1>0. /\ call[r] \in LoginCall /\ LoginCallOK(call[r]) /\ totp \in TotpRow /\ secrets \in Nat /\ raced \in BOOLEAN
      /\ totp.secret =< secrets /\ totp.codes \subseteq FreshCodes(totp.secret)
      /\ (totp.state # "enabled" => totp.codes = {})
      BY DEF LoginIInv, LoginTypeOK, LoginCallsOK, CodesUnspent
<1>1. Idle \in LoginCall /\ LoginCallOK(Idle) /\ Idle.pc = "idle" /\ NoRow \in TotpRow BY IdleIsOK
<1>2. NoRow.state = "none" /\ NoRow.codes = {} /\ NoRow.secret = 0 BY DEF NoRow
<1>3. CASE Upsert(r)
  <2>1. /\ totp' = [state |-> "pending", secret |-> secrets + 1, codes |-> {}] /\ secrets' = secrets + 1
        /\ call' = Steadily(totp', passkeys', [call EXCEPT ![r] = Idle]) /\ call[r].pc = "upsert"
        /\ raced' = (raced \/ \E q \in Requests : call[q].pc = "enable")
        /\ UNCHANGED <<passwd, disabled, passkeys, pending, session, proven, wrong, spent>>
        BY <1>3 DEF Upsert, On
  <2>2. totp' \in TotpRow /\ totp'.state = "pending" /\ totp'.secret = secrets + 1 /\ totp'.codes = {}
        BY <1>0, <2>1 DEF TotpRow
  <2>3. /\ raced' \in BOOLEAN /\ (raced => raced')
        /\ \A q \in Requests : call[q].pc = "enable" => raced'
        BY <2>1
  <2>4. Idle.pc \notin JudgePlaces \cup {"add"} /\ Idle.pc # "enable" BY <1>1 DEF JudgePlaces
  <2>5. secrets' \in Nat /\ secrets' >= secrets /\ totp'.secret =< secrets' BY <1>0, <2>1, <2>2
  <2> QED BY <1>1, <2>1, <2>2, <2>3, <2>4, <2>5, FactorGoes
<1>4. CASE DropTOTP(r)
  <2>1. PICK f : f = IF call[r].kind = "reset" THEN [call[r] EXCEPT !.pc = "keys"] ELSE Idle OBVIOUS
  <2>2. /\ totp' = NoRow /\ call' = Steadily(totp', passkeys', [call EXCEPT ![r] = f]) /\ call[r].pc = "drop"
        /\ UNCHANGED <<passwd, disabled, passkeys, pending, session, secrets, raced, proven, wrong, spent>>
        BY <1>4, <2>1 DEF DropTOTP, On, history
  <2>3. f \in LoginCall /\ f.pc \in {"keys", "idle"} /\ LoginCallOK(f)
    <3>1. CASE call[r].kind = "reset"
      <4>1. f \in LoginCall /\ f.pc = "keys" /\ f.steady = call[r].steady BY <1>0, <2>1, <3>1 DEF LoginCall
      <4>2. LoginCallOK(f) BY <1>0, <4>1 DEF LoginCallOK, JudgePlaces
      <4> QED BY <4>1, <4>2
    <3>2. CASE call[r].kind # "reset" BY <1>1, <2>1, <3>2
    <3> QED BY <3>1, <3>2
  <2>4. f.pc \notin JudgePlaces \cup {"add"} /\ f.pc # "enable" BY <2>3 DEF JudgePlaces
  <2>5. secrets' \in Nat /\ secrets' >= secrets /\ totp'.secret =< secrets' BY <1>0, <1>2, <2>2
  <2> QED BY <1>0, <1>1, <1>2, <2>2, <2>3, <2>4, <2>5, FactorGoes
<1>5. CASE DropPasskeys(r)
  <2>1. /\ call' = Steadily(totp', passkeys', [call EXCEPT ![r] = Idle]) /\ call[r].pc = "keys"
        /\ passkeys' = {}
        /\ UNCHANGED <<passwd, disabled, totp, pending, session, secrets, raced, proven, wrong, spent>>
        BY <1>5 DEF DropPasskeys, On, history
  <2>2. Idle.pc \notin JudgePlaces \cup {"add"} /\ Idle.pc # "enable" BY <1>1 DEF JudgePlaces
  <2>3. secrets' \in Nat /\ secrets' >= secrets /\ totp'.secret =< secrets' BY <1>0, <2>1
  <2> QED BY <1>0, <1>1, <2>1, <2>2, <2>3, FactorGoes
<1>6. ASSUME NEW s \in Sessions, NEW k \in Passkeys, DeletePasskey(r, s, k) PROVE LoginIInv'
  <2>1. /\ call' = Steadily(totp', passkeys', call) /\ call[r].pc = "idle" /\ passkeys' \subseteq passkeys
        /\ UNCHANGED <<passwd, disabled, totp, pending, session, secrets, raced, proven, wrong, spent>>
        BY <1>6 DEF DeletePasskey, On, history
  <2>2. [call EXCEPT ![r] = call[r]] = call BY DEF LoginIInv, LoginTypeOK
  <2>3. call[r].pc \notin JudgePlaces \cup {"add"} /\ call[r].pc # "enable" BY <2>1 DEF JudgePlaces
  <2>4. secrets' \in Nat /\ secrets' >= secrets /\ totp'.secret =< secrets' BY <1>0, <2>1
  <2>5. PICK f : f = call[r] OBVIOUS
  <2> QED BY <1>0, <2>1, <2>2, <2>3, <2>4, <2>5, FactorGoes
<1> QED BY <1>3, <1>4, <1>5, <1>6

\* Confirm's write and the new passkey: the others find more factors than before.
LEMMA NewFactorKeeps ==
  ASSUME LoginIInv, NEW r \in Requests, Enable(r) \/ \E k \in Passkeys : AddPasskey(r, k)
  PROVE  LoginIInv'
<1> USE DEF On, Step, End
<1>0. /\ call[r] \in LoginCall /\ LoginCallOK(call[r]) /\ totp \in TotpRow
      BY DEF LoginIInv, LoginTypeOK, LoginCallsOK
<1>1. ASSUME call' = [call EXCEPT ![r] = Idle], UNCHANGED <<pending, proven, raced>>,
             totp' = totp \/ totp'.state = "enabled", passkeys \subseteq passkeys'
      PROVE  /\ call' \in [Requests -> LoginCall] /\ LoginCallsOK' /\ call'[r] = Idle
             /\ \A q \in Requests \ {r} : call'[q] = call[q]
  <2>1. /\ call' \in [Requests -> LoginCall] /\ call'[r] = Idle
        /\ \A q \in Requests \ {r} : call'[q] = call[q]
        BY <1>1, IdleIsOK DEF LoginIInv, LoginTypeOK
  <2>2. Factors(totp, passkeys) \subseteq Factors(totp, passkeys)' BY <1>1 DEF Factors
  <2>3. ASSUME NEW q \in Requests PROVE LoginCallOK(call[q])'
    <3>1. CASE q = r BY <2>1, <3>1, IdleIsOK DEF LoginCallOK
    <3>2. CASE q # r
      <4>1. LoginCallOK(call[q]) /\ call'[q] = call[q] BY <2>1, <3>2 DEF LoginIInv, LoginCallsOK
      <4> QED BY <1>1, <2>2, <4>1 DEF LoginCallOK
    <3> QED BY <3>1, <3>2
  <2> QED BY <2>1, <2>3 DEF LoginCallsOK
<1>2. CASE Enable(r)
  <2>1. CASE totp.state # "pending"
        BY <1>2, <2>1, PendingStays, RequestEnds DEF Enable, history
  <2>2. CASE totp.state = "pending"
    <3>1. /\ call' = [call EXCEPT ![r] = Idle] /\ call[r].pc = "enable"
          /\ totp' = [totp EXCEPT !.state = "enabled", !.codes = FreshCodes(totp.secret)]
          /\ UNCHANGED <<passwd, disabled, passkeys, pending, session, secrets, proven, raced, wrong, spent>>
          BY <1>2, <2>2 DEF Enable, history
    <3>2. FreshCodes(totp.secret) \subseteq Nat \X {"x", "y"} BY <1>0 DEF FreshCodes, TotpRow
    <3>3. /\ totp' \in TotpRow /\ totp'.state = "enabled" /\ totp'.secret = totp.secret
          /\ totp'.codes = FreshCodes(totp.secret)
          BY <1>0, <3>1, <3>2 DEF TotpRow
    <3>4. /\ call' \in [Requests -> LoginCall] /\ LoginCallsOK' /\ call'[r] = Idle
          /\ \A q \in Requests \ {r} : call'[q] = call[q]
          BY <1>1, <3>1, <3>3
    <3>5. LoginTypeOK' BY <3>1, <3>3, <3>4 DEF LoginIInv, LoginTypeOK
    <3>6. CodesUnspent'
      <4>1. \A c \in FreshCodes(totp.secret) : c[1] = totp.secret BY DEF FreshCodes
      <4> QED BY <2>2, <3>1, <3>3, <4>1 DEF LoginIInv, CodesUnspent
    <3>7. RecoveryCodeOnce' BY <3>1 DEF LoginIInv, RecoveryCodeOnce
    <3>8. EnabledWasProven' BY <1>0, <2>2, <3>1, <3>3 DEF LoginCallOK, EnabledWasProven
    <3>9. call'[r].pc \notin JudgePlaces \cup {"add"} BY <3>4, IdleIsOK DEF JudgePlaces
    <3>10. PendingCounts' /\ GuessBudget' /\ KeyBudget' /\ SecondFactorAsked' /\ SessionsRevoked'
           BY <3>1, <3>4, <3>9, OthersWait
    <3> QED BY <3>4, <3>5, <3>6, <3>7, <3>8, <3>10 DEF LoginIInv
  <2> QED BY <2>1, <2>2
<1>3. ASSUME NEW k \in Passkeys, AddPasskey(r, k) PROVE LoginIInv'
  <2>1. /\ call' = [call EXCEPT ![r] = Idle] /\ call[r].pc = "add" /\ passkeys' = passkeys \cup {k}
        /\ k \notin passkeys
        /\ UNCHANGED <<passwd, disabled, totp, pending, session, secrets, proven, raced, wrong, spent>>
        BY <1>3 DEF AddPasskey, history
  <2>2. /\ call' \in [Requests -> LoginCall] /\ LoginCallsOK' /\ call'[r] = Idle
        /\ \A q \in Requests \ {r} : call'[q] = call[q]
        BY <1>1, <2>1
  <2>3. LoginTypeOK' BY <2>1, <2>2 DEF LoginIInv, LoginTypeOK
  <2>4. CodesUnspent' /\ RecoveryCodeOnce' /\ EnabledWasProven' /\ PendingCounts'
        BY <2>1 DEF LoginIInv, CodesUnspent, RecoveryCodeOnce, EnabledWasProven, PendingCounts
  <2>5. GuessBudget'
    <3>1. \A t : Judging(t)' = Judging(t) BY <2>1, <2>2, IdleIsOK DEF Judging, JudgePlaces
    <3> QED BY <2>1, <3>1 DEF LoginIInv, GuessBudget
  <2>6. KeyBudget'
    <3>1. Adding' = Adding \ {r} /\ r \in Adding BY <2>1, <2>2, IdleIsOK DEF Adding
    <3>2. Cardinality(Adding') = Cardinality(Adding) - 1
          BY <3>1, LoginCounts, FS_RemoveElement DEF LoginIInv
    <3>3. Cardinality(passkeys') = Cardinality(passkeys) + 1
          BY <2>1, LoginCounts, FS_AddElement DEF LoginIInv
    <3> QED BY <3>2, <3>3, LoginCounts DEF LoginIInv, KeyBudget
  <2>7. \A q \in Requests : call[q].pc = "revoke" => call'[q].pc = "revoke" BY <2>1, <2>2
  <2>8. SecondFactorAsked' /\ SessionsRevoked' BY <2>1, <2>7, SessionsStay
  <2> QED BY <2>2, <2>3, <2>4, <2>5, <2>6, <2>8 DEF LoginIInv
<1> QED BY <1>2, <1>3

\* A pending login that runs out.
LEMMA ExpireKeeps == ASSUME LoginIInv, NEW t \in Tokens, Expire(t) PROVE LoginIInv'
<1>1. /\ pending' = [pending EXCEPT ![t].state = "gone"]
      /\ UNCHANGED <<passwd, disabled, totp, passkeys, session, call, secrets, proven, raced, wrong, spent>>
      BY DEF Expire, history
<1>2. PendingMoves /\ \A u \in Tokens : pending[u].state # "free" => pending'[u].state # "free"
      BY <1>1 DEF LoginIInv, LoginTypeOK, PendingRow, PendingMoves
<1>3. LoginTypeOK' BY <1>1, <1>2 DEF LoginIInv, LoginTypeOK, PendingMoves
<1>4. LoginCallsOK'
  <2>1. Factors(totp, passkeys)' = Factors(totp, passkeys) BY <1>1 DEF Factors
  <2> QED BY <1>1, <1>2, <2>1 DEF LoginIInv, LoginCallsOK, LoginCallOK
<1>5. PendingCounts' BY <1>1, <1>2, LoginCounts DEF LoginIInv, PendingCounts, PendingMoves
<1>6. CodesUnspent' /\ RecoveryCodeOnce' /\ EnabledWasProven'
      BY <1>1 DEF LoginIInv, CodesUnspent, RecoveryCodeOnce, EnabledWasProven
<1>7. GuessBudget' /\ KeyBudget' BY <1>1 DEF LoginIInv, GuessBudget, KeyBudget, Judging, Adding
<1>8. SecondFactorAsked' /\ SessionsRevoked' BY <1>1, SessionsStay
<1> QED BY <1>3, <1>4, <1>5, <1>6, <1>7, <1>8 DEF LoginIInv

\* Every step of every request, and every expiry, keeps the invariant.
LEMMA LoginKeeps == LoginIInv /\ [LoginNext]_loginVars => LoginIInv'
<1> SUFFICES ASSUME LoginIInv, [LoginNext]_loginVars PROVE LoginIInv'
    OBVIOUS
<1>1. CASE UNCHANGED loginVars
      BY <1>1 DEF loginVars, LoginIInv, LoginTypeOK, LoginCallsOK, LoginCallOK, Factors, CodesUnspent,
                  PendingCounts, GuessBudget, KeyBudget, Judging, Adding, RecoveryCodeOnce, EnabledWasProven,
                  SecondFactorAsked, SessionsRevoked, On
<1>2. CASE LoginNext
      BY <1>2, PasswordKeeps, JudgingKeeps, ChecksKeep, SessionsKeep, SpendKeeps, FailKeeps, RemovalsKeep,
         NewFactorKeeps, ExpireKeeps DEF LoginNext
<1> QED BY <1>1, <1>2

\* The second factor is asked for and was proven, a recovery code is good for one login,
\* and wrong codes and passkeys pass their caps by no more than what overlaps; for any
\* number of requests, tokens, sessions and passkeys (SecondFactorSound).
THEOREM SecondFactorIsSound == LoginSpec => []SecondFactorSound
<1>1. LoginIInv => SecondFactorSound
  <2> SUFFICES ASSUME LoginIInv PROVE SecondFactorSound
      OBVIOUS
  <2>1. GuessesBounded
    <3> SUFFICES ASSUME NEW t \in Tokens PROVE wrong[t] =< MaxMFAFailures + Cardinality(Requests) - 1
        BY DEF GuessesBounded
    <3>1. wrong[t] \in Nat /\ wrong[t] + Cardinality(Judging(t)) =< MaxMFAFailures + Cardinality(Requests) - 1
          BY DEF LoginIInv, LoginTypeOK, GuessBudget
    <3> QED BY <3>1, LoginCounts DEF LoginIInv
  <2>2. PasskeysCapped BY LoginCounts DEF LoginIInv, KeyBudget, PasskeysCapped
  <2> QED BY <2>1, <2>2 DEF LoginIInv, SecondFactorSound
<1> QED BY <1>1, LoginStart, LoginKeeps, PTL DEF LoginSpec

\* A changed password or a disabled account leaves no session but the one that asked, those
\* of logins that had already passed the password check, and those a failed deletion left.
THEOREM SessionsAreRevoked == LoginSpec => []SessionsRevoked
<1>1. LoginIInv => SessionsRevoked BY DEF LoginIInv
<1> QED BY <1>1, LoginStart, LoginKeeps, PTL DEF LoginSpec

------------------------------------------------------------------------------
(* The throttle on failed logins (LoginLimiter).                             *)

\* Induction over the naturals, for a set.
LEMMA NatSetInduction ==
  ASSUME NEW T, 0 \in T, \A n \in Nat : n \in T => n + 1 \in T
  PROVE  Nat \subseteq T
<1> SUFFICES ASSUME Nat \ T # {} PROVE FALSE
    OBVIOUS
<1>1. PICK n \in Nat \ T : \A m \in Nat \ T : ~(<<m, n>> \in OpToRel(<, Nat))
      BY NatLessThanWellFounded, WFMin
<1>2. n # 0 /\ n - 1 \in Nat /\ (n - 1) + 1 = n
      OBVIOUS
<1>3. <<n - 1, n>> \in OpToRel(<, Nat)
      BY <1>2 DEF OpToRel
<1> QED BY <1>1, <1>2, <1>3

\* And over sequences.
LEMMA SeqSetInduction ==
  ASSUME NEW S, NEW T, <<>> \in T, \A s \in Seq(S) : s \in T => \A x \in S : Append(s, x) \in T
  PROVE  Seq(S) \subseteq T
<1> DEFINE L == {n \in Nat : \A s \in Seq(S) : Len(s) = n => s \in T}
<1>1. 0 \in L
  <2>1. \A s \in Seq(S) : Len(s) = 0 => s = <<>> OBVIOUS
  <2> QED BY <2>1
<1>2. ASSUME NEW n \in Nat, n \in L PROVE n + 1 \in L
  <2> SUFFICES ASSUME NEW s \in Seq(S), Len(s) = n + 1 PROVE s \in T
      OBVIOUS
  <2>1. SubSeq(s, 1, n) \in Seq(S) /\ Len(SubSeq(s, 1, n)) = n /\ s[n + 1] \in S
        OBVIOUS
  <2>2. s = Append(SubSeq(s, 1, n), s[n + 1])
        BY <2>1
  <2>3. SubSeq(s, 1, n) \in T
        BY <2>1, <1>2
  <2> HIDE DEF L
  <2> QED BY <2>1, <2>2, <2>3
<1>3. Nat \subseteq L
  <2> HIDE DEF L
  <2> QED BY <1>1, <1>2, NatSetInduction
<1> QED BY <1>3

\* One entry of the loop of pruneLocked and allowBucket.
LoopBody(s, d, f, n) == IF n = 0 THEN <<>> ELSE IF s[n] < d THEN Append(f[n - 1], s[n]) ELSE f[n - 1]

\* The loop is well defined.
LEMMA LoopRuns ==
  ASSUME NEW s \in Seq(Nat), NEW d \in Nat
  PROVE  KeptUpTo(s, d) = [n \in 0..Len(s) |-> LoopBody(s, d, KeptUpTo(s, d), n)]
<1> DEFINE T == {m \in Nat : \E f : f = [n \in 0..m |-> LoopBody(s, d, f, n)]}
<1>1. 0 \in T
  <2>1. [n \in 0..0 |-> <<>>] = [n \in 0..0 |-> LoopBody(s, d, [k \in 0..0 |-> <<>>], n)]
        BY DEF LoopBody
  <2> QED BY <2>1
<1>2. ASSUME NEW m \in Nat, m \in T PROVE m + 1 \in T
  <2>1. PICK f : f = [n \in 0..m |-> LoopBody(s, d, f, n)] BY <1>2
  <2> DEFINE g == [n \in 0..(m + 1) |-> IF n = m + 1 THEN LoopBody(s, d, f, n) ELSE f[n]]
  <2>2. \A n \in 0..m : g[n] = f[n] OBVIOUS
  <2>3. ASSUME NEW n \in 0..(m + 1) PROVE g[n] = LoopBody(s, d, g, n)
    <3>1. LoopBody(s, d, g, n) = LoopBody(s, d, f, n)
      <4>1. CASE n = 0 BY <4>1 DEF LoopBody
      <4>2. CASE n # 0
        <5>1. n - 1 \in 0..m BY <4>2
        <5>2. g[n - 1] = f[n - 1] BY <5>1, <2>2
        <5> HIDE DEF g
        <5> QED BY <5>2 DEF LoopBody
      <4> QED BY <4>1, <4>2
    <3>2. n # m + 1 => f[n] = LoopBody(s, d, f, n)
      <4> SUFFICES ASSUME n # m + 1 PROVE f[n] = LoopBody(s, d, f, n)
          OBVIOUS
      <4>1. n \in 0..m OBVIOUS
      <4> QED BY <4>1, <2>1
    <3> QED BY <3>1, <3>2
  <2>4. g = [n \in 0..(m + 1) |-> LoopBody(s, d, g, n)]
    <3>1. g = [n \in 0..(m + 1) |-> g[n]] OBVIOUS
    <3> HIDE DEF g
    <3> QED BY <3>1, <2>3
  <2> HIDE DEF g
  <2> QED BY <2>4
<1>3. Len(s) \in T
  <2> HIDE DEF T
  <2> QED BY <1>1, <1>2, NatSetInduction
<1>4. \E f : f = [n \in 0..Len(s) |-> LoopBody(s, d, f, n)] BY <1>3
<1> QED BY <1>4, Zenon DEF KeptUpTo, LoopBody

\* What the loop keeps is a sequence, no longer than what it has come past.
LEMMA LoopTypes ==
  ASSUME NEW S \in SUBSET Nat, NEW s \in Seq(S), NEW d \in Nat, NEW n \in 0..Len(s)
  PROVE  KeptUpTo(s, d)[n] \in Seq(S) /\ Len(KeptUpTo(s, d)[n]) =< n
<1> DEFINE f == KeptUpTo(s, d)
           T == {k \in Nat : k =< Len(s) => f[k] \in Seq(S) /\ Len(f[k]) =< k}
<1>1. \A k \in 0..Len(s) : f[k] = LoopBody(s, d, f, k) BY LoopRuns
<1> HIDE DEF f
<1>2. 0 \in T
  <2>1. f[0] = <<>> BY <1>1 DEF LoopBody
  <2>2. <<>> \in Seq(S) /\ Len(<<>>) = 0 OBVIOUS
  <2>3. f[0] \in Seq(S) /\ Len(f[0]) =< 0 BY <2>1, <2>2
  <2> QED BY <2>3
<1>3. ASSUME NEW k \in Nat, k \in T PROVE k + 1 \in T
  <2> SUFFICES ASSUME k + 1 =< Len(s) PROVE f[k + 1] \in Seq(S) /\ Len(f[k + 1]) =< k + 1
      OBVIOUS
  <2>1. f[k] \in Seq(S) /\ Len(f[k]) =< k BY <1>3
  <2>2. f[k + 1] = IF s[k + 1] < d THEN Append(f[k], s[k + 1]) ELSE f[k]
        BY <1>1 DEF LoopBody
  <2>3. s[k + 1] \in S OBVIOUS
  <2> QED BY <2>1, <2>2, <2>3
<1>4. n \in T
  <2> HIDE DEF T
  <2> QED BY <1>2, <1>3, NatSetInduction
<1> QED BY <1>4 DEF f

\* Nothing is kept of an empty bucket.
LEMMA YoungerOfNone == ASSUME NEW d \in Nat PROVE Younger(<<>>, d) = <<>>
<1>1. <<>> \in Seq(Nat) /\ Len(<<>>) = 0 OBVIOUS
<1>2. KeptUpTo(<<>>, d) = [n \in 0..0 |-> LoopBody(<<>>, d, KeptUpTo(<<>>, d), n)] BY <1>1, LoopRuns
<1>3. KeptUpTo(<<>>, d)[0] = <<>> BY <1>2 DEF LoopBody
<1> QED BY <1>1, <1>3 DEF Younger

\* One more entry: it is kept when it is young enough, and the others as before.
LEMMA YoungerSteps ==
  ASSUME NEW s \in Seq(Nat), NEW d \in Nat
  PROVE  /\ Younger(<<>>, d) = <<>>
         /\ \A x \in Nat : Younger(Append(s, x), d) = IF x < d THEN Append(Younger(s, d), x) ELSE Younger(s, d)
<1>1. Younger(<<>>, d) = <<>> BY YoungerOfNone
<1>2. ASSUME NEW x \in Nat
      PROVE Younger(Append(s, x), d) = IF x < d THEN Append(Younger(s, d), x) ELSE Younger(s, d)
  <2> DEFINE t == Append(s, x)
             f == KeptUpTo(s, d)
             g == KeptUpTo(t, d)
             T == {k \in Nat : k =< Len(s) => g[k] = f[k]}
  <2>1. t \in Seq(Nat) /\ Len(t) = Len(s) + 1 /\ t[Len(s) + 1] = x /\ \A k \in 1..Len(s) : t[k] = s[k]
        OBVIOUS
  <2>2. \A k \in 0..Len(s) : f[k] = LoopBody(s, d, f, k) BY LoopRuns
  <2> HIDE DEF t
  <2>3. \A k \in 0..(Len(s) + 1) : g[k] = LoopBody(t, d, g, k) BY <2>1, LoopRuns
  <2> HIDE DEF f, g
  <2>4. 0 \in T BY <2>2, <2>3 DEF LoopBody
  <2>5. ASSUME NEW k \in Nat, k \in T PROVE k + 1 \in T
    <3> SUFFICES ASSUME k + 1 =< Len(s) PROVE g[k + 1] = f[k + 1]
        OBVIOUS
    <3>1. g[k] = f[k] /\ t[k + 1] = s[k + 1] BY <2>5, <2>1
    <3>2. f[k + 1] = (IF s[k + 1] < d THEN Append(f[k], s[k + 1]) ELSE f[k]) BY <2>2 DEF LoopBody
    <3>3. g[k + 1] = (IF t[k + 1] < d THEN Append(g[k], t[k + 1]) ELSE g[k]) BY <2>3 DEF LoopBody
    <3> QED BY <3>1, <3>2, <3>3
  <2>6. Len(s) \in T
    <3> HIDE DEF T
    <3> QED BY <2>4, <2>5, NatSetInduction
  <2>7. g[Len(s) + 1] = IF x < d THEN Append(g[Len(s)], x) ELSE g[Len(s)]
        BY <2>1, <2>3 DEF LoopBody
  <2> QED BY <2>1, <2>6, <2>7 DEF Younger, f, g, t
<1> QED BY <1>1, <1>2

\* What is kept of a bucket.
LEMMA YoungerTypes ==
  ASSUME NEW S \in SUBSET Nat, NEW s \in Seq(S), NEW d \in Nat
  PROVE  Younger(s, d) \in Seq(S) /\ Len(Younger(s, d)) =< Len(s) /\ (s = <<>> => Younger(s, d) = <<>>)
<1>1. Len(s) \in 0..Len(s) OBVIOUS
<1>2. Younger(<<>>, d) = <<>> BY YoungerOfNone
<1> QED BY <1>1, <1>2, LoopTypes DEF Younger

\* Pruning at a younger age after an older one is pruning at the younger.
LEMMA YoungerTwice ==
  ASSUME NEW s \in Seq(Nat), NEW d \in Nat, NEW e \in Nat, e =< d
  PROVE  Younger(Younger(s, d), e) = Younger(s, e)
<1> DEFINE T == {r \in Seq(Nat) : Younger(Younger(r, d), e) = Younger(r, e)}
<1>1. <<>> \in T BY YoungerSteps
<1>2. ASSUME NEW r \in Seq(Nat), r \in T, NEW x \in Nat PROVE Append(r, x) \in T
  <2>1. Younger(r, d) \in Seq(Nat) BY YoungerTypes
  <2>2. Younger(Younger(r, d), e) = Younger(r, e) BY <1>2
  <2>3. Younger(Append(r, x), e) = IF x < e THEN Append(Younger(r, e), x) ELSE Younger(r, e)
        BY YoungerSteps
  <2>4. Younger(Append(r, x), d) = IF x < d THEN Append(Younger(r, d), x) ELSE Younger(r, d)
        BY YoungerSteps
  <2>5. Younger(Append(Younger(r, d), x), e) = IF x < e THEN Append(Younger(Younger(r, d), e), x) ELSE Younger(Younger(r, d), e)
        BY <2>1, YoungerSteps
  <2>6. Append(r, x) \in Seq(Nat) OBVIOUS
  <2>7. CASE x < d BY <2>2, <2>3, <2>4, <2>5, <2>6, <2>7
  <2>8. CASE ~(x < d) BY <2>2, <2>3, <2>4, <2>6, <2>8
  <2> QED BY <2>7, <2>8
<1>3. s \in T
  <2> HIDE DEF T
  <2> QED BY <1>1, <1>2, SeqSetInduction
<1> QED BY <1>3

Age(x) == IF x < PurgeBackoff THEN x + 1 ELSE x

\* Ageing entry by entry.
LEMMA OlderSteps ==
  ASSUME NEW s \in Seq(0..PurgeBackoff)
  PROVE  /\ Older(<<>>) = <<>>
         /\ Older(s) \in Seq(0..PurgeBackoff) /\ Len(Older(s)) = Len(s)
         /\ \A x \in 0..PurgeBackoff : Older(Append(s, x)) = Append(Older(s), Age(x)) /\ Age(x) \in 0..PurgeBackoff
<1> DEFINE A == 0..PurgeBackoff
<1>0. \A x \in A : Age(x) \in A BY LimiterAssumption DEF Age
<1>1. Older(<<>>) = <<>> BY DEF Older
<1>2. ASSUME NEW r \in Seq(A)
      PROVE  Older(r) \in Seq(A) /\ Len(Older(r)) = Len(r) /\ \A k \in 1..Len(r) : Older(r)[k] = Age(r[k])
  <2> HIDE DEF A
  <2>1. Older(r) = [k \in 1..Len(r) |-> Age(r[k])] BY DEF Older, Age
  <2>2. \A k \in 1..Len(r) : r[k] \in A OBVIOUS
  <2>3. \A k \in 1..Len(r) : Age(r[k]) \in A BY <1>0, <2>2
  <2> QED BY <2>1, <2>3
<1>3. ASSUME NEW x \in A PROVE Older(Append(s, x)) = Append(Older(s), Age(x)) /\ Age(x) \in A
  <2> DEFINE t == Append(s, x)
  <2>1. Age(x) \in A BY <1>0
  <2>2. t \in Seq(A) /\ Len(t) = Len(s) + 1 /\ t[Len(s) + 1] = x /\ \A k \in 1..Len(s) : t[k] = s[k] OBVIOUS
  <2> HIDE DEF t
  <2>3. Older(t) \in Seq(A) /\ Len(Older(t)) = Len(s) + 1 /\ \A k \in 1..(Len(s) + 1) : Older(t)[k] = Age(t[k])
        BY <2>2, <1>2
  <2> DEFINE u == Older(s)
             v == Append(u, Age(x))
  <2>4. u \in Seq(A) /\ Len(u) = Len(s) /\ \A k \in 1..Len(s) : u[k] = Age(s[k]) BY <1>2
  <2> HIDE DEF u
  <2>5. v \in Seq(A) /\ Len(v) = Len(s) + 1 /\ v[Len(s) + 1] = Age(x) /\ \A k \in 1..Len(s) : v[k] = u[k]
        BY <2>1, <2>4
  <2> HIDE DEF v, A
  <2>6. ASSUME NEW k \in 1..(Len(s) + 1) PROVE Older(t)[k] = v[k]
    <3>1. k \in 1..Len(s) \/ k = Len(s) + 1 OBVIOUS
    <3> QED BY <3>1, <2>2, <2>3, <2>4, <2>5
  <2>7. Older(t) = v BY <2>3, <2>5, <2>6
  <2> QED BY <2>1, <2>7 DEF t, u, v
<1> QED BY <1>1, <1>2, <1>3

\* Time takes entries out of the window and brings none in, and only those in it now are in it then.
LEMMA WindowAges ==
  ASSUME NEW s \in Seq(0..PurgeBackoff)
  PROVE  /\ InWindow(Older(s)) = InWindow(Older(InWindow(s)))
         /\ Len(InWindow(Older(s))) =< Len(InWindow(s))
<1> USE LimiterAssumption
<1>0. (0..PurgeBackoff) \in SUBSET Nat /\ Window \in Nat /\ Window =< PurgeBackoff OBVIOUS
<1> DEFINE A == 0..PurgeBackoff
           T == {r \in Seq(A) : /\ InWindow(Older(r)) = InWindow(Older(InWindow(r)))
                                /\ Len(InWindow(Older(r))) =< Len(InWindow(r))}
<1>1. <<>> \in T
  <2>1. InWindow(<<>>) = <<>> BY <1>0, YoungerOfNone DEF InWindow
  <2>2. Older(<<>>) = <<>> BY OlderSteps
  <2> QED BY <2>1, <2>2
<1>2. ASSUME NEW r \in Seq(A), r \in T, NEW x \in A PROVE Append(r, x) \in T
  <2> DEFINE w == InWindow(r)
             o == Older(r)
  <2>1. r \in Seq(Nat) /\ x \in Nat BY <1>0
  <2>2. w \in Seq(A) /\ w \in Seq(Nat)
    <3>1. A \in SUBSET Nat BY <1>0
    <3>2. w \in Seq(A) BY <1>0, <3>1, YoungerTypes DEF InWindow
    <3> QED BY <3>1, <3>2
  <2>3. o \in Seq(A) /\ Age(x) \in A /\ Older(Append(r, x)) = Append(o, Age(x)) BY OlderSteps
  <2>4. o \in Seq(Nat) /\ Age(x) \in Nat BY <2>3, <1>0
  <2>5. Older(w) \in Seq(A) /\ Older(w) \in Seq(Nat) /\ Older(Append(w, x)) = Append(Older(w), Age(x))
    <3> HIDE DEF w
    <3>1. Older(w) \in Seq(A) /\ Older(Append(w, x)) = Append(Older(w), Age(x)) BY <2>2, OlderSteps
    <3> QED BY <3>1, <1>0
  <2>6. InWindow(Append(r, x)) = IF x < Window THEN Append(w, x) ELSE w
        BY <2>1, <1>0, YoungerSteps DEF InWindow
  <2>7. InWindow(Append(o, Age(x))) = IF Age(x) < Window THEN Append(InWindow(o), Age(x)) ELSE InWindow(o)
        BY <2>4, <1>0, YoungerSteps DEF InWindow
  <2>8. InWindow(Append(Older(w), Age(x))) = IF Age(x) < Window THEN Append(InWindow(Older(w)), Age(x)) ELSE InWindow(Older(w))
        BY <2>4, <2>5, <1>0, YoungerSteps DEF InWindow
  <2>9. Age(x) < Window => x < Window BY DEF Age
  <2>10. InWindow(o) = InWindow(Older(w)) /\ Len(InWindow(o)) =< Len(w) BY <1>2
  <2>11. InWindow(o) \in Seq(Nat) BY <2>4, <1>0, YoungerTypes DEF InWindow
  <2>12. Append(r, x) \in Seq(A) OBVIOUS
  <2> HIDE DEF w, o
  <2>13. InWindow(Older(Append(r, x))) = InWindow(Older(InWindow(Append(r, x))))
    <3>1. CASE x < Window BY <3>1, <2>3, <2>5, <2>6, <2>7, <2>8, <2>10
    <3>2. CASE ~(x < Window) BY <3>2, <2>3, <2>6, <2>7, <2>9, <2>10
    <3> QED BY <3>1, <3>2
  <2>14. Len(InWindow(Older(Append(r, x)))) =< Len(InWindow(Append(r, x)))
    <3>1. Len(Append(w, x)) = Len(w) + 1 /\ Len(w) \in Nat BY <2>2
    <3>2. Len(Append(InWindow(o), Age(x))) = Len(InWindow(o)) + 1 /\ Len(InWindow(o)) \in Nat BY <2>11
    <3> QED BY <3>1, <3>2, <2>3, <2>6, <2>7, <2>9, <2>10
  <2> QED BY <2>12, <2>13, <2>14
<1>3. s \in T
  <2> HIDE DEF T
  <2> QED BY <1>1, <1>2, SeqSetInduction
<1> QED BY <1>3

Ages == Seq(0..PurgeBackoff)
AttemptRecord == [pc : {"idle", "user", "verify", "failed"}, ip : IPs \cup {"none"},
                  user : AccountKeys \cup {"none"}, kind : {"login", "password", "none"}]

\* The buckets hold ages, and a request under way has an address and an account.
LimiterShape ==
  /\ byIP \in [IPs -> Ages] /\ byUser \in [AccountKeys -> Ages] /\ failLog \in [IPs -> Ages]
  /\ lastSwep \in Nat
  /\ attempt \in [Attempts -> AttemptRecord]
  /\ \A a \in Attempts : attempt[a].pc # "idle" => attempt[a].ip \in IPs /\ attempt[a].user \in AccountKeys

LimiterIInv == LimiterShape /\ BudgetHeld /\ NothingForgotten /\ MapsBounded

\* The window of a bucket, whatever is pruned beyond it, and with one more failure.
LEMMA WindowFacts ==
  ASSUME NEW s \in Ages
  PROVE  /\ InWindow(s) \in Ages /\ InWindow(InWindow(s)) = InWindow(s)
         /\ Younger(s, PurgeBackoff) \in Ages /\ InWindow(Younger(s, PurgeBackoff)) = InWindow(s)
         /\ s = <<>> => InWindow(s) = <<>> /\ Younger(s, PurgeBackoff) = <<>> /\ Older(s) = <<>>
         /\ Append(s, 0) \in Ages /\ Append(s, 0) # <<>> /\ Len(Append(s, 0)) = Len(s) + 1
         /\ InWindow(Append(s, 0)) = Append(InWindow(s), 0)
         /\ Older(s) \in Ages
         /\ Len(InWindow(s)) \in Nat /\ Len(s) \in Nat /\ <<>> \in Ages
<1> DEFINE A == 0..PurgeBackoff
<1>1. A \in SUBSET Nat /\ Window \in Nat /\ PurgeBackoff \in Nat /\ Window =< PurgeBackoff /\ 0 < Window /\ 0 \in A
      BY LimiterAssumption
<1> HIDE DEF A
<1>2. s \in Seq(A) /\ s \in Seq(Nat) BY <1>1 DEF Ages, A
<1>3. InWindow(s) \in Seq(A) /\ (s = <<>> => InWindow(s) = <<>>) BY <1>1, <1>2, YoungerTypes DEF InWindow
<1>4. Younger(s, PurgeBackoff) \in Seq(A) /\ (s = <<>> => Younger(s, PurgeBackoff) = <<>>) BY <1>1, <1>2, YoungerTypes
<1>5. InWindow(InWindow(s)) = InWindow(s) BY <1>1, <1>2, YoungerTwice DEF InWindow
<1>6. InWindow(Younger(s, PurgeBackoff)) = InWindow(s) BY <1>1, <1>2, YoungerTwice DEF InWindow
<1>7. Append(s, 0) \in Seq(A) /\ Append(s, 0) # <<>> /\ Len(Append(s, 0)) = Len(s) + 1 BY <1>1, <1>2
<1>8. InWindow(Append(s, 0)) = Append(InWindow(s), 0) BY <1>1, <1>2, YoungerSteps DEF InWindow
<1>9. Older(s) \in Seq(A) /\ (s = <<>> => Older(s) = <<>>) BY OlderSteps DEF Ages, A
<1>10. Len(InWindow(s)) \in Nat /\ Len(s) \in Nat /\ <<>> \in Seq(A) BY <1>2, <1>3
<1> QED BY <1>3, <1>4, <1>5, <1>6, <1>7, <1>8, <1>9, <1>10 DEF Ages, A

\* Fewer keys with entries are fewer entries of the map.
LEMMA FewerEntries ==
  ASSUME NEW K, IsFiniteSet(K), NEW m \in [K -> Ages], NEW r \in [K -> Ages],
         \A k \in K : m[k] = <<>> => r[k] = <<>>
  PROVE  Entries(r) \in Nat /\ Entries(m) \in Nat /\ Entries(r) =< Entries(m)
<1>1. {k \in K : r[k] # <<>>} \subseteq {k \in K : m[k] # <<>>} OBVIOUS
<1>2. IsFiniteSet({k \in K : m[k] # <<>>}) BY FS_Subset
<1>3. DOMAIN m = K /\ DOMAIN r = K OBVIOUS
<1> QED BY <1>1, <1>2, <1>3, FS_Subset, FS_CardinalityType DEF Entries

\* A sweep forgets nothing of any window.
LEMMA SweptFacts ==
  ASSUME NEW K, IsFiniteSet(K), NEW m \in [K -> Ages], NEW last \in Nat
  PROVE  /\ Swept(m, last) \in [K -> Ages]
         /\ \A k \in K : /\ InWindow(Swept(m, last)[k]) = InWindow(m[k])
                         /\ m[k] = <<>> => Swept(m, last)[k] = <<>>
         /\ Entries(Swept(m, last)) \in Nat /\ Entries(Swept(m, last)) =< Entries(m)
<1> DEFINE r == Swept(m, last)
<1>1. /\ r \in [K -> Ages]
      /\ \A k \in K : InWindow(r[k]) = InWindow(m[k]) /\ (m[k] = <<>> => r[k] = <<>>)
  <2>1. CASE SweepDue(last)
    <3>1. r = [k \in K |-> Younger(m[k], PurgeBackoff)] BY <2>1 DEF Swept, pruneLocked
    <3>2. \A k \in K : m[k] \in Ages OBVIOUS
    <3> HIDE DEF r
    <3> QED BY <3>1, <3>2, WindowFacts
  <2>2. CASE ~SweepDue(last) BY <2>2 DEF Swept
  <2> QED BY <2>1, <2>2
<1> HIDE DEF r
<1>2. Entries(r) \in Nat /\ Entries(r) =< Entries(m) BY <1>1, FewerEntries
<1> QED BY <1>1, <1>2 DEF r

\* A failure is recorded under its key, or the map is full and has no entry of that key; the
\* other windows stay, and the map stays within its bound.
LEMMA RecordFacts ==
  ASSUME NEW K, IsFiniteSet(K), NEW m \in [K -> Ages], NEW key \in K, Entries(m) =< MaxEntries
  PROVE  /\ recordBucket(m, key) \in [K -> Ages]
         /\ \A k \in K \ {key} : InWindow(recordBucket(m, key)[k]) = InWindow(m[k])
         /\ \/ recordBucket(m, key)[key] = Append(m[key], 0)
            \/ m[key] = <<>> /\ recordBucket(m, key)[key] = <<>>
         /\ Entries(recordBucket(m, key)) =< MaxEntries
<1> DEFINE kept == IF Crowded(m, key) THEN Swept(m, GcInterval) ELSE m
           r == recordBucket(m, key)
<1>0. GcInterval \in Nat /\ MaxEntries \in Nat BY LimiterAssumption
<1>1. /\ kept \in [K -> Ages] /\ Entries(kept) \in Nat /\ Entries(kept) =< MaxEntries
      /\ \A k \in K : InWindow(kept[k]) = InWindow(m[k])
      /\ kept[key] = m[key]
  <2>1. Entries(m) \in Nat BY FewerEntries
  <2>2. CASE Crowded(m, key)
    <3>1. m[key] = <<>> BY <2>2 DEF Crowded
    <3>2. kept = Swept(m, GcInterval) BY <2>2
    <3> HIDE DEF kept
    <3>3. /\ kept \in [K -> Ages] /\ Entries(kept) \in Nat /\ Entries(kept) =< Entries(m)
          /\ \A k \in K : InWindow(kept[k]) = InWindow(m[k]) /\ (m[k] = <<>> => kept[k] = <<>>)
          BY <1>0, <3>2, SweptFacts
    <3> QED BY <1>0, <2>1, <3>1, <3>3
  <2>3. CASE ~Crowded(m, key) BY <2>1, <2>3
  <2> QED BY <2>2, <2>3
<1>2. r = IF Crowded(kept, key) THEN kept ELSE [kept EXCEPT ![key] = Append(kept[key], 0)]
      BY DEF recordBucket
<1> HIDE DEF kept, r
<1>3. CASE Crowded(kept, key)
  <2>1. kept[key] = <<>> BY <1>3 DEF Crowded
  <2> QED BY <1>1, <1>2, <1>3, <2>1 DEF r
<1>4. CASE ~Crowded(kept, key)
  <2>1. kept[key] \in Ages /\ Append(kept[key], 0) \in Ages /\ Append(kept[key], 0) # <<>> BY <1>1, WindowFacts
  <2>2. r \in [K -> Ages] /\ r[key] = Append(kept[key], 0) /\ \A k \in K \ {key} : r[k] = kept[k]
        BY <1>1, <1>2, <1>4, <2>1
  <2>3. Entries(r) =< MaxEntries
    <3> DEFINE E == {k \in K : kept[k] # <<>>}
    <3>1. IsFiniteSet(E) /\ Cardinality(E) = Entries(kept) BY <1>1, FS_Subset DEF Entries
    <3>2. {k \in K : r[k] # <<>>} = E \cup {key} BY <2>1, <2>2
    <3>3. Entries(r) = Cardinality(E \cup {key}) BY <2>2, <3>2 DEF Entries
    <3> HIDE DEF E
    <3>4. Cardinality(E \cup {key}) = IF key \in E THEN Cardinality(E) ELSE Cardinality(E) + 1
          BY <3>1, FS_AddElement
    <3>5. key \notin E => kept[key] = <<>> BY DEF E
    <3>6. key \notin E => Entries(kept) < MaxEntries BY <1>0, <1>1, <1>4, <3>5 DEF Crowded
    <3> QED BY <1>0, <1>1, <3>1, <3>3, <3>4, <3>6
  <2> QED BY <1>1, <2>2, <2>3 DEF r
<1> QED BY <1>3, <1>4

\* Nobody has failed and nobody asks.
LEMMA LimiterStart == LimiterInit => LimiterIInv
<1> SUFFICES ASSUME LimiterInit PROVE LimiterIInv
    OBVIOUS
<1>0. /\ IsFiniteSet(IPs) /\ IsFiniteSet(AccountKeys) /\ IsFiniteSet(Attempts)
      /\ MaxIP \in Nat \ {0} /\ MaxEntries \in Nat /\ GcInterval \in Nat
      BY LimiterAssumption
<1>1. <<>> \in Ages /\ InWindow(<<>>) = <<>> /\ Len(<<>>) = 0
  <2>1. <<>> \in Ages BY DEF Ages
  <2> QED BY <2>1, WindowFacts
<1>2. LimiterShape
  <2>1. IdleAttempt \in AttemptRecord /\ IdleAttempt.pc = "idle" BY DEF IdleAttempt, AttemptRecord
  <2> QED BY <1>0, <1>1, <2>1 DEF LimiterInit, LimiterShape
<1>3. BudgetHeld
  <2> SUFFICES ASSUME NEW ip \in IPs
               PROVE  Len(InWindow(byIP[ip])) + Cardinality(Admitted(ip)) =< MaxIP - 1 + Cardinality(Attempts)
      BY DEF BudgetHeld
  <2>1. byIP[ip] = <<>> BY DEF LimiterInit
  <2>2. Admitted(ip) = {} BY DEF LimiterInit, Admitted, IdleAttempt
  <2>3. Cardinality(Admitted(ip)) = 0 BY <2>2, FS_EmptySet
  <2>4. Cardinality(Attempts) \in Nat BY <1>0, FS_CardinalityType
  <2> QED BY <1>0, <1>1, <2>1, <2>3, <2>4
<1>4. NothingForgotten BY DEF LimiterInit, NothingForgotten
<1>5. MapsBounded
  <2>1. {k \in DOMAIN byIP : byIP[k] # <<>>} = {} /\ {k \in DOMAIN byUser : byUser[k] # <<>>} = {} BY DEF LimiterInit
  <2>2. Entries(byIP) = 0 /\ Entries(byUser) = 0 BY <2>1, FS_EmptySet DEF Entries
  <2> QED BY <1>0, <2>2 DEF MapsBounded
<1> QED BY <1>2, <1>3, <1>4, <1>5 DEF LimiterIInv

\* A step of the requests that keeps every window, or shortens it, and admits nobody new.
LEMMA BudgetStays ==
  ASSUME LimiterIInv, LimiterShape', \A i \in IPs : Len(InWindow(byIP'[i])) =< Len(InWindow(byIP[i])),
         \A a \in Attempts : attempt'[a].pc \in {"user", "verify"} =>
           attempt[a].pc \in {"user", "verify"} /\ attempt'[a].ip = attempt[a].ip
  PROVE  BudgetHeld'
<1> SUFFICES ASSUME NEW i \in IPs
             PROVE  Len(InWindow(byIP'[i])) + Cardinality(Admitted(i)') =< MaxIP - 1 + Cardinality(Attempts)
    BY DEF BudgetHeld
<1>1. Admitted(i)' \subseteq Admitted(i) BY DEF Admitted
<1>2. IsFiniteSet(Attempts) /\ MaxIP \in Nat BY LimiterAssumption
<1>3. IsFiniteSet(Admitted(i)) BY <1>2, FS_Subset DEF Admitted
<1>4. /\ Cardinality(Admitted(i)') \in Nat /\ Cardinality(Admitted(i)) \in Nat
      /\ Cardinality(Admitted(i)') =< Cardinality(Admitted(i)) /\ Cardinality(Attempts) \in Nat
      BY <1>1, <1>2, <1>3, FS_Subset, FS_CardinalityType
<1>5. byIP[i] \in Ages /\ byIP'[i] \in Ages BY DEF LimiterIInv, LimiterShape
<1>6. Len(InWindow(byIP[i])) \in Nat /\ Len(InWindow(byIP'[i])) \in Nat BY <1>5, WindowFacts
<1>7. Len(InWindow(byIP[i])) + Cardinality(Admitted(i)) =< MaxIP - 1 + Cardinality(Attempts)
      BY DEF LimiterIInv, BudgetHeld
<1> QED BY <1>2, <1>4, <1>6, <1>7

\* A request goes on or is over.
LEMMA AttemptMoves ==
  ASSUME LimiterShape, NEW a \in Attempts, attempt[a].pc # "idle",
         \/ Done(a) \/ \E p \in {"verify", "failed"} : Go(a, p)
  PROVE  /\ attempt' \in [Attempts -> AttemptRecord]
         /\ \A x \in Attempts : attempt'[x].pc # "idle" => attempt'[x].ip \in IPs /\ attempt'[x].user \in AccountKeys
         /\ \A x \in Attempts : attempt'[x].pc # "idle" => attempt[x].pc # "idle" /\ attempt'[x].ip = attempt[x].ip
         /\ \A x \in Attempts \ {a} : attempt'[x] = attempt[x]
         /\ Done(a) => attempt'[a].pc = "idle"
         /\ \A p \in {"verify", "failed"} : Go(a, p) => attempt'[a].pc = p
<1>1. IdleAttempt \in AttemptRecord /\ IdleAttempt.pc = "idle" BY DEF IdleAttempt, AttemptRecord
<1>2. attempt \in [Attempts -> AttemptRecord] /\ attempt[a] \in AttemptRecord BY DEF LimiterShape
<1>3. CASE Done(a)
  <2>1. attempt' = [attempt EXCEPT ![a] = IdleAttempt] BY <1>3 DEF Done
  <2>2. attempt'[a] = IdleAttempt /\ \A x \in Attempts \ {a} : attempt'[x] = attempt[x] BY <1>2, <2>1
  <2>3. attempt' \in [Attempts -> AttemptRecord] BY <1>1, <1>2, <2>1
  <2>4. \A p \in {"verify", "failed"} : ~Go(a, p)
    <3> SUFFICES ASSUME NEW p \in {"verify", "failed"}, Go(a, p) PROVE FALSE
        OBVIOUS
    <3>1. attempt'[a].pc = p BY <1>2 DEF Go, AttemptRecord
    <3> QED BY <1>1, <2>2, <3>1
  <2> QED BY <1>1, <2>2, <2>3, <2>4 DEF LimiterShape
<1>4. ASSUME NEW p \in {"verify", "failed"}, Go(a, p)
      PROVE  /\ attempt' \in [Attempts -> AttemptRecord] /\ attempt'[a].pc = p /\ attempt'[a].ip = attempt[a].ip
             /\ attempt'[a].user = attempt[a].user /\ \A x \in Attempts \ {a} : attempt'[x] = attempt[x]
  <2>1. attempt' = [attempt EXCEPT ![a] = [attempt[a] EXCEPT !.pc = p]] BY <1>4 DEF Go
  <2>2. [attempt[a] EXCEPT !.pc = p] \in AttemptRecord BY <1>2 DEF AttemptRecord
  <2> QED BY <1>2, <2>1, <2>2 DEF AttemptRecord
<1>5. CASE \E p \in {"verify", "failed"} : Go(a, p)
  <2>1. PICK p \in {"verify", "failed"} : Go(a, p) BY <1>5
  <2>2. ~Done(a)
    <3> SUFFICES ASSUME Done(a) PROVE FALSE
        OBVIOUS
    <3>1. attempt'[a] = IdleAttempt BY <1>2 DEF Done
    <3> QED BY <1>1, <1>4, <2>1, <3>1
  <2> QED BY <1>4, <2>1, <2>2 DEF LimiterShape
<1> QED BY <1>3, <1>5

\* Time passes: windows lose entries, buckets and log alike.
LEMMA TimeKeeps == ASSUME LimiterIInv, TimePasses PROVE LimiterIInv'
<1>0. IsFiniteSet(IPs) /\ IsFiniteSet(AccountKeys) /\ MaxEntries \in Nat /\ GcInterval \in Nat BY LimiterAssumption
<1>1. /\ byIP \in [IPs -> Ages] /\ byUser \in [AccountKeys -> Ages] /\ failLog \in [IPs -> Ages] /\ lastSwep \in Nat
      BY DEF LimiterIInv, LimiterShape
<1>2. byIP' = [i \in IPs |-> Older(byIP[i])] /\ byUser' = [u \in AccountKeys |-> Older(byUser[u])] BY DEF TimePasses
<1>3. failLog' = [i \in IPs |-> InWindow(Older(failLog[i]))] BY DEF TimePasses
<1>4. \A s \in Ages : Older(s) \in Ages /\ InWindow(Older(s)) \in Ages /\ (s = <<>> => Older(s) = <<>>)
  <2> TAKE s \in Ages
  <2>1. Older(s) \in Ages /\ (s = <<>> => Older(s) = <<>>) BY WindowFacts
  <2> QED BY <2>1, WindowFacts
<1>5. byIP' \in [IPs -> Ages] /\ byUser' \in [AccountKeys -> Ages] BY <1>1, <1>2, <1>4
<1>6. failLog' \in [IPs -> Ages] BY <1>1, <1>3, <1>4
<1>7. lastSwep' \in Nat /\ attempt' = attempt BY <1>1 DEF TimePasses
<1>8. LimiterShape' BY <1>5, <1>6, <1>7 DEF LimiterIInv, LimiterShape
<1>9. BudgetHeld'
  <2>1. \A i \in IPs : Len(InWindow(byIP'[i])) =< Len(InWindow(byIP[i])) BY <1>1, <1>2, WindowAges DEF Ages
  <2> QED BY <1>7, <1>8, <2>1, BudgetStays
<1>10. NothingForgotten'
  <2> SUFFICES ASSUME NEW i \in IPs PROVE InWindow(byIP'[i]) = InWindow(failLog'[i])
      BY DEF NothingForgotten
  <2>1. InWindow(byIP[i]) = InWindow(failLog[i]) /\ byIP[i] \in Ages /\ failLog[i] \in Ages
        BY <1>1 DEF LimiterIInv, NothingForgotten
  <2>2. InWindow(Older(byIP[i])) = InWindow(Older(InWindow(byIP[i]))) BY <2>1, WindowAges DEF Ages
  <2>3. InWindow(Older(failLog[i])) = InWindow(Older(InWindow(failLog[i]))) BY <2>1, WindowAges DEF Ages
  <2>4. Older(failLog[i]) \in Ages BY <2>1, <1>4
  <2>5. InWindow(InWindow(Older(failLog[i]))) = InWindow(Older(failLog[i])) BY <2>4, WindowFacts
  <2> QED BY <1>2, <1>3, <2>1, <2>2, <2>3, <2>5
<1>11. MapsBounded'
  <2>1. \A i \in IPs : byIP[i] = <<>> => byIP'[i] = <<>> BY <1>1, <1>2, <1>4
  <2>2. \A u \in AccountKeys : byUser[u] = <<>> => byUser'[u] = <<>> BY <1>1, <1>2, <1>4
  <2>3. Entries(byIP') =< Entries(byIP) /\ Entries(byIP') \in Nat /\ Entries(byIP) \in Nat BY <1>0, <1>1, <1>5, <2>1, FewerEntries
  <2>4. Entries(byUser') =< Entries(byUser) /\ Entries(byUser') \in Nat /\ Entries(byUser) \in Nat BY <1>0, <1>1, <1>5, <2>2, FewerEntries
  <2>5. MapsBounded BY DEF LimiterIInv
  <2> QED BY <1>0, <2>3, <2>4, <2>5 DEF MapsBounded
<1> QED BY <1>8, <1>9, <1>10, <1>11 DEF LimiterIInv

\* The maps of buckets as two of them may be swept or pruned: types, windows and bounds stay.
LEMMA Pruned ==
  ASSUME LimiterIInv, byIP' \in [IPs -> Ages], byUser' \in [AccountKeys -> Ages],
         \A i \in IPs : InWindow(byIP'[i]) = InWindow(byIP[i]) /\ (byIP[i] = <<>> => byIP'[i] = <<>>),
         \A u \in AccountKeys : byUser[u] = <<>> => byUser'[u] = <<>>,
         UNCHANGED failLog
  PROVE  /\ NothingForgotten' /\ MapsBounded' /\ failLog' \in [IPs -> Ages]
         /\ \A i \in IPs : Len(InWindow(byIP'[i])) =< Len(InWindow(byIP[i]))
<1>0. IsFiniteSet(IPs) /\ IsFiniteSet(AccountKeys) /\ MaxEntries \in Nat BY LimiterAssumption
<1>1. byIP \in [IPs -> Ages] /\ byUser \in [AccountKeys -> Ages] /\ failLog \in [IPs -> Ages]
      BY DEF LimiterIInv, LimiterShape
<1>2. NothingForgotten' BY DEF LimiterIInv, NothingForgotten
<1>3. Entries(byIP') =< Entries(byIP) /\ Entries(byIP') \in Nat /\ Entries(byIP) \in Nat BY <1>0, <1>1, FewerEntries
<1>4. Entries(byUser') =< Entries(byUser) /\ Entries(byUser') \in Nat /\ Entries(byUser) \in Nat BY <1>0, <1>1, FewerEntries
<1>5. MapsBounded BY DEF LimiterIInv
<1>6. MapsBounded' BY <1>0, <1>3, <1>4, <1>5 DEF MapsBounded
<1>7. \A i \in IPs : Len(InWindow(byIP[i])) \in Nat BY <1>1, WindowFacts
<1>8. \A i \in IPs : Len(InWindow(byIP'[i])) =< Len(InWindow(byIP[i])) BY <1>7
<1> QED BY <1>1, <1>2, <1>6, <1>8

\* A map swept, and one of its buckets pruned to the window.
Asked(m, last, key) == [Swept(m, last) EXCEPT ![key] = InWindow(@)]

\* What AllowIP and AllowUser do to their map forgets nothing of any window.
LEMMA AllowPrunes ==
  ASSUME NEW K, IsFiniteSet(K), NEW m \in [K -> Ages], NEW last \in Nat, NEW key \in K
  PROVE  /\ Asked(m, last, key) \in [K -> Ages]
         /\ \A k \in K : /\ InWindow(Asked(m, last, key)[k]) = InWindow(m[k])
                         /\ m[k] = <<>> => Asked(m, last, key)[k] = <<>>
         /\ InWindow(Swept(m, last)[key]) = InWindow(m[key])
<1> DEFINE s == Swept(m, last)
           r == Asked(m, last, key)
<1>1. s \in [K -> Ages] /\ \A k \in K : InWindow(s[k]) = InWindow(m[k]) /\ (m[k] = <<>> => s[k] = <<>>)
      BY SweptFacts
<1>2. r = [s EXCEPT ![key] = InWindow(s[key])] BY DEF Asked
<1> HIDE DEF s, r
<1>3. s[key] \in Ages BY <1>1
<1>4. InWindow(s[key]) \in Ages /\ InWindow(InWindow(s[key])) = InWindow(s[key]) /\ (s[key] = <<>> => InWindow(s[key]) = <<>>)
      BY <1>3, WindowFacts
<1>5. r \in [K -> Ages] /\ r[key] = InWindow(s[key]) /\ \A k \in K \ {key} : r[k] = s[k] BY <1>1, <1>2, <1>4
<1>6. \A k \in K : InWindow(r[k]) = InWindow(m[k]) /\ (m[k] = <<>> => r[k] = <<>>)
  <2> TAKE k \in K
  <2>1. CASE k = key BY <2>1, <1>1, <1>4, <1>5
  <2>2. CASE k # key BY <2>2, <1>1, <1>5
  <2> QED BY <2>1, <2>2
<1> QED BY <1>1, <1>5, <1>6 DEF s, r

\* AllowIP lets in one more only while the window has room, and then the requests let in are all of them at most.
LEMMA AllowIPKeeps ==
  ASSUME LimiterIInv, NEW a \in Attempts, NEW ip \in IPs, NEW u \in AccountKeys, NEW kind \in {"login", "password"},
         AllowIP(a, ip, u, kind)
  PROVE  LimiterIInv'
<1> DEFINE r == [pc |-> IF kind = "login" THEN "user" ELSE "verify", ip |-> ip, user |-> u, kind |-> kind]
<1>0. /\ IsFiniteSet(IPs) /\ IsFiniteSet(AccountKeys) /\ IsFiniteSet(Attempts)
      /\ MaxIP \in Nat \ {0}
      BY LimiterAssumption
<1>1. /\ byIP \in [IPs -> Ages] /\ byUser \in [AccountKeys -> Ages] /\ lastSwep \in Nat
      /\ attempt \in [Attempts -> AttemptRecord] /\ attempt[a].pc = "idle"
      BY DEF LimiterIInv, LimiterShape, AllowIP, At
<1>2. byIP' = Asked(byIP, lastSwep, ip) /\ byUser' = Swept(byUser, lastSwep) /\ UNCHANGED failLog
      BY DEF AllowIP, Asked
<1>3. /\ byIP' \in [IPs -> Ages]
      /\ \A i \in IPs : InWindow(byIP'[i]) = InWindow(byIP[i]) /\ (byIP[i] = <<>> => byIP'[i] = <<>>)
      /\ InWindow(Swept(byIP, lastSwep)[ip]) = InWindow(byIP[ip])
      BY <1>0, <1>1, <1>2, AllowPrunes
<1>4. byUser' \in [AccountKeys -> Ages] /\ \A k \in AccountKeys : byUser[k] = <<>> => byUser'[k] = <<>>
      BY <1>0, <1>1, <1>2, SweptFacts
<1>5. /\ NothingForgotten' /\ MapsBounded' /\ failLog' \in [IPs -> Ages]
      /\ \A i \in IPs : Len(InWindow(byIP'[i])) =< Len(InWindow(byIP[i]))
      BY <1>2, <1>3, <1>4, Pruned
<1>6. r \in AttemptRecord /\ r.ip = ip /\ r.user = u BY DEF AttemptRecord
<1>7. /\ \A x \in Attempts \ {a} : attempt'[x] = attempt[x]
      /\ attempt' \in [Attempts -> AttemptRecord]
      /\ \/ attempt'[a] = attempt[a]
         \/ attempt'[a] = r /\ Len(InWindow(byIP[ip])) < MaxIP
  <2>1. attempt' = [attempt EXCEPT ![a] = IF allowBucket(Swept(byIP, lastSwep), ip, MaxIP) THEN r ELSE attempt[a]]
        BY DEF AllowIP
  <2>2. allowBucket(Swept(byIP, lastSwep), ip, MaxIP) => Len(InWindow(byIP[ip])) < MaxIP BY <1>3 DEF allowBucket
  <2> HIDE DEF r
  <2>3. CASE allowBucket(Swept(byIP, lastSwep), ip, MaxIP) BY <2>1, <2>2, <2>3, <1>1, <1>6
  <2>4. CASE ~allowBucket(Swept(byIP, lastSwep), ip, MaxIP) BY <2>1, <2>4, <1>1
  <2> QED BY <2>3, <2>4
<1>8. lastSwep' \in Nat BY <1>1 DEF AllowIP
<1> HIDE DEF r
<1>9. LimiterShape' BY <1>3, <1>4, <1>5, <1>6, <1>7, <1>8 DEF LimiterIInv, LimiterShape
<1>10. BudgetHeld'
  <2>1. CASE attempt'[a] = attempt[a]
    <3>1. \A x \in Attempts : attempt'[x] = attempt[x] BY <2>1, <1>7
    <3> QED BY <1>5, <1>9, <3>1, BudgetStays
  <2>2. CASE attempt'[a] = r /\ Len(InWindow(byIP[ip])) < MaxIP
    <3> SUFFICES ASSUME NEW i \in IPs
                 PROVE  Len(InWindow(byIP'[i])) + Cardinality(Admitted(i)') =< MaxIP - 1 + Cardinality(Attempts)
        BY DEF BudgetHeld
    <3>1. Admitted(i)' \subseteq Attempts /\ Admitted(i) \subseteq Attempts BY DEF Admitted
    <3>2. /\ Cardinality(Admitted(i)') \in Nat /\ Cardinality(Attempts) \in Nat
          /\ Cardinality(Admitted(i)') =< Cardinality(Attempts)
          BY <1>0, <3>1, FS_Subset, FS_CardinalityType
    <3>3. byIP[i] \in Ages /\ Len(InWindow(byIP[i])) \in Nat BY <1>1, WindowFacts
    <3>4. CASE i = ip BY <2>2, <3>2, <3>3, <3>4, <1>0, <1>3
    <3>5. CASE i # ip
      <4>1. Admitted(i)' = Admitted(i) BY <2>2, <3>5, <1>1, <1>6, <1>7 DEF Admitted
      <4> QED BY <4>1, <1>3 DEF LimiterIInv, BudgetHeld
    <3> QED BY <3>4, <3>5
  <2> QED BY <1>7, <2>1, <2>2
<1> QED BY <1>5, <1>9, <1>10 DEF LimiterIInv

\* AllowUser moves a request that the address let in, or ends it.
LEMMA AllowUserKeeps == ASSUME LimiterIInv, NEW a \in Attempts, AllowUser(a) PROVE LimiterIInv'
<1> DEFINE u == attempt[a].user
<1>0. IsFiniteSet(IPs) /\ IsFiniteSet(AccountKeys) BY LimiterAssumption
<1>1. /\ byIP \in [IPs -> Ages] /\ byUser \in [AccountKeys -> Ages] /\ lastSwep \in Nat
      /\ attempt[a].pc = "user" /\ u \in AccountKeys /\ LimiterShape
      BY DEF LimiterIInv, LimiterShape, AllowUser, At
<1>2. byUser' = Asked(byUser, lastSwep, u) /\ byIP' = Swept(byIP, lastSwep) /\ UNCHANGED failLog
      BY DEF AllowUser, Asked
<1>3. byUser' \in [AccountKeys -> Ages] /\ \A k \in AccountKeys : byUser[k] = <<>> => byUser'[k] = <<>>
  <2> HIDE DEF u
  <2> QED BY <1>0, <1>1, <1>2, AllowPrunes
<1>4. byIP' \in [IPs -> Ages] /\ \A i \in IPs : InWindow(byIP'[i]) = InWindow(byIP[i]) /\ (byIP[i] = <<>> => byIP'[i] = <<>>)
  <2>1. byIP' = Swept(byIP, lastSwep) BY <1>2
  <2>2. byIP' \in [IPs -> Ages] BY <1>0, <1>1, <2>1, SweptFacts
  <2>3. \A i \in IPs : InWindow(byIP'[i]) = InWindow(byIP[i]) BY <1>0, <1>1, <2>1, SweptFacts
  <2>4. \A i \in IPs : byIP[i] = <<>> => byIP'[i] = <<>> BY <1>0, <1>1, <2>1, SweptFacts
  <2> QED BY <2>2, <2>3, <2>4
<1>5. /\ NothingForgotten' /\ MapsBounded' /\ failLog' \in [IPs -> Ages]
      /\ \A i \in IPs : Len(InWindow(byIP'[i])) =< Len(InWindow(byIP[i]))
      BY <1>2, <1>3, <1>4, Pruned
<1>6. Done(a) \/ Go(a, "verify") BY DEF AllowUser
<1>7. /\ attempt' \in [Attempts -> AttemptRecord]
      /\ \A x \in Attempts : attempt'[x].pc # "idle" => attempt'[x].ip \in IPs /\ attempt'[x].user \in AccountKeys
      /\ \A x \in Attempts : attempt'[x].pc # "idle" => attempt[x].pc # "idle" /\ attempt'[x].ip = attempt[x].ip
      /\ \A x \in Attempts \ {a} : attempt'[x] = attempt[x]
      BY <1>1, <1>6, AttemptMoves
<1>8. lastSwep' \in Nat BY <1>1 DEF AllowUser
<1>9. LimiterShape' BY <1>3, <1>4, <1>5, <1>7, <1>8 DEF LimiterShape
<1>10. \A x \in Attempts : attempt'[x].pc \in {"user", "verify"} =>
          attempt[x].pc \in {"user", "verify"} /\ attempt'[x].ip = attempt[x].ip
       BY <1>1, <1>7
<1>11. BudgetHeld' BY <1>5, <1>9, <1>10, BudgetStays
<1> QED BY <1>5, <1>9, <1>11 DEF LimiterIInv

\* RecordFailureIP makes a failure of a request that was let in, and logs what the bucket got.
LEMMA FailureIPKeeps == ASSUME LimiterIInv, NEW a \in Attempts, RecordFailureIP(a) PROVE LimiterIInv'
<1> DEFINE ip == attempt[a].ip
<1>0. /\ IsFiniteSet(IPs) /\ IsFiniteSet(AccountKeys) /\ IsFiniteSet(Attempts) /\ MaxIP \in Nat
      /\ MaxEntries \in Nat /\ GcInterval \in Nat
      BY LimiterAssumption
<1>1. /\ byIP \in [IPs -> Ages] /\ byUser \in [AccountKeys -> Ages] /\ failLog \in [IPs -> Ages] /\ lastSwep \in Nat
      /\ attempt[a].pc = "verify" /\ ip \in IPs /\ LimiterShape /\ MapsBounded
      BY DEF LimiterIInv, LimiterShape, RecordFailureIP, At
<1>2. /\ byIP' = recordBucket(byIP, ip)
      /\ byUser' = IF Crowded(byIP, ip) THEN Swept(byUser, GcInterval) ELSE byUser
      /\ lastSwep' = IF Crowded(byIP, ip) THEN 0 ELSE lastSwep
      /\ failLog' = IF byIP'[ip] # <<>> /\ Len(byIP'[ip]) > Len(byIP[ip])
                      THEN [failLog EXCEPT ![ip] = Append(InWindow(failLog[ip]), 0)] ELSE failLog
      /\ Go(a, "failed")
      BY DEF RecordFailureIP
<1>3. /\ attempt' \in [Attempts -> AttemptRecord] /\ attempt'[a].pc = "failed"
      /\ \A x \in Attempts : attempt'[x].pc # "idle" => attempt'[x].ip \in IPs /\ attempt'[x].user \in AccountKeys
      /\ \A x \in Attempts : attempt'[x].pc # "idle" => attempt[x].pc # "idle" /\ attempt'[x].ip = attempt[x].ip
      /\ \A x \in Attempts \ {a} : attempt'[x] = attempt[x]
      BY <1>1, <1>2, AttemptMoves
<1>30. \A j \in IPs : attempt[a].ip = j <=> j = ip OBVIOUS
<1> HIDE DEF ip
<1>4. /\ byIP' \in [IPs -> Ages]
      /\ \A i \in IPs \ {ip} : InWindow(byIP'[i]) = InWindow(byIP[i])
      /\ byIP'[ip] = Append(byIP[ip], 0) \/ (byIP[ip] = <<>> /\ byIP'[ip] = <<>>)
      /\ Entries(byIP') =< MaxEntries
      BY <1>0, <1>1, <1>2, RecordFacts DEF MapsBounded
<1>5. byUser' \in [AccountKeys -> Ages] /\ Entries(byUser') =< MaxEntries
  <2>1. Entries(byUser) =< MaxEntries /\ Entries(byUser) \in Nat BY <1>0, <1>1, FewerEntries DEF MapsBounded
  <2>2. CASE Crowded(byIP, ip)
    <3>1. byUser' = Swept(byUser, GcInterval) BY <1>2, <2>2
    <3>2. byUser' \in [AccountKeys -> Ages] /\ Entries(byUser') \in Nat /\ Entries(byUser') =< Entries(byUser)
          BY <1>0, <1>1, <3>1, SweptFacts
    <3> QED BY <1>0, <2>1, <3>2
  <2>3. CASE ~Crowded(byIP, ip) BY <1>1, <1>2, <2>1, <2>3
  <2> QED BY <2>2, <2>3
<1>6. byIP[ip] \in Ages /\ failLog[ip] \in Ages /\ InWindow(failLog[ip]) = InWindow(byIP[ip])
      BY <1>1 DEF LimiterIInv, NothingForgotten
<1>7. /\ InWindow(byIP[ip]) \in Ages /\ Append(byIP[ip], 0) # <<>> /\ Len(Append(byIP[ip], 0)) = Len(byIP[ip]) + 1
      /\ Len(byIP[ip]) \in Nat /\ InWindow(Append(byIP[ip], 0)) = Append(InWindow(byIP[ip]), 0)
      /\ InWindow(InWindow(byIP[ip])) = InWindow(byIP[ip]) /\ Len(InWindow(byIP[ip])) \in Nat
      BY <1>6, WindowFacts
<1>8. /\ Append(InWindow(byIP[ip]), 0) \in Ages
      /\ InWindow(Append(InWindow(byIP[ip]), 0)) = Append(InWindow(byIP[ip]), 0)
      /\ Len(Append(InWindow(byIP[ip]), 0)) = Len(InWindow(byIP[ip])) + 1
      BY <1>7, WindowFacts
<1>9. \/ /\ byIP'[ip] = Append(byIP[ip], 0)
         /\ failLog' = [failLog EXCEPT ![ip] = Append(InWindow(byIP[ip]), 0)]
      \/ byIP[ip] = <<>> /\ byIP'[ip] = <<>> /\ failLog' = failLog
  <2>1. CASE byIP'[ip] = Append(byIP[ip], 0) BY <2>1, <1>2, <1>6, <1>7
  <2>2. CASE byIP[ip] = <<>> /\ byIP'[ip] = <<>> BY <2>2, <1>2
  <2> QED BY <1>4, <2>1, <2>2
<1>10. failLog' \in [IPs -> Ages] BY <1>1, <1>8, <1>9
<1>11. lastSwep' \in Nat BY <1>1, <1>2
<1>12. LimiterShape' BY <1>3, <1>4, <1>5, <1>10, <1>11 DEF LimiterShape
<1>13. NothingForgotten'
  <2> SUFFICES ASSUME NEW i \in IPs PROVE InWindow(byIP'[i]) = InWindow(failLog'[i])
      BY DEF NothingForgotten
  <2>1. InWindow(byIP[i]) = InWindow(failLog[i]) BY DEF LimiterIInv, NothingForgotten
  <2>2. CASE i # ip BY <2>1, <2>2, <1>1, <1>4, <1>9
  <2>3. CASE i = ip /\ byIP'[ip] = Append(byIP[ip], 0) /\ failLog' = [failLog EXCEPT ![ip] = Append(InWindow(byIP[ip]), 0)]
        BY <2>3, <1>1, <1>7, <1>8
  <2>4. CASE i = ip /\ byIP[ip] = <<>> /\ byIP'[ip] = <<>> /\ failLog' = failLog BY <2>1, <2>4
  <2> QED BY <1>9, <2>2, <2>3, <2>4
<1>14. BudgetHeld'
  <2> SUFFICES ASSUME NEW i \in IPs
               PROVE  Len(InWindow(byIP'[i])) + Cardinality(Admitted(i)') =< MaxIP - 1 + Cardinality(Attempts)
      BY DEF BudgetHeld
  <2>1. Len(InWindow(byIP[i])) + Cardinality(Admitted(i)) =< MaxIP - 1 + Cardinality(Attempts) BY DEF LimiterIInv, BudgetHeld
  <2>2. IsFiniteSet(Admitted(i)) /\ Cardinality(Admitted(i)) \in Nat /\ Cardinality(Attempts) \in Nat
        BY <1>0, FS_Subset, FS_CardinalityType DEF Admitted
  <2>3. CASE i # ip
    <3>1. Admitted(i)' = Admitted(i)
      <4>1. a \notin Admitted(i) /\ a \notin Admitted(i)' BY <2>3, <1>3, <1>30 DEF Admitted
      <4> QED BY <4>1, <1>3 DEF Admitted
    <3> QED BY <2>1, <2>3, <3>1, <1>4
  <2>4. CASE i = ip
    <3>1. Admitted(i)' = Admitted(i) \ {a}
      <4>1. a \notin Admitted(i)' BY <1>3 DEF Admitted
      <4> QED BY <4>1, <1>3 DEF Admitted
    <3>2. a \in Admitted(i) BY <2>4, <1>1, <1>30 DEF Admitted
    <3>3. Cardinality(Admitted(i)') = Cardinality(Admitted(i)) - 1 BY <2>2, <3>1, <3>2, FS_RemoveElement
    <3>4. Len(InWindow(byIP'[i])) =< Len(InWindow(byIP[i])) + 1
      <4>1. CASE byIP'[ip] = Append(byIP[ip], 0) BY <2>4, <4>1, <1>7, <1>8
      <4>2. CASE byIP'[ip] = byIP[ip] BY <2>4, <4>2, <1>7
      <4> QED BY <1>9, <4>1, <4>2
    <3>5. byIP'[i] \in Ages /\ byIP[i] \in Ages BY <1>1, <1>4
    <3>6. Len(InWindow(byIP'[i])) \in Nat /\ Len(InWindow(byIP[i])) \in Nat BY <3>5, WindowFacts
    <3> QED BY <1>0, <2>1, <2>2, <3>3, <3>4, <3>6
  <2> QED BY <2>3, <2>4
<1>15. MapsBounded' BY <1>4, <1>5 DEF MapsBounded
<1> QED BY <1>12, <1>13, <1>14, <1>15 DEF LimiterIInv

\* RecordFailureUser touches the buckets of addresses by a sweep at most.
LEMMA FailureUserKeeps == ASSUME LimiterIInv, NEW a \in Attempts, RecordFailureUser(a) PROVE LimiterIInv'
<1> DEFINE u == attempt[a].user
<1>0. /\ IsFiniteSet(IPs) /\ IsFiniteSet(AccountKeys) /\ MaxEntries \in Nat /\ GcInterval \in Nat
      BY LimiterAssumption
<1>1. /\ byIP \in [IPs -> Ages] /\ byUser \in [AccountKeys -> Ages] /\ failLog \in [IPs -> Ages] /\ lastSwep \in Nat
      /\ attempt[a].pc = "failed" /\ u \in AccountKeys /\ LimiterShape /\ MapsBounded
      BY DEF LimiterIInv, LimiterShape, RecordFailureUser, At
<1>2. /\ byUser' = recordBucket(byUser, u)
      /\ byIP' = IF Crowded(byUser, u) THEN Swept(byIP, GcInterval) ELSE byIP
      /\ lastSwep' = IF Crowded(byUser, u) THEN 0 ELSE lastSwep
      /\ Done(a) /\ UNCHANGED failLog
      BY DEF RecordFailureUser
<1> HIDE DEF u
<1>3. byUser' \in [AccountKeys -> Ages] /\ Entries(byUser') =< MaxEntries
      BY <1>0, <1>1, <1>2, RecordFacts DEF MapsBounded
<1>4. /\ byIP' \in [IPs -> Ages] /\ \A i \in IPs : InWindow(byIP'[i]) = InWindow(byIP[i])
      /\ Entries(byIP') =< MaxEntries
  <2>1. Entries(byIP) =< MaxEntries /\ Entries(byIP) \in Nat BY <1>0, <1>1, FewerEntries DEF MapsBounded
  <2>2. CASE Crowded(byUser, u)
    <3>1. byIP' = Swept(byIP, GcInterval) BY <1>2, <2>2
    <3>2. byIP' \in [IPs -> Ages] /\ Entries(byIP') \in Nat /\ Entries(byIP') =< Entries(byIP)
          BY <1>0, <1>1, <3>1, SweptFacts
    <3>3. \A i \in IPs : InWindow(byIP'[i]) = InWindow(byIP[i]) BY <1>0, <1>1, <3>1, SweptFacts
    <3> QED BY <1>0, <2>1, <3>2, <3>3
  <2>3. CASE ~Crowded(byUser, u) BY <1>1, <1>2, <2>1, <2>3
  <2> QED BY <2>2, <2>3
<1>5. /\ attempt' \in [Attempts -> AttemptRecord] /\ attempt'[a].pc = "idle"
      /\ \A x \in Attempts : attempt'[x].pc # "idle" => attempt'[x].ip \in IPs /\ attempt'[x].user \in AccountKeys
      /\ \A x \in Attempts : attempt'[x].pc # "idle" => attempt[x].pc # "idle" /\ attempt'[x].ip = attempt[x].ip
      /\ \A x \in Attempts \ {a} : attempt'[x] = attempt[x]
      BY <1>1, <1>2, AttemptMoves
<1>6. LimiterShape' BY <1>1, <1>2, <1>3, <1>4, <1>5 DEF LimiterShape
<1>7. \A i \in IPs : Len(InWindow(byIP[i])) \in Nat BY <1>1, WindowFacts
<1>8. \A x \in Attempts : attempt'[x].pc \in {"user", "verify"} =>
        attempt[x].pc \in {"user", "verify"} /\ attempt'[x].ip = attempt[x].ip
      BY <1>5
<1>9. BudgetHeld' BY <1>4, <1>6, <1>7, <1>8, BudgetStays
<1>10. NothingForgotten' BY <1>2, <1>4 DEF LimiterIInv, NothingForgotten
<1>11. MapsBounded' BY <1>3, <1>4 DEF MapsBounded
<1> QED BY <1>6, <1>9, <1>10, <1>11 DEF LimiterIInv

\* A success empties the buckets of the request and the log alike; leaving early touches none.
LEMMA EndsKeep ==
  ASSUME LimiterIInv, NEW a \in Attempts, RecordSuccess(a) \/ LeaveEarly(a)
  PROVE  LimiterIInv'
<1>0. /\ IsFiniteSet(IPs) /\ IsFiniteSet(AccountKeys) /\ MaxEntries \in Nat
      BY LimiterAssumption
<1>1. /\ byIP \in [IPs -> Ages] /\ byUser \in [AccountKeys -> Ages] /\ failLog \in [IPs -> Ages] /\ lastSwep \in Nat
      /\ attempt[a].pc # "idle" /\ LimiterShape /\ MapsBounded /\ Done(a) /\ lastSwep' = lastSwep
      BY DEF LimiterIInv, LimiterShape, RecordSuccess, LeaveEarly, At
<1>2. /\ attempt' \in [Attempts -> AttemptRecord] /\ attempt'[a].pc = "idle"
      /\ \A x \in Attempts : attempt'[x].pc # "idle" => attempt'[x].ip \in IPs /\ attempt'[x].user \in AccountKeys
      /\ \A x \in Attempts : attempt'[x].pc # "idle" => attempt[x].pc # "idle" /\ attempt'[x].ip = attempt[x].ip
      /\ \A x \in Attempts \ {a} : attempt'[x] = attempt[x]
      BY <1>1, AttemptMoves
<1>3. <<>> \in Ages /\ InWindow(<<>>) = <<>> /\ Len(<<>>) = 0
  <2>1. <<>> \in Ages BY DEF Ages
  <2> QED BY <2>1, WindowFacts
<1>4. /\ byIP' \in [IPs -> Ages] /\ byUser' \in [AccountKeys -> Ages] /\ failLog' \in [IPs -> Ages]
      /\ \A i \in IPs : \/ byIP'[i] = byIP[i] /\ failLog'[i] = failLog[i]
                        \/ byIP'[i] = <<>> /\ failLog'[i] = <<>>
      /\ \A u \in AccountKeys : byUser[u] = <<>> => byUser'[u] = <<>>
  <2>1. CASE RecordSuccess(a)
    <3>1. /\ byIP' = [byIP EXCEPT ![attempt[a].ip] = <<>>] /\ byUser' = [byUser EXCEPT ![attempt[a].user] = <<>>]
          /\ failLog' = [failLog EXCEPT ![attempt[a].ip] = <<>>]
          BY <2>1 DEF RecordSuccess
    <3> QED BY <1>1, <1>3, <3>1
  <2>2. CASE LeaveEarly(a) BY <2>2, <1>1 DEF LeaveEarly
  <2> QED BY <2>1, <2>2
<1>5. LimiterShape' BY <1>1, <1>2, <1>4 DEF LimiterShape
<1>6. \A i \in IPs : Len(InWindow(byIP[i])) \in Nat BY <1>1, WindowFacts
<1>7. \A i \in IPs : Len(InWindow(byIP'[i])) =< Len(InWindow(byIP[i])) BY <1>3, <1>4, <1>6
<1>8. \A x \in Attempts : attempt'[x].pc \in {"user", "verify"} =>
        attempt[x].pc \in {"user", "verify"} /\ attempt'[x].ip = attempt[x].ip
      BY <1>2
<1>9. BudgetHeld' BY <1>5, <1>7, <1>8, BudgetStays
<1>10. NothingForgotten' BY <1>4 DEF LimiterIInv, NothingForgotten
<1>11. MapsBounded'
  <2>1. Entries(byIP') =< Entries(byIP) /\ Entries(byIP') \in Nat /\ Entries(byIP) \in Nat BY <1>0, <1>1, <1>4, FewerEntries
  <2>2. Entries(byUser') =< Entries(byUser) /\ Entries(byUser') \in Nat /\ Entries(byUser) \in Nat BY <1>0, <1>1, <1>4, FewerEntries
  <2> QED BY <1>0, <1>1, <2>1, <2>2 DEF MapsBounded
<1> QED BY <1>5, <1>9, <1>10, <1>11 DEF LimiterIInv

\* The limiter as a whole, for any number of addresses, accounts and overlapping attempts and any
\* limits: an address fails at most maxIP - 1 times in its window and once more for each request in
\* flight, a sweep forgets no failure that counts, and the maps stay bounded.
THEOREM LimiterIsSound == LimiterSpec => []LimiterSound
<1>1. LimiterIInv /\ [LimiterNext]_limiterVars => LimiterIInv'
  <2>1. ASSUME LimiterIInv, UNCHANGED limiterVars PROVE LimiterIInv'
    <3>1. byIP' = byIP /\ byUser' = byUser /\ lastSwep' = lastSwep /\ attempt' = attempt /\ failLog' = failLog
          BY <2>1 DEF limiterVars
    <3> QED BY <2>1, <3>1 DEF LimiterIInv, LimiterShape, BudgetHeld, NothingForgotten, MapsBounded, Admitted
  <2> QED BY <2>1, TimeKeeps, AllowIPKeeps, AllowUserKeeps, FailureIPKeeps, FailureUserKeeps, EndsKeep DEF LimiterNext
<1>2. LimiterIInv => LimiterSound BY DEF LimiterIInv, LimiterSound
<1> QED BY <1>1, <1>2, LimiterStart, PTL DEF LimiterSpec

===============================================================================
