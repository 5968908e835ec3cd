------------------------------ MODULE MCIdentity ------------------------------
(***************************************************************************)
(* Who a request acts for and with what: the login limiter, logging in,    *)
(* the accounts, the start of the server that makes the first of them, the  *)
(* credentials kept for targets, and the forwarding of the audit entries    *)
(* that tell who did what.  They share no state, so `focus` picks one of    *)
(* them and the others stay as they started.                                *)
(***************************************************************************)
EXTENDS LoginLimiter, Login, Accounts, Credentials, Migration, AuditForwarder, TLC

CONSTANTS
  Pair, OtherPair,   \* the interchangeable values of the cfg
  SpareKey           \* the passkey past the cap

VARIABLE focus

IdentityInit ==
  /\ focus \in {"limiter", "login", "accounts", "credentials", "start", "forwarder"}
  /\ LimiterInit /\ LoginInit /\ AccountsInit /\ CredInit
  /\ MigrationInit /\ ForwarderInit
  /\ SpareKey \notin passkeys
  /\ focus # "login" => totp = NoRow /\ passkeys = {} /\ \A s \in Sessions : ~session[s].live
  /\ focus # "accounts" => EnabledAdmins = People
  /\ fwdEnv = IF focus = "forwarder" THEN "datagram" ELSE "off"
  /\ focus # "start" => marks = {} /\ adminRow = NoAdmin

\* Neither the API tokens nor the connections have a say in what becomes of the
\* other, so they are looked at one at a time.
AccountScope ==
  \/ \A b \in Bridges : running[b] = NoBridge
  \/ /\ \A t \in TokenIds : apiToken[t] = Nobody
     /\ \A r \in AdminCalls : ~AtCall(r, "insert")

\* What is interchangeable comes in one order: the spare passkey is added to all the
\* others, and the second recovery code of a set is tried when the first one is or was.
LoginScope ==
  /\ SpareKey \in passkeys' => passkeys' = Passkeys
  /\ \A r \in Requests : On(r, "idle") =>
       /\ call'[r].kind = "webauthn" => call'[r].code # SpareKey
       /\ call'[r].kind = "totp" => \A n \in 1 .. MaxSecret : call'[r].code = <<n, "y">> =>
            \/ spent[<<n, "x">>] > 0
            \/ \E q \in Requests : call[q].kind = "totp" /\ call[q].code = <<n, "x">>

IdentityNext ==
  /\ UNCHANGED focus
  /\ \/ focus = "limiter" /\ LimiterNext
     \/ focus # "limiter" /\ UNCHANGED limiterVars
  /\ \/ focus = "login" /\ LoginNext /\ LoginScope
     \/ focus # "login" /\ UNCHANGED loginVars
  /\ \/ focus = "accounts" /\ AccountsNext /\ AccountScope'
     \/ focus # "accounts" /\ UNCHANGED accountVars
  /\ \/ focus = "credentials" /\ CredNext
     \/ focus # "credentials" /\ UNCHANGED credVars
  /\ \/ focus = "start" /\ MigrationNext
     \/ focus # "start" /\ UNCHANGED migrationVars
  /\ \/ focus = "forwarder" /\ ForwarderNext
     \/ focus # "forwarder" /\ UNCHANGED forwarderVars

IdentitySpec ==
  /\ IdentityInit
  /\ [][IdentityNext]_<<focus, limiterVars, loginVars, accountVars, credVars, migrationVars,
                         forwarderVars>>

Symmetry == Permutations(Pair) \cup Permutations(OtherPair)

===============================================================================
