------------------------------- MODULE Accounts -------------------------------
(***************************************************************************)
(* Account administration: PATCH and DELETE of a user, with the guard on   *)
(* the last administrator and the end of what the user has running, the    *)
(* start of sessions and CLI connections it races with, and the cap on API *)
(* tokens.  Each store call of a request is a step.                        *)
(***************************************************************************)
EXTENDS Integers, FiniteSets

CONSTANTS
  People,       \* user ids
  AdminCalls,   \* requests in flight at a time
  Bridges,      \* terminal, VNC, RDP or CLI connections
  TokenIds,     \* API token ids
  MaxAPITokens, \* apiTokenMaxPerUser
  Nobody        \* no user

ASSUME AccountsAssumption ==
  /\ \A S \in {People, AdminCalls, Bridges, TokenIds} : IsFiniteSet(S)
  /\ MaxAPITokens \in Nat \ {0}
  /\ Nobody \notin People

VARIABLES
  account,  \* the rows of users
  admin,    \* the requests
  running,   \* conns of the SSH gateway and sessions of the managers
  apiToken  \* the owner of each row of api_tokens that is not revoked

accountVars == <<account, admin, running, apiToken>>

NoCall == [pc |-> "idle", actor |-> Nobody, on |-> Nobody, op |-> "none", seen |-> "none"]
NoBridge == [state |-> "none", owner |-> Nobody, kind |-> "none", late |-> FALSE]

Enabled(u) == u \in People /\ account[u].exists /\ ~account[u].disabled
EnabledAdmins == {u \in People : Enabled(u) /\ account[u].role = "admin"}

AtCall(r, pc) == admin[r].pc = pc
Goto(r, pc) == admin' = [admin EXCEPT ![r].pc = pc]
Return(r) == admin' = [admin EXCEPT ![r] = NoCall]

AccountsInit ==
  /\ account \in [People -> [exists : {TRUE}, role : {"admin", "user"}, disabled : {FALSE}]]
  /\ EnabledAdmins # {}
  /\ admin = [r \in AdminCalls |-> NoCall]
  /\ running = [b \in Bridges |-> NoBridge]
  /\ apiToken = [t \in TokenIds |-> Nobody]

-------------------------------------------------------------------------------
\* requireAdmin, the body, and GetByID of the target.  A promotion or an enable
\* needs no guard; the others may not be aimed at oneself.
Ops == {"promote", "demote", "disable", "enable", "delete"}

BeginCall(r, a, u, op) ==
  /\ AtCall(r, "idle")
  /\ a \in EnabledAdmins
  /\ account[u].exists
  /\ op \in {"demote", "disable", "delete"} => a # u
  /\ op = "promote" => account[u].role = "user"
  /\ op = "demote" => account[u].role = "admin"
  /\ op = "enable" => account[u].disabled
  /\ op = "disable" => ~account[u].disabled
  /\ admin' = [admin EXCEPT ![r] = [pc |-> "guard", actor |-> a, on |-> u, op |-> op,
                                    seen |-> account[u].role]]
  /\ UNCHANGED <<account, running, apiToken>>

\* countAdmins, asked when the target was an administrator as it was read.
Guarded(r) == admin[r].seen = "admin" /\ admin[r].op \in {"demote", "disable", "delete"}

LastAdmin(r) == Guarded(r) /\ Cardinality(EnabledAdmins) =< 1

CountAdmins(r) ==
  /\ AtCall(r, "guard")
  /\ IF LastAdmin(r) THEN Return(r)
     ELSE Goto(r, IF admin[r].op = "delete" THEN "cli" ELSE "write")
  /\ UNCHANGED <<account, running, apiToken>>

UpdateRole(r) ==
  /\ AtCall(r, "write") /\ admin[r].op \in {"promote", "demote"}
  /\ LET u == admin[r].on
         role == IF admin[r].op = "promote" THEN "admin" ELSE "user"
     IN account' = IF account[u].exists THEN [account EXCEPT ![u].role = role] ELSE account
  /\ Return(r)
  /\ UNCHANGED <<running, apiToken>>

UpdateDisabled(r) ==
  /\ AtCall(r, "write") /\ admin[r].op \in {"disable", "enable"}
  /\ LET u == admin[r].on
         off == admin[r].op = "disable"
     IN IF account[u].exists
          THEN /\ account' = [account EXCEPT ![u].disabled = off]
               /\ IF off THEN Goto(r, "cli") ELSE Return(r)
          ELSE Return(r) /\ UNCHANGED account
  /\ UNCHANGED <<running, apiToken>>

\* stopSessionsOwnedBy: the tracked CLI connections, then the sessions of the
\* terminal and the VNC manager.  It does not ask the manager of browser RDP.
Kinds == {"cli", "session", "rdp"}

StopAll(u, kind) ==
  running' = [b \in Bridges |->
    IF running[b].state = "live" /\ running[b].owner = u /\ running[b].kind = kind
      THEN NoBridge ELSE running[b]]

CloseConnectionsForUserFault(r) ==
  /\ AtCall(r, "cli")
  /\ Goto(r, "sessions")
  /\ UNCHANGED <<account, running, apiToken>>

CloseConnectionsForUser(r) ==
  /\ AtCall(r, "cli")
  /\ StopAll(admin[r].on, "cli")
  /\ Goto(r, "sessions")
  /\ UNCHANGED <<account, apiToken>>

StopSessions(r) ==
  /\ AtCall(r, "sessions")
  /\ StopAll(admin[r].on, "session")
  /\ IF admin[r].op = "delete" THEN Goto(r, "remove") ELSE Return(r)
  /\ UNCHANGED <<account, apiToken>>

\* DeleteUser; the rows that belong to the user go with it.
DeleteUser(r) ==
  /\ AtCall(r, "remove")
  /\ LET u == admin[r].on
     IN /\ account' = [account EXCEPT ![u].exists = FALSE]
        /\ apiToken' = [t \in TokenIds |-> IF apiToken[t] = u THEN Nobody ELSE apiToken[t]]
  /\ Return(r)
  /\ UNCHANGED running

-------------------------------------------------------------------------------
\* A running starts in two steps: the caller is authenticated (currentUserID, or
\* the public key callback), and later it is registered (mgr.Register, trackConn)
\* where stopSessionsOwnedBy can find it.
Authorise(b, u, kind) ==
  /\ running[b].state = "none"
  /\ Enabled(u)
  /\ running' = [running EXCEPT ![b] = [state |-> "starting", owner |-> u, kind |-> kind, late |-> FALSE]]
  /\ UNCHANGED <<account, admin, apiToken>>

\* A request that ends the account has come past the place of this kind.
Passed(u, kind) ==
  \/ ~Enabled(u)
  \/ \E r \in AdminCalls : /\ admin[r].on = u /\ admin[r].op = "delete"
                           /\ admin[r].pc \in (IF kind = "cli" THEN {"sessions", "remove"} ELSE {"remove"})

RegisterBridge(b) ==
  /\ running[b].state = "starting"
  /\ running' = [running EXCEPT ![b].state = "live",
                              ![b].late = Passed(running[b].owner, running[b].kind)]
  /\ UNCHANGED <<account, admin, apiToken>>

EndBridge(b) ==
  /\ running[b].state # "none"
  /\ running' = [running EXCEPT ![b] = NoBridge]
  /\ UNCHANGED <<account, admin, apiToken>>

-------------------------------------------------------------------------------
\* API tokens: Create counts the tokens that are not revoked, and then inserts.
TokensOf(u) == {t \in TokenIds : apiToken[t] = u}

TokenLimitFault(u) == Cardinality(TokensOf(u)) > MaxAPITokens

TokenLimit(u) == Cardinality(TokensOf(u)) >= MaxAPITokens

CreateToken(r, u) ==
  /\ AtCall(r, "idle") /\ Enabled(u) /\ ~TokenLimit(u)
  /\ admin' = [admin EXCEPT ![r] = [NoCall EXCEPT !.pc = "insert", !.on = u, !.op = "token"]]
  /\ UNCHANGED <<account, running, apiToken>>

InsertToken(r, t) ==
  /\ AtCall(r, "insert") /\ apiToken[t] = Nobody
  /\ apiToken' = IF account[admin[r].on].exists THEN [apiToken EXCEPT ![t] = admin[r].on] ELSE apiToken
  /\ Return(r)
  /\ UNCHANGED <<account, running>>

\* Revoke, by the owner or by an administrator; a token also stops counting when
\* it is revoked, not when it expires.
RevokeToken(t) ==
  /\ apiToken[t] # Nobody
  /\ apiToken' = [apiToken EXCEPT ![t] = Nobody]
  /\ UNCHANGED <<account, admin, running>>

AccountsNext ==
  \/ \E r \in AdminCalls :
       \/ \E a, u \in People, op \in Ops : BeginCall(r, a, u, op)
       \/ CountAdmins(r) \/ UpdateRole(r) \/ UpdateDisabled(r)
       \/ CloseConnectionsForUser(r) \/ StopSessions(r) \/ DeleteUser(r)
       \/ \E u \in People : CreateToken(r, u)
       \/ \E t \in TokenIds : InsertToken(r, t)
  \/ \E b \in Bridges :
       \/ \E u \in People, kind \in Kinds : Authorise(b, u, kind)
       \/ RegisterBridge(b) \/ EndBridge(b)
  \/ \E t \in TokenIds : RevokeToken(t)

AccountsSpec == AccountsInit /\ [][AccountsNext]_accountVars

-------------------------------------------------------------------------------
\* The account of this connection was ended, and no request is busy with it.  One
\* that was let in before and registered after the request had looked is excused.
Outlives(b) ==
  LET u == running[b].owner
  IN /\ running[b].state = "live" /\ ~Enabled(u) /\ ~running[b].late
     /\ \A r \in AdminCalls : admin[r].on = u => AtCall(r, "idle")

\* Disabling or deleting an account ends its terminal, VNC and CLI connections; what
\* goes on is a browser RDP session, which nothing in either request stops.
EndedWithAccount == \A b \in Bridges : Outlives(b) => running[b].kind = "rdp"

\* The cap on API tokens is passed by no more than the requests that overlap.
TokensCapped ==
  \A u \in People : Cardinality(TokensOf(u)) =< MaxAPITokens + Cardinality(AdminCalls) - 1

\* A deleted or disabled account keeps no terminal session, and API tokens pass
\* their cap by no more than what overlaps.
AccountsSound == EndedWithAccount /\ TokensCapped

===============================================================================
