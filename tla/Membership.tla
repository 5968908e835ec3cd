------------------------------ MODULE Membership ------------------------------
(***************************************************************************)
(* The groups of one user: memberships an administrator adds and removes,  *)
(* memberships that an access request obtains for a time, and memberships  *)
(* that follow the groups claim of an OIDC login.  All three write the     *)
(* same row of user_groups; a table of its own remembers which of them     *)
(* OIDC manages.  Each store call of a handler is a step.                  *)
(***************************************************************************)
EXTENDS Integers, FiniteSets

CONSTANTS
  AccessGroups,  \* group ids
  RequestRows,   \* access request ids
  LoginStates,   \* OIDC state tokens; each is handed out at most once
  Handlers       \* requests in flight at a time

ASSUME MembershipAssumption ==
  \A S \in {AccessGroups, RequestRows, LoginStates, Handlers} : IsFiniteSet(S)

VARIABLES
  groupRow,    \* the groups that exist
  memberOf,    \* the user's row of user_groups for each group
  managed,     \* the user's rows of user_oidc_groups
  accessReq,   \* the rows of access_requests
  oidcState,   \* the states of the OIDC service: unused, pending or spent
  handling,    \* the requests in flight
  byHand,      \* history: memberships an administrator added, that nobody removed and
               \* no login's claim has carried since
  fromClaim,   \* history: memberships that only an OIDC sync has written
  stray,       \* history: of these, the ones whose sync was cut short or overtaken
  callbacks    \* history: logins completed with each state

oidcVars == <<managed, oidcState, callbacks>>
rowVars == <<memberOf, byHand, fromClaim, stray>>
membershipVars == <<groupRow, rowVars, oidcVars, accessReq, handling>>

NoRequestRow == [status |-> "none", group |-> "none"]
Free == [pc |-> "idle", req |-> "none", group |-> "none", verdict |-> "none",
         desired |-> {}, previous |-> {}, added |-> {}]

AtStep(h, pc) == handling[h].pc = pc
ToStep(h, pc) == handling' = [handling EXCEPT ![h].pc = pc]
Finish(h) == handling' = [handling EXCEPT ![h] = Free]

Member(g) == memberOf[g] # "none"
ActiveMembership(g) == memberOf[g] \in {"permanent", "timed"}

MembershipInit ==
  /\ groupRow = AccessGroups
  /\ memberOf = [g \in AccessGroups |-> "none"]
  /\ managed = {} /\ byHand = {} /\ fromClaim = {} /\ stray = {}
  /\ accessReq = [i \in RequestRows |-> NoRequestRow]
  /\ oidcState = [s \in LoginStates |-> "unused"]
  /\ callbacks = [s \in LoginStates |-> 0]
  /\ handling = [h \in Handlers |-> Free]

-------------------------------------------------------------------------------
\* AddUserToGroupUntil in its transaction: the row is written whole, the expiry of
\* one that is there included.  Without the group it fails.
AddUserToGroupUntil(g, until) == memberOf' = [memberOf EXCEPT ![g] = until]

\* handleAddGroupMember and handleRemoveGroupMember.
AddMember(g, until) ==
  /\ g \in groupRow
  /\ AddUserToGroupUntil(g, until)
  /\ byHand' = byHand \cup ({g} \ (managed \cup UNION {handling[h].previous : h \in Handlers}))
  /\ fromClaim' = fromClaim \ {g} /\ stray' = stray \ {g}
  /\ UNCHANGED <<groupRow, oidcVars, accessReq, handling>>

RemoveMember(g) ==
  /\ g \in groupRow /\ Member(g)
  /\ memberOf' = [memberOf EXCEPT ![g] = "none"]
  /\ byHand' = byHand \ {g} /\ fromClaim' = fromClaim \ {g} /\ stray' = stray \ {g}
  /\ UNCHANGED <<groupRow, oidcVars, accessReq, handling>>

\* A group is deleted: user_groups and user_oidc_groups cascade, access_requests
\* does not.  Another group may take its id.
DeleteAccessGroup(g) ==
  /\ g \in groupRow
  /\ groupRow' = groupRow \ {g}
  /\ memberOf' = [memberOf EXCEPT ![g] = "none"]
  /\ managed' = managed \ {g}
  /\ byHand' = byHand \ {g} /\ fromClaim' = fromClaim \ {g} /\ stray' = stray \ {g}
  /\ UNCHANGED <<oidcState, callbacks, accessReq, handling>>

CreateAccessGroup(g) ==
  /\ g \notin groupRow
  /\ groupRow' = groupRow \cup {g}
  /\ UNCHANGED <<rowVars, oidcVars, accessReq, handling>>

\* The time of a membership runs out, and the retention run removes the row.
MembershipExpires(g) ==
  /\ memberOf[g] = "timed"
  /\ memberOf' = [memberOf EXCEPT ![g] = "expired"]
  /\ byHand' = byHand \ {g}
  /\ UNCHANGED <<groupRow, fromClaim, stray, oidcVars, accessReq, handling>>

PurgeExpiredMemberships ==
  /\ \E g \in AccessGroups : memberOf[g] = "expired"
  /\ memberOf' = [g \in AccessGroups |-> IF memberOf[g] = "expired" THEN "none" ELSE memberOf[g]]
  /\ UNCHANGED <<groupRow, byHand, fromClaim, stray, oidcVars, accessReq, handling>>

-------------------------------------------------------------------------------
\* handleCreateAccessRequest: the group, the groups of the user and the pending
\* requests are read, and then the row is inserted.
AskForGroup(h, g) ==
  /\ AtStep(h, "idle")
  /\ g \in groupRow /\ ~ActiveMembership(g)
  /\ handling' = [handling EXCEPT ![h].pc = "ask", ![h].group = g]
  /\ UNCHANGED <<groupRow, rowVars, oidcVars, accessReq>>

Pending(g) == {i \in RequestRows : accessReq[i].status = "pending" /\ accessReq[i].group = g}

HasPendingFault(g) == FALSE

HasPending(g) == Pending(g) # {}

CheckPending(h) ==
  /\ AtStep(h, "ask")
  /\ IF HasPending(handling[h].group) THEN Finish(h) ELSE ToStep(h, "insert")
  /\ UNCHANGED <<groupRow, rowVars, oidcVars, accessReq>>

InsertRequest(h, i) ==
  /\ AtStep(h, "insert") /\ accessReq[i].status = "none"
  /\ accessReq' = [accessReq EXCEPT ![i] = [status |-> "pending", group |-> handling[h].group]]
  /\ Finish(h)
  /\ UNCHANGED <<groupRow, rowVars, oidcVars>>

\* Approve, deny and cancel load the request first.  Only approval writes the
\* membership, for the time asked for or the one the administrator sets.
LoadPending(h, i, verdict) ==
  /\ AtStep(h, "idle") /\ accessReq[i].status = "pending"
  /\ handling' = [handling EXCEPT ![h].req = i, ![h].verdict = verdict,
                    ![h].pc = IF verdict = "approved" THEN "grant" ELSE "decide"]
  /\ UNCHANGED <<groupRow, rowVars, oidcVars, accessReq>>

GrantRequested(h, until) ==
  /\ AtStep(h, "grant")
  /\ LET g == accessReq[handling[h].req].group
     IN IF g \in groupRow
          THEN /\ AddUserToGroupUntil(g, until)
               /\ fromClaim' = fromClaim \ {g} /\ stray' = stray \ {g}
               /\ ToStep(h, "decide")
          ELSE Finish(h) /\ UNCHANGED <<memberOf, fromClaim, stray>>
  /\ UNCHANGED <<groupRow, byHand, oidcVars, accessReq>>

DecidableFault(i) == TRUE

\* Decide is one UPDATE, and only of a pending row.
Decidable(i) == accessReq[i].status = "pending"

Decide(h) ==
  /\ AtStep(h, "decide")
  /\ LET i == handling[h].req
     IN accessReq' = IF Decidable(i) THEN [accessReq EXCEPT ![i].status = handling[h].verdict] ELSE accessReq
  /\ Finish(h)
  /\ UNCHANGED <<groupRow, rowVars, oidcVars>>

-------------------------------------------------------------------------------
\* handleOIDCLogin hands out a state; it expires after oidcStateTTL.
OIDCLogin(s) ==
  /\ oidcState[s] = "unused"
  /\ oidcState' = [oidcState EXCEPT ![s] = "pending"]
  /\ UNCHANGED <<groupRow, rowVars, managed, callbacks, accessReq, handling>>

ExpireState(s) ==
  /\ oidcState[s] = "pending"
  /\ oidcState' = [oidcState EXCEPT ![s] = "spent"]
  /\ UNCHANGED <<groupRow, rowVars, managed, callbacks, accessReq, handling>>

\* popState takes the state out whether it can still be used or not.
PoppedFault(s) == oidcState

Popped(s) == [oidcState EXCEPT ![s] = "spent"]

\* handleOIDCCallback.  The code may turn out bad or the account disabled; if not,
\* syncOIDCGroups keeps the mapped groups of the claim that exist.
Callback(h, s, claim) ==
  /\ AtStep(h, "idle") /\ oidcState[s] = "pending"
  /\ oidcState' = Popped(s)
  /\ callbacks' = [callbacks EXCEPT ![s] = @ + 1]
  /\ handling' = [handling EXCEPT ![h].pc = "managed", ![h].desired = claim \cap groupRow]
  /\ UNCHANGED <<groupRow, rowVars, managed, accessReq>>

CallbackFails(s) ==
  /\ oidcState[s] = "pending"
  /\ oidcState' = Popped(s)
  /\ callbacks' = [callbacks EXCEPT ![s] = @ + 1]
  /\ UNCHANGED <<groupRow, rowVars, managed, accessReq, handling>>

ReadManaged(h) ==
  /\ AtStep(h, "managed")
  /\ handling' = [handling EXCEPT ![h].pc = "sync", ![h].previous = managed]
  /\ UNCHANGED <<groupRow, rowVars, oidcVars, accessReq>>

ToAdd(h) == handling[h].desired \ (handling[h].previous \cup handling[h].added)

ToRemoveFault(h) == {g \in AccessGroups : Member(g)} \ handling[h].desired

ToRemove(h) == handling[h].previous \ handling[h].desired

\* A sync that fails leaves what it has added, and does not record it.
Abandon(h) ==
  /\ stray' = stray \cup (handling[h].added \cap fromClaim)
  /\ Finish(h)

SyncAdd(h, g) ==
  /\ AtStep(h, "sync") /\ g \in ToAdd(h)
  /\ IF g \in groupRow
       THEN /\ AddUserToGroupUntil(g, "permanent")
            /\ fromClaim' = IF Member(g) /\ g \notin fromClaim THEN fromClaim ELSE fromClaim \cup {g}
            /\ handling' = [handling EXCEPT ![h].added = @ \cup {g}]
            /\ UNCHANGED stray
       ELSE Abandon(h) /\ UNCHANGED <<memberOf, fromClaim>>
  /\ UNCHANGED <<groupRow, byHand, oidcVars, accessReq>>

SyncRemove(h, g) ==
  /\ AtStep(h, "sync") /\ ToAdd(h) = {} /\ g \in ToRemove(h)
  /\ memberOf' = [memberOf EXCEPT ![g] = "none"]
  /\ fromClaim' = fromClaim \ {g} /\ stray' = stray \ {g}
  /\ handling' = [handling EXCEPT ![h].previous = @ \ {g}]
  /\ UNCHANGED <<groupRow, byHand, oidcVars, accessReq>>

\* What SetManagedGroups is given: all of desired, kept or added.
NowManagedFault(h) == handling[h].added

NowManaged(h) == handling[h].desired

\* The rows are replaced in a transaction; the foreign key refuses a group that
\* has gone.  Rows that another login wrote meanwhile are lost.
SetManagedGroups(h) ==
  /\ AtStep(h, "sync") /\ ToAdd(h) = {} /\ ToRemove(h) = {}
  /\ IF NowManaged(h) \subseteq groupRow
       THEN /\ managed' = NowManaged(h) /\ byHand' = byHand \ NowManaged(h)
            /\ stray' = (stray \cup ((managed \ handling[h].previous) \cap fromClaim)) \ NowManaged(h)
            /\ Finish(h)
       ELSE Abandon(h) /\ UNCHANGED <<managed, byHand>>
  /\ UNCHANGED <<groupRow, memberOf, fromClaim, oidcState, callbacks, accessReq>>

MembershipNext ==
  \/ PurgeExpiredMemberships
  \/ \E g \in AccessGroups :
       \/ \E until \in {"permanent", "timed"} : AddMember(g, until)
       \/ RemoveMember(g) \/ DeleteAccessGroup(g) \/ CreateAccessGroup(g) \/ MembershipExpires(g)
  \/ \E s \in LoginStates : OIDCLogin(s) \/ ExpireState(s) \/ CallbackFails(s)
  \/ \E h \in Handlers :
       \/ \E g \in AccessGroups : AskForGroup(h, g) \/ SyncAdd(h, g) \/ SyncRemove(h, g)
       \/ CheckPending(h) \/ Decide(h) \/ ReadManaged(h) \/ SetManagedGroups(h)
       \/ \E i \in RequestRows :
            \/ InsertRequest(h, i)
            \/ \E verdict \in {"approved", "denied", "cancelled"} : LoadPending(h, i, verdict)
       \/ \E until \in {"permanent", "timed"} : GrantRequested(h, until)
       \/ \E s \in LoginStates, claim \in SUBSET AccessGroups : Callback(h, s, claim)

MembershipSpec == MembershipInit /\ [][MembershipNext]_membershipVars

-------------------------------------------------------------------------------
\* Asking twice: HasPending and Create are separate calls, so requests that overlap
\* may each insert a row, but a group never has more pending than were in flight.
PendingBounded ==
  \A g \in AccessGroups :
    Cardinality(Pending(g)) + Cardinality({h \in Handlers : AtStep(h, "insert") /\ handling[h].group = g})
      =< Cardinality(Handlers)

\* However approve, deny and cancel overlap, the first decision stands.
DecisionFinal ==
  [][\A i \in RequestRows :
       accessReq[i].status \in {"approved", "denied", "cancelled"} => accessReq'[i] = accessReq[i]]_membershipVars

\* user_oidc_groups remembers every membership that only OIDC has granted, also the
\* ones an earlier login granted and this one kept, so that the login which no
\* longer carries the group can revoke it.  What a failed sync had added, and what
\* an overlapping one overwrote, is known to nobody.
OidcTracked ==
  \A g \in fromClaim :
    g \in managed \cup stray \/ \E h \in Handlers : g \in handling[h].added

\* A state obtained from handleOIDCLogin completes at most one login.
StateUsedOnce == \A s \in LoginStates : callbacks[s] =< 1

\* The group sync leaves alone what an administrator added by hand: whichever logins
\* and edits overlap, it removes only memberships it has on record as its own.  (It
\* puts a group of the claim on record although an administrator had added it.)
ByHandKept == \A g \in byHand : Member(g)

\* An OIDC login uses its state once, tracks the memberships it makes, and removes
\* no other.
OidcSound == StateUsedOnce /\ OidcTracked /\ ByHandKept

===============================================================================
