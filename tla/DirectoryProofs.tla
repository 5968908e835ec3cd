---------------------------- MODULE DirectoryProofs ----------------------------
(***************************************************************************)
(* Who may reach what, and who is told: access requests stay bounded and    *)
(* final, grants agree in both directions, event streams catch up, the TFTP *)
(* controller counts its targets, and no webhook delivery is lost track of. *)
(* Each for any number of users, targets, requests, clients and endpoints.  *)
(***************************************************************************)
EXTENDS Membership, Catalogue, EventBroker, TftpServer, Webhooks, FiniteSetTheorems, TLAPS

--------------------------------------------------------------------------------
(* Access requests and OIDC state (Membership).                              *)

HandlerRecord ==
  [pc : {"idle", "ask", "insert", "grant", "decide", "managed", "sync"},
   req : RequestRows \cup {"none"}, group : AccessGroups \cup {"none"},
   verdict : {"none", "approved", "denied", "cancelled"},
   desired : SUBSET AccessGroups, previous : SUBSET AccessGroups, added : SUBSET AccessGroups]

RequestRecord ==
  [status : {"none", "pending", "approved", "denied", "cancelled"}, group : AccessGroups \cup {"none"}]

MembershipTypeOK ==
  /\ groupRow \subseteq AccessGroups
  /\ memberOf \in [AccessGroups -> {"none", "permanent", "timed", "expired"}]
  /\ managed \subseteq AccessGroups
  /\ byHand \subseteq AccessGroups /\ fromClaim \subseteq AccessGroups /\ stray \subseteq AccessGroups
  /\ accessReq \in [RequestRows -> RequestRecord]
  /\ oidcState \in [LoginStates -> {"unused", "pending", "spent"}]
  /\ callbacks \in [LoginStates -> Nat]
  /\ handling \in [Handlers -> HandlerRecord]

\* Where a handler is tells what it carries: the group it asks for, the request it
\* decides, and only a sync has added anything, of the groups it was to add.
HandlerOK(f) ==
  /\ f.pc \in {"ask", "insert"} => f.group \in AccessGroups
  /\ f.pc \in {"grant", "decide"} =>
       f.req \in RequestRows /\ accessReq[f.req].group \in AccessGroups /\ f.verdict # "none"
  /\ f.pc # "sync" => f.added = {} /\ f.previous = {}
  /\ f.added \subseteq f.desired

HandlersOK == \A h \in Handlers : HandlerOK(handling[h])

RequestsOK == \A i \in RequestRows : accessReq[i].status # "none" => accessReq[i].group \in AccessGroups

\* A state that may still complete a login has completed none.
StatesFresh == \A s \in LoginStates : callbacks[s] =< (IF oidcState[s] = "spent" THEN 1 ELSE 0)

\* What an administrator added is a membership that runs, and neither OIDC's table nor a
\* sync under way has it.
ByHandApart == \A g \in byHand :
  /\ ActiveMembership(g)
  /\ g \notin managed
  /\ \A h \in Handlers : g \notin handling[h].previous

MembershipIInv ==
  /\ MembershipTypeOK /\ HandlersOK /\ RequestsOK /\ StatesFresh /\ ByHandApart
  /\ OidcTracked /\ PendingBounded

\* Nothing is asked and nobody is a member yet.
LEMMA MembershipStart == MembershipInit => MembershipIInv
<1> SUFFICES ASSUME MembershipInit PROVE MembershipIInv
    OBVIOUS
<1>1. Free \in HandlerRecord /\ NoRequestRow \in RequestRecord
      BY DEF Free, HandlerRecord, NoRequestRow, RequestRecord
<1>2. Free.pc = "idle" /\ Free.added = {} /\ Free.previous = {} /\ NoRequestRow.status = "none"
      BY DEF Free, NoRequestRow
<1>3. handling \in [Handlers -> HandlerRecord] /\ accessReq \in [RequestRows -> RequestRecord]
      /\ (\A h \in Handlers : handling[h] = Free) /\ (\A i \in RequestRows : accessReq[i] = NoRequestRow)
      BY <1>1 DEF MembershipInit
<1>4. MembershipTypeOK BY <1>3 DEF MembershipInit, MembershipTypeOK
<1>5. HandlersOK /\ RequestsOK BY <1>2, <1>3 DEF HandlersOK, HandlerOK, RequestsOK
<1>6. StatesFresh /\ ByHandApart /\ OidcTracked
      BY DEF MembershipInit, StatesFresh, ByHandApart, OidcTracked
<1>7. PendingBounded
  <2> SUFFICES ASSUME NEW g \in AccessGroups
               PROVE Cardinality(Pending(g)) + Cardinality({h \in Handlers : AtStep(h, "insert") /\ handling[h].group = g})
                       =< Cardinality(Handlers)
      BY DEF PendingBounded
  <2>1. Pending(g) = {} /\ {h \in Handlers : AtStep(h, "insert") /\ handling[h].group = g} = {}
        BY <1>2, <1>3 DEF Pending, AtStep
  <2>2. Cardinality(Handlers) \in Nat BY MembershipAssumption, FS_CardinalityType
  <2>3. Cardinality({}) = 0 BY FS_EmptySet
  <2> QED BY <2>1, <2>2, <2>3
<1> QED BY <1>4, <1>5, <1>6, <1>7 DEF MembershipIInv

\* Fewer pending rows, and fewer handlers about to insert one, keep the bound.
LEMMA FewerPending ==
  ASSUME PendingBounded,
         \A g \in AccessGroups : Pending(g)' \subseteq Pending(g)
           /\ {h \in Handlers : AtStep(h, "insert") /\ handling[h].group = g}'
                \subseteq {h \in Handlers : AtStep(h, "insert") /\ handling[h].group = g}
  PROVE  PendingBounded'
<1> SUFFICES ASSUME NEW g \in AccessGroups
             PROVE  (Cardinality(Pending(g)) + Cardinality({h \in Handlers : AtStep(h, "insert") /\ handling[h].group = g})
                      =< Cardinality(Handlers))'
    BY DEF PendingBounded
<1>1. PICK I : I = {h \in Handlers : AtStep(h, "insert") /\ handling[h].group = g} OBVIOUS
<1>2. PICK J : J = {h \in Handlers : AtStep(h, "insert") /\ handling[h].group = g}' OBVIOUS
<1>3. PICK P, Q : P = Pending(g) /\ Q = Pending(g)' OBVIOUS
<1>4. IsFiniteSet(I) /\ IsFiniteSet(P)
  <2>1. I \subseteq Handlers /\ P \subseteq RequestRows BY <1>1, <1>3 DEF Pending
  <2>2. IsFiniteSet(Handlers) /\ IsFiniteSet(RequestRows) BY MembershipAssumption
  <2> QED BY <2>1, <2>2, FS_Subset
<1>5. /\ Cardinality(Q) =< Cardinality(P) /\ Cardinality(J) =< Cardinality(I)
      /\ Cardinality(Q) \in Nat /\ Cardinality(P) \in Nat /\ Cardinality(I) \in Nat /\ Cardinality(J) \in Nat
  <2>1. Q \subseteq P /\ J \subseteq I BY <1>1, <1>2, <1>3
  <2> QED BY <1>4, <2>1, FS_Subset, FS_CardinalityType
<1>6. Cardinality(P) + Cardinality(I) =< Cardinality(Handlers) BY <1>1, <1>3 DEF PendingBounded
<1>7. Cardinality(Handlers) \in Nat BY MembershipAssumption, FS_CardinalityType
<1>8. Cardinality(Q) + Cardinality(J) =< Cardinality(Handlers) BY <1>5, <1>6, <1>7
<1> QED BY <1>2, <1>3, <1>8

\* One handler moves on, the requests stay.
LEMMA HandlerMoves ==
  ASSUME MembershipIInv, NEW h \in Handlers, NEW f \in HandlerRecord, handling' = [handling EXCEPT ![h] = f],
         HandlerOK(f), accessReq' = accessReq
  PROVE  /\ handling' \in [Handlers -> HandlerRecord] /\ handling'[h] = f
         /\ \A k \in Handlers \ {h} : handling'[k] = handling[k]
         /\ HandlersOK' /\ RequestsOK' /\ accessReq' \in [RequestRows -> RequestRecord]
         /\ f.pc # "insert" => PendingBounded'
<1> USE DEF MembershipIInv
<1>1. /\ handling' \in [Handlers -> HandlerRecord] /\ handling'[h] = f
      /\ \A k \in Handlers \ {h} : handling'[k] = handling[k]
      BY DEF MembershipTypeOK
<1>2. HandlersOK' BY <1>1 DEF HandlersOK, HandlerOK
<1>3. RequestsOK' /\ accessReq' \in [RequestRows -> RequestRecord] BY DEF RequestsOK, MembershipTypeOK
<1>4. ASSUME f.pc # "insert" PROVE PendingBounded'
  <2>1. ASSUME NEW g \in AccessGroups
        PROVE  /\ Pending(g)' \subseteq Pending(g)
               /\ {k \in Handlers : AtStep(k, "insert") /\ handling[k].group = g}'
                    \subseteq {k \in Handlers : AtStep(k, "insert") /\ handling[k].group = g}
        BY <1>1, <1>4 DEF Pending, AtStep
  <2> QED BY <2>1, FewerPending
<1> QED BY <1>1, <1>2, <1>3, <1>4

\* A step that leaves requests and handlers alone.
LEMMA HandlersStay ==
  ASSUME MembershipIInv, UNCHANGED <<accessReq, handling>>
  PROVE  /\ handling' \in [Handlers -> HandlerRecord] /\ HandlersOK' /\ RequestsOK'
         /\ accessReq' \in [RequestRows -> RequestRecord] /\ PendingBounded'
<1> USE DEF MembershipIInv
<1>1. PendingBounded' BY FewerPending DEF Pending, AtStep
<1> QED BY <1>1 DEF HandlersOK, HandlerOK, RequestsOK, MembershipTypeOK

\* What an administrator, the clock and the retention run do to memberships and groups.
LEMMA RowsKeep ==
  ASSUME MembershipIInv,
         \/ PurgeExpiredMemberships
         \/ \E g \in AccessGroups :
              \/ \E until \in {"permanent", "timed"} : AddMember(g, until)
              \/ RemoveMember(g) \/ DeleteAccessGroup(g) \/ CreateAccessGroup(g) \/ MembershipExpires(g)
  PROVE  MembershipIInv'
<1> USE DEF MembershipIInv, oidcVars, rowVars
<1>0. /\ UNCHANGED <<accessReq, handling, oidcState, callbacks>>
      BY DEF PurgeExpiredMemberships, AddMember, RemoveMember, DeleteAccessGroup, CreateAccessGroup, MembershipExpires
<1>1. /\ handling' \in [Handlers -> HandlerRecord] /\ HandlersOK' /\ RequestsOK'
      /\ accessReq' \in [RequestRows -> RequestRecord] /\ PendingBounded'
      BY <1>0, HandlersStay
<1>2. StatesFresh' BY <1>0 DEF StatesFresh
<1>3. CASE PurgeExpiredMemberships
  <2> USE <1>3 DEF PurgeExpiredMemberships
  <2>1. MembershipTypeOK' BY <1>1 DEF MembershipTypeOK
  <2>2. ByHandApart' BY DEF ByHandApart, ActiveMembership, MembershipTypeOK
  <2>3. OidcTracked' BY DEF OidcTracked
  <2> QED BY <1>1, <1>2, <2>1, <2>2, <2>3
<1>4. ASSUME NEW g \in AccessGroups, NEW until \in {"permanent", "timed"}, AddMember(g, until) PROVE MembershipIInv'
  <2> USE <1>4 DEF AddMember, AddUserToGroupUntil
  <2>1. MembershipTypeOK' BY <1>1 DEF MembershipTypeOK
  <2>2. ByHandApart' BY DEF ByHandApart, ActiveMembership, MembershipTypeOK
  <2>3. OidcTracked' BY DEF OidcTracked
  <2> QED BY <1>1, <1>2, <2>1, <2>2, <2>3
<1>5. ASSUME NEW g \in AccessGroups, RemoveMember(g) PROVE MembershipIInv'
  <2> USE <1>5 DEF RemoveMember
  <2>1. MembershipTypeOK' BY <1>1 DEF MembershipTypeOK
  <2>2. ByHandApart' BY DEF ByHandApart, ActiveMembership, MembershipTypeOK
  <2>3. OidcTracked' BY DEF OidcTracked
  <2> QED BY <1>1, <1>2, <2>1, <2>2, <2>3
<1>6. ASSUME NEW g \in AccessGroups, DeleteAccessGroup(g) PROVE MembershipIInv'
  <2> USE <1>6 DEF DeleteAccessGroup
  <2>1. MembershipTypeOK' BY <1>1 DEF MembershipTypeOK
  <2>2. ByHandApart' BY DEF ByHandApart, ActiveMembership, MembershipTypeOK
  <2>3. OidcTracked' BY DEF OidcTracked
  <2> QED BY <1>1, <1>2, <2>1, <2>2, <2>3
<1>7. ASSUME NEW g \in AccessGroups, CreateAccessGroup(g) PROVE MembershipIInv'
  <2> USE <1>7 DEF CreateAccessGroup
  <2>1. MembershipTypeOK' BY <1>1 DEF MembershipTypeOK
  <2>2. ByHandApart' BY DEF ByHandApart, ActiveMembership
  <2>3. OidcTracked' BY DEF OidcTracked
  <2> QED BY <1>1, <1>2, <2>1, <2>2, <2>3
<1>8. ASSUME NEW g \in AccessGroups, MembershipExpires(g) PROVE MembershipIInv'
  <2> USE <1>8 DEF MembershipExpires
  <2>1. MembershipTypeOK' BY <1>1 DEF MembershipTypeOK
  <2>2. ByHandApart' BY DEF ByHandApart, ActiveMembership, MembershipTypeOK
  <2>3. OidcTracked' BY DEF OidcTracked
  <2> QED BY <1>1, <1>2, <2>1, <2>2, <2>3
<1> QED BY <1>3, <1>4, <1>5, <1>6, <1>7, <1>8

\* The states of the OIDC service.
LEMMA StatesKeep ==
  ASSUME MembershipIInv, NEW s \in LoginStates, OIDCLogin(s) \/ ExpireState(s) \/ CallbackFails(s)
  PROVE  MembershipIInv'
<1> USE DEF MembershipIInv, rowVars
<1>0. UNCHANGED <<groupRow, memberOf, byHand, fromClaim, stray, managed, accessReq, handling>>
      BY DEF OIDCLogin, ExpireState, CallbackFails
<1>1. /\ handling' \in [Handlers -> HandlerRecord] /\ HandlersOK' /\ RequestsOK'
      /\ accessReq' \in [RequestRows -> RequestRecord] /\ PendingBounded'
      BY <1>0, HandlersStay
<1>2. ByHandApart' /\ OidcTracked' BY <1>0 DEF ByHandApart, ActiveMembership, OidcTracked
<1>3. callbacks \in [LoginStates -> Nat] /\ oidcState \in [LoginStates -> {"unused", "pending", "spent"}]
      BY DEF MembershipTypeOK
<1>4. /\ oidcState' \in [LoginStates -> {"unused", "pending", "spent"}] /\ callbacks' \in [LoginStates -> Nat]
      /\ StatesFresh'
      BY <1>3 DEF OIDCLogin, ExpireState, CallbackFails, Popped, StatesFresh
<1>5. MembershipTypeOK' BY <1>0, <1>1, <1>4 DEF MembershipTypeOK
<1> QED BY <1>1, <1>2, <1>4, <1>5

\* Asking for a group, and deciding a request.
LEMMA RequestsKeep ==
  ASSUME MembershipIInv, NEW h \in Handlers,
         \/ \E g \in AccessGroups : AskForGroup(h, g)
         \/ CheckPending(h) \/ Decide(h)
         \/ \E i \in RequestRows :
              \/ InsertRequest(h, i)
              \/ \E verdict \in {"approved", "denied", "cancelled"} : LoadPending(h, i, verdict)
         \/ \E until \in {"permanent", "timed"} : GrantRequested(h, until)
  PROVE  MembershipIInv'
<1> USE DEF MembershipIInv, rowVars, oidcVars
<1>0. /\ handling \in [Handlers -> HandlerRecord] /\ handling[h] \in HandlerRecord /\ HandlerOK(handling[h])
      /\ accessReq \in [RequestRows -> RequestRecord]
      BY DEF MembershipTypeOK, HandlersOK
<1>f. Free \in HandlerRecord /\ HandlerOK(Free) /\ Free.pc = "idle" /\ Free.previous = {} /\ Free.added = {}
      BY DEF Free, HandlerRecord, HandlerOK
<1>k. ASSUME UNCHANGED <<groupRow, memberOf, byHand, fromClaim, stray, managed, oidcState, callbacks>>,
             handling' \in [Handlers -> HandlerRecord], accessReq' \in [RequestRows -> RequestRecord],
             HandlersOK', RequestsOK', PendingBounded', handling[h].added = {}, handling'[h].previous = {},
             \A k \in Handlers \ {h} : handling'[k] = handling[k]
      PROVE  MembershipIInv'
  <2>1. MembershipTypeOK' BY <1>k DEF MembershipTypeOK
  <2>2. StatesFresh' BY <1>k DEF StatesFresh
  <2>3. ByHandApart' BY <1>k DEF ByHandApart, ActiveMembership
  <2>4. OidcTracked' BY <1>k DEF OidcTracked
  <2> QED BY <1>k, <2>1, <2>2, <2>3, <2>4
<1>1. ASSUME NEW g \in AccessGroups, AskForGroup(h, g) PROVE MembershipIInv'
  <2>1. PICK f : f = [handling[h] EXCEPT !.pc = "ask", !.group = g] OBVIOUS
  <2>2. handling[h].pc = "idle" BY <1>1 DEF AskForGroup, AtStep
  <2>3. f \in HandlerRecord /\ f.pc = "ask" /\ HandlerOK(f) /\ f.previous = {}
        BY <1>0, <2>1, <2>2 DEF HandlerRecord, HandlerOK
  <2>4. handling' = [handling EXCEPT ![h] = f] BY <1>0, <1>1, <2>1 DEF AskForGroup
  <2>5. UNCHANGED <<groupRow, memberOf, byHand, fromClaim, stray, managed, oidcState, callbacks, accessReq>>
        BY <1>1 DEF AskForGroup
  <2>6. handling[h].added = {} BY <1>0, <2>2 DEF HandlerOK
  <2> QED BY <1>k, <2>3, <2>4, <2>5, <2>6, HandlerMoves
<1>2. CASE CheckPending(h)
  <2>1. PICK f : f = [handling[h] EXCEPT !.pc = "insert"] OBVIOUS
  <2>2. handling[h].pc = "ask" /\ handling[h].added = {} /\ handling[h].previous = {} /\ handling[h].group \in AccessGroups
        BY <1>0, <1>2 DEF CheckPending, AtStep, HandlerOK
  <2>3. f \in HandlerRecord /\ f.pc = "insert" /\ HandlerOK(f) /\ f.previous = {} /\ f.group = handling[h].group
        BY <1>0, <2>1, <2>2 DEF HandlerRecord, HandlerOK
  <2>4. UNCHANGED <<groupRow, memberOf, byHand, fromClaim, stray, managed, oidcState, callbacks, accessReq>>
        BY <1>2 DEF CheckPending
  <2>5. CASE HasPending(handling[h].group)
    <3>1. handling' = [handling EXCEPT ![h] = Free] BY <1>2, <2>5 DEF CheckPending, Finish
    <3> QED BY <1>f, <1>k, <2>2, <2>4, <3>1, HandlerMoves
  <2>6. CASE ~HasPending(handling[h].group)
    <3>1. handling' = [handling EXCEPT ![h] = f] BY <1>0, <1>2, <2>1, <2>6 DEF CheckPending, ToStep
    <3>2. /\ handling' \in [Handlers -> HandlerRecord] /\ handling'[h] = f
          /\ \A k \in Handlers \ {h} : handling'[k] = handling[k]
          /\ HandlersOK' /\ RequestsOK' /\ accessReq' \in [RequestRows -> RequestRecord]
          BY <2>3, <2>4, <3>1, HandlerMoves
    <3>3. PendingBounded'
      <4> SUFFICES ASSUME NEW g \in AccessGroups
                   PROVE (Cardinality(Pending(g)) + Cardinality({k \in Handlers : AtStep(k, "insert") /\ handling[k].group = g})
                           =< Cardinality(Handlers))'
          BY DEF PendingBounded
      <4>1. PICK I : I = {k \in Handlers : AtStep(k, "insert") /\ handling[k].group = g}' OBVIOUS
      <4>2. Pending(g)' = Pending(g) BY <2>4 DEF Pending
      <4>3. CASE g = handling[h].group
        <5>1. Pending(g) = {} BY <2>6, <4>3 DEF HasPending
        <5>2. I \subseteq Handlers BY <4>1
        <5>3. /\ Cardinality(I) \in Nat /\ Cardinality(I) =< Cardinality(Handlers)
              /\ Cardinality(Handlers) \in Nat /\ Cardinality({}) = 0
              BY <5>2, MembershipAssumption, FS_Subset, FS_CardinalityType, FS_EmptySet
        <5> QED BY <4>1, <4>2, <5>1, <5>3
      <4>4. CASE g # handling[h].group
        <5>1. I = {k \in Handlers : AtStep(k, "insert") /\ handling[k].group = g}
              BY <2>2, <2>3, <3>2, <4>1, <4>4 DEF AtStep
        <5> QED BY <4>1, <4>2, <5>1 DEF PendingBounded
      <4> QED BY <4>3, <4>4
    <3> QED BY <1>k, <2>2, <2>3, <2>4, <3>2, <3>3
  <2> QED BY <2>5, <2>6
<1>3. ASSUME NEW i \in RequestRows, InsertRequest(h, i) PROVE MembershipIInv'
  <2>1. PICK r : r = [status |-> "pending", group |-> handling[h].group] OBVIOUS
  <2>2. handling[h].pc = "insert" /\ handling[h].added = {} /\ handling[h].group \in AccessGroups
        /\ accessReq[i].status = "none"
        BY <1>0, <1>3 DEF InsertRequest, AtStep, HandlerOK
  <2>3. r \in RequestRecord /\ r.status = "pending" /\ r.group = handling[h].group
        BY <2>1, <2>2 DEF RequestRecord
  <2>4. /\ accessReq' = [accessReq EXCEPT ![i] = r] /\ handling' = [handling EXCEPT ![h] = Free]
        /\ UNCHANGED <<groupRow, memberOf, byHand, fromClaim, stray, managed, oidcState, callbacks>>
        BY <1>3, <2>1 DEF InsertRequest, Finish
  <2>5. /\ accessReq' \in [RequestRows -> RequestRecord] /\ accessReq'[i] = r
        /\ \A j \in RequestRows \ {i} : accessReq'[j] = accessReq[j]
        BY <1>0, <2>3, <2>4
  <2>6. /\ handling' \in [Handlers -> HandlerRecord] /\ handling'[h] = Free
        /\ \A k \in Handlers \ {h} : handling'[k] = handling[k]
        BY <1>0, <1>f, <2>4
  <2>7. RequestsOK' BY <2>2, <2>3, <2>5 DEF RequestsOK
  <2>8. HandlersOK'
    <3> SUFFICES ASSUME NEW k \in Handlers PROVE HandlerOK(handling[k])'
        BY DEF HandlersOK
    <3>1. k = h \/ HandlerOK(handling[k]) BY DEF HandlersOK
    <3>2. Free.pc = "idle" /\ Free.added = {} /\ Free.previous = {} /\ Free.added \subseteq Free.desired BY DEF Free
    <3> QED BY <2>2, <2>3, <2>5, <2>6, <3>1, <3>2 DEF HandlerOK
  <2>9. PendingBounded'
    <3> SUFFICES ASSUME NEW g \in AccessGroups
                 PROVE (Cardinality(Pending(g)) + Cardinality({k \in Handlers : AtStep(k, "insert") /\ handling[k].group = g})
                         =< Cardinality(Handlers))'
        BY DEF PendingBounded
    <3>1. PICK I, J : I = {k \in Handlers : AtStep(k, "insert") /\ handling[k].group = g}
                    /\ J = {k \in Handlers : AtStep(k, "insert") /\ handling[k].group = g}' OBVIOUS
    <3>2. PICK P, Q : P = Pending(g) /\ Q = Pending(g)' OBVIOUS
    <3>3. Cardinality(P) + Cardinality(I) =< Cardinality(Handlers) BY <3>1, <3>2 DEF PendingBounded
    <3>4. IsFiniteSet(I) /\ IsFiniteSet(P)
      <4>1. I \subseteq Handlers /\ P \subseteq RequestRows BY <3>1, <3>2 DEF Pending
      <4>2. IsFiniteSet(Handlers) /\ IsFiniteSet(RequestRows) BY MembershipAssumption
      <4> QED BY <4>1, <4>2, FS_Subset
    <3>5. CASE g = handling[h].group
      <4>1. h \in I /\ J = I \ {h} BY <1>f, <2>2, <2>6, <3>1, <3>5 DEF AtStep
      <4>2. i \notin P /\ Q = P \cup {i} BY <2>2, <2>3, <2>5, <3>2, <3>5 DEF Pending
      <4>3. Cardinality(J) = Cardinality(I) - 1 /\ Cardinality(Q) = Cardinality(P) + 1
            BY <3>4, <4>1, <4>2, FS_RemoveElement, FS_AddElement
      <4>4. Cardinality(I) \in Nat /\ Cardinality(P) \in Nat BY <3>4, FS_CardinalityType
      <4>5. Cardinality(Q) + Cardinality(J) = Cardinality(P) + Cardinality(I) BY <4>3, <4>4
      <4> QED BY <3>1, <3>2, <3>3, <4>5
    <3>6. CASE g # handling[h].group
      <4>1. J = I /\ Q = P BY <1>f, <2>2, <2>3, <2>5, <2>6, <3>1, <3>2, <3>6 DEF AtStep, Pending
      <4> QED BY <3>1, <3>2, <3>3, <4>1
    <3> QED BY <3>5, <3>6
  <2> QED BY <1>f, <1>k, <2>2, <2>4, <2>5, <2>6, <2>7, <2>8, <2>9
<1>4. ASSUME NEW i \in RequestRows, NEW verdict \in {"approved", "denied", "cancelled"}, LoadPending(h, i, verdict)
      PROVE MembershipIInv'
  <2>1. PICK pc \in {"grant", "decide"} : pc = IF verdict = "approved" THEN "grant" ELSE "decide" OBVIOUS
  <2>2. PICK f : f = [handling[h] EXCEPT !.req = i, !.verdict = verdict, !.pc = pc] OBVIOUS
  <2>3. handling[h].pc = "idle" /\ accessReq[i].status = "pending" BY <1>4 DEF LoadPending, AtStep
  <2>4. accessReq[i].group \in AccessGroups BY <2>3 DEF RequestsOK
  <2>5. f \in HandlerRecord /\ f.pc = pc /\ f.req = i /\ f.verdict = verdict /\ f.added = handling[h].added
        /\ f.previous = handling[h].previous /\ f.desired = handling[h].desired
        BY <1>0, <2>1, <2>2 DEF HandlerRecord
  <2>6. handling[h].added = {} /\ handling[h].previous = {} BY <1>0, <2>3 DEF HandlerOK
  <2>7. HandlerOK(f) BY <1>0, <2>1, <2>4, <2>5, <2>6 DEF HandlerOK
  <2>8. handling' = [handling EXCEPT ![h] = f] BY <1>0, <1>4, <2>1, <2>2 DEF LoadPending
  <2>9. UNCHANGED <<groupRow, memberOf, byHand, fromClaim, stray, managed, oidcState, callbacks, accessReq>>
        BY <1>4 DEF LoadPending
  <2>10. /\ handling' \in [Handlers -> HandlerRecord] /\ handling'[h] = f
         /\ \A k \in Handlers \ {h} : handling'[k] = handling[k]
         /\ HandlersOK' /\ RequestsOK' /\ accessReq' \in [RequestRows -> RequestRecord] /\ PendingBounded'
         BY <2>1, <2>5, <2>7, <2>8, <2>9, HandlerMoves
  <2> QED BY <1>k, <2>5, <2>6, <2>9, <2>10
<1>5. ASSUME NEW until \in {"permanent", "timed"}, GrantRequested(h, until) PROVE MembershipIInv'
  <2>1. PICK g : g = accessReq[handling[h].req].group OBVIOUS
  <2>2. handling[h].pc = "grant" /\ g \in AccessGroups /\ handling[h].added = {} /\ handling[h].previous = {}
        BY <1>0, <1>5, <2>1 DEF GrantRequested, AtStep, HandlerOK
  <2>3. UNCHANGED <<groupRow, byHand, managed, oidcState, callbacks, accessReq>> BY <1>5 DEF GrantRequested
  <2>4. CASE g \in groupRow
    <3>1. PICK f : f = [handling[h] EXCEPT !.pc = "decide"] OBVIOUS
    <3>2. f \in HandlerRecord /\ HandlerOK(f) /\ f.pc = "decide" /\ f.previous = {}
          BY <1>0, <2>2, <3>1 DEF HandlerRecord, HandlerOK
    <3>3. /\ memberOf' = [memberOf EXCEPT ![g] = until] /\ fromClaim' = fromClaim \ {g} /\ stray' = stray \ {g}
          /\ handling' = [handling EXCEPT ![h] = f]
          BY <1>0, <1>5, <2>1, <2>4, <3>1 DEF GrantRequested, AddUserToGroupUntil, ToStep
    <3>4. /\ handling' \in [Handlers -> HandlerRecord] /\ handling'[h] = f
          /\ \A k \in Handlers \ {h} : handling'[k] = handling[k]
          /\ HandlersOK' /\ RequestsOK' /\ accessReq' \in [RequestRows -> RequestRecord] /\ PendingBounded'
          BY <2>3, <3>2, <3>3, HandlerMoves
    <3>5. MembershipTypeOK' BY <2>2, <2>3, <3>3, <3>4 DEF MembershipTypeOK
    <3>6. StatesFresh' BY <2>3 DEF StatesFresh
    <3>7. ByHandApart' BY <2>2, <2>3, <3>2, <3>3, <3>4 DEF ByHandApart, ActiveMembership, MembershipTypeOK
    <3>8. OidcTracked' BY <2>2, <2>3, <3>3, <3>4 DEF OidcTracked
    <3> QED BY <3>4, <3>5, <3>6, <3>7, <3>8
  <2>5. CASE g \notin groupRow
    <3>1. handling' = [handling EXCEPT ![h] = Free] /\ UNCHANGED <<memberOf, fromClaim, stray>>
          BY <1>5, <2>1, <2>5 DEF GrantRequested, Finish
    <3>2. /\ handling' \in [Handlers -> HandlerRecord] /\ handling'[h] = Free
          /\ \A k \in Handlers \ {h} : handling'[k] = handling[k]
          /\ HandlersOK' /\ RequestsOK' /\ accessReq' \in [RequestRows -> RequestRecord] /\ PendingBounded'
          BY <1>f, <2>3, <3>1, HandlerMoves
    <3> QED BY <1>f, <1>k, <2>2, <2>3, <3>1, <3>2
  <2> QED BY <2>4, <2>5
<1>6. CASE Decide(h)
  <2>1. PICK i : i = handling[h].req OBVIOUS
  <2>2. handling[h].pc = "decide" /\ i \in RequestRows /\ handling[h].verdict # "none" /\ handling[h].added = {}
        BY <1>0, <1>6, <2>1 DEF Decide, AtStep, HandlerOK
  <2>3. /\ handling' = [handling EXCEPT ![h] = Free]
        /\ UNCHANGED <<groupRow, memberOf, byHand, fromClaim, stray, managed, oidcState, callbacks>>
        /\ accessReq' = IF accessReq[i].status = "pending"
                          THEN [accessReq EXCEPT ![i].status = handling[h].verdict] ELSE accessReq
        BY <1>6, <2>1 DEF Decide, Finish, Decidable
  <2>4. handling[h].verdict \in {"approved", "denied", "cancelled"} BY <1>0, <2>2 DEF HandlerRecord
  <2>5. /\ accessReq' \in [RequestRows -> RequestRecord]
        /\ \A j \in RequestRows : /\ accessReq'[j].group = accessReq[j].group
                                  /\ accessReq'[j].status = "pending" => accessReq[j].status = "pending"
                                  /\ accessReq[j].status = "none" => accessReq'[j].status = "none"
    <3>1. CASE accessReq[i].status = "pending"
      <4>1. PICK r : r = [accessReq[i] EXCEPT !.status = handling[h].verdict] OBVIOUS
      <4>2. r \in RequestRecord /\ r.group = accessReq[i].group /\ r.status = handling[h].verdict
            BY <1>0, <2>2, <2>4, <4>1 DEF RequestRecord
      <4>3. accessReq' = [accessReq EXCEPT ![i] = r] BY <1>0, <2>2, <2>3, <3>1, <4>1
      <4>4. accessReq'[i] = r /\ \A j \in RequestRows \ {i} : accessReq'[j] = accessReq[j]
            BY <1>0, <2>2, <4>3
      <4>5. accessReq' \in [RequestRows -> RequestRecord] BY <1>0, <2>2, <4>2, <4>3
      <4> QED BY <2>4, <3>1, <4>2, <4>4, <4>5
    <3>2. CASE accessReq[i].status # "pending" BY <1>0, <2>3, <3>2
    <3> QED BY <3>1, <3>2
  <2>6. /\ handling' \in [Handlers -> HandlerRecord] /\ handling'[h] = Free
        /\ \A k \in Handlers \ {h} : handling'[k] = handling[k]
        BY <1>0, <1>f, <2>3
  <2>7. RequestsOK'
    <3> SUFFICES ASSUME NEW j \in RequestRows, accessReq'[j].status # "none" PROVE accessReq'[j].group \in AccessGroups
        BY DEF RequestsOK
    <3> QED BY <2>5 DEF RequestsOK
  <2>8. HandlersOK'
    <3> SUFFICES ASSUME NEW k \in Handlers PROVE HandlerOK(handling[k])'
        BY DEF HandlersOK
    <3>1. k = h \/ HandlerOK(handling[k]) BY DEF HandlersOK
    <3>2. Free.pc = "idle" /\ Free.added = {} /\ Free.previous = {} /\ Free.added \subseteq Free.desired BY DEF Free
    <3> QED BY <2>5, <2>6, <3>1, <3>2 DEF HandlerOK
  <2>9. PendingBounded'
    <3>1. ASSUME NEW g \in AccessGroups
          PROVE  /\ Pending(g)' \subseteq Pending(g)
                 /\ {k \in Handlers : AtStep(k, "insert") /\ handling[k].group = g}'
                      \subseteq {k \in Handlers : AtStep(k, "insert") /\ handling[k].group = g}
          BY <1>f, <2>5, <2>6 DEF Pending, AtStep
    <3> QED BY <3>1, FewerPending
  <2> QED BY <1>f, <1>k, <2>2, <2>3, <2>5, <2>6, <2>7, <2>8, <2>9
<1> QED BY <1>1, <1>2, <1>3, <1>4, <1>5, <1>6

\* A login through OIDC and the sync of its groups.
LEMMA OidcKeeps ==
  ASSUME MembershipIInv, NEW h \in Handlers,
         \/ \E g \in AccessGroups : SyncAdd(h, g) \/ SyncRemove(h, g)
         \/ ReadManaged(h) \/ SetManagedGroups(h)
         \/ \E s \in LoginStates, claim \in SUBSET AccessGroups : Callback(h, s, claim)
  PROVE  MembershipIInv'
<1> USE DEF MembershipIInv, rowVars, oidcVars
<1>0. /\ handling \in [Handlers -> HandlerRecord] /\ handling[h] \in HandlerRecord /\ HandlerOK(handling[h])
      /\ groupRow \subseteq AccessGroups /\ managed \subseteq AccessGroups
      /\ handling[h].added \subseteq AccessGroups /\ handling[h].previous \subseteq AccessGroups
      BY DEF MembershipTypeOK, HandlersOK, HandlerRecord
<1>f. Free \in HandlerRecord /\ HandlerOK(Free) /\ Free.pc = "idle" /\ Free.previous = {} /\ Free.added = {}
      BY DEF Free, HandlerRecord, HandlerOK
\* A sync that gives up.
<1>a. ASSUME Abandon(h),
             UNCHANGED <<groupRow, memberOf, fromClaim, managed, byHand, oidcState, callbacks, accessReq>>
      PROVE  MembershipIInv'
  <2>1. handling' = [handling EXCEPT ![h] = Free] /\ stray' = stray \cup (handling[h].added \cap fromClaim)
        BY <1>a DEF Abandon, Finish
  <2>2. /\ handling' \in [Handlers -> HandlerRecord] /\ handling'[h] = Free
        /\ \A k \in Handlers \ {h} : handling'[k] = handling[k]
        /\ HandlersOK' /\ RequestsOK' /\ accessReq' \in [RequestRows -> RequestRecord] /\ PendingBounded'
        BY <1>a, <1>f, <2>1, HandlerMoves
  <2>3. MembershipTypeOK' BY <1>0, <1>a, <2>1, <2>2 DEF MembershipTypeOK
  <2>4. StatesFresh' BY <1>a DEF StatesFresh
  <2>5. ByHandApart' BY <1>a, <1>f, <2>2 DEF ByHandApart, ActiveMembership
  <2>6. OidcTracked' BY <1>a, <2>1, <2>2 DEF OidcTracked
  <2> QED BY <2>2, <2>3, <2>4, <2>5, <2>6
<1>1. ASSUME NEW g \in AccessGroups, SyncAdd(h, g) PROVE MembershipIInv'
  <2>1. /\ handling[h].pc = "sync" /\ g \in handling[h].desired
        /\ UNCHANGED <<groupRow, byHand, managed, oidcState, callbacks, accessReq>>
        BY <1>1 DEF SyncAdd, AtStep, ToAdd
  <2>2. CASE g \in groupRow
    <3>1. PICK f : f = [handling[h] EXCEPT !.added = handling[h].added \cup {g}] OBVIOUS
    <3>2. /\ f \in HandlerRecord /\ f.pc = "sync" /\ f.added = handling[h].added \cup {g}
          /\ f.previous = handling[h].previous /\ f.desired = handling[h].desired
          BY <1>0, <2>1, <3>1 DEF HandlerRecord
    <3>3. HandlerOK(f) BY <1>0, <2>1, <3>2 DEF HandlerOK
    <3>4. /\ memberOf' = [memberOf EXCEPT ![g] = "permanent"] /\ stray' = stray
          /\ fromClaim' = fromClaim \/ fromClaim' = fromClaim \cup {g}
          /\ handling' = [handling EXCEPT ![h] = f]
          BY <1>0, <1>1, <2>2, <3>1 DEF SyncAdd, AddUserToGroupUntil
    <3>5. /\ handling' \in [Handlers -> HandlerRecord] /\ handling'[h] = f
          /\ \A k \in Handlers \ {h} : handling'[k] = handling[k]
          /\ HandlersOK' /\ RequestsOK' /\ accessReq' \in [RequestRows -> RequestRecord] /\ PendingBounded'
          BY <2>1, <3>2, <3>3, <3>4, HandlerMoves
    <3>6. MembershipTypeOK' BY <2>1, <3>4, <3>5 DEF MembershipTypeOK
    <3>7. StatesFresh' BY <2>1 DEF StatesFresh
    <3>8. ByHandApart' BY <2>1, <3>2, <3>4, <3>5 DEF ByHandApart, ActiveMembership, MembershipTypeOK
    <3>9. OidcTracked' BY <2>1, <3>2, <3>4, <3>5 DEF OidcTracked
    <3> QED BY <3>5, <3>6, <3>7, <3>8, <3>9
  <2>3. CASE g \notin groupRow BY <1>1, <1>a, <2>1, <2>3 DEF SyncAdd
  <2> QED BY <2>2, <2>3
<1>2. ASSUME NEW g \in AccessGroups, SyncRemove(h, g) PROVE MembershipIInv'
  <2>1. /\ handling[h].pc = "sync" /\ g \in handling[h].previous
        /\ UNCHANGED <<groupRow, byHand, managed, oidcState, callbacks, accessReq>>
        /\ memberOf' = [memberOf EXCEPT ![g] = "none"] /\ fromClaim' = fromClaim \ {g} /\ stray' = stray \ {g}
        BY <1>2 DEF SyncRemove, AtStep, ToRemove
  <2>2. PICK f : f = [handling[h] EXCEPT !.previous = handling[h].previous \ {g}] OBVIOUS
  <2>3. /\ f \in HandlerRecord /\ f.pc = "sync" /\ f.added = handling[h].added
        /\ f.previous = handling[h].previous \ {g} /\ f.desired = handling[h].desired
        BY <1>0, <2>1, <2>2 DEF HandlerRecord
  <2>4. HandlerOK(f) BY <1>0, <2>3 DEF HandlerOK
  <2>5. handling' = [handling EXCEPT ![h] = f] BY <1>0, <1>2, <2>2 DEF SyncRemove
  <2>6. /\ handling' \in [Handlers -> HandlerRecord] /\ handling'[h] = f
        /\ \A k \in Handlers \ {h} : handling'[k] = handling[k]
        /\ HandlersOK' /\ RequestsOK' /\ accessReq' \in [RequestRows -> RequestRecord] /\ PendingBounded'
        BY <2>1, <2>3, <2>4, <2>5, HandlerMoves
  <2>7. MembershipTypeOK' BY <2>1, <2>6 DEF MembershipTypeOK
  <2>8. StatesFresh' BY <2>1 DEF StatesFresh
  <2>9. ByHandApart' BY <2>1, <2>3, <2>6 DEF ByHandApart, ActiveMembership, MembershipTypeOK
  <2>10. OidcTracked' BY <2>1, <2>3, <2>6 DEF OidcTracked
  <2> QED BY <2>6, <2>7, <2>8, <2>9, <2>10
<1>3. CASE ReadManaged(h)
  <2>1. handling[h].pc = "managed" /\ handling[h].added = {}
        BY <1>0, <1>3 DEF ReadManaged, AtStep, HandlerOK
  <2>2. UNCHANGED <<groupRow, memberOf, byHand, fromClaim, stray, managed, oidcState, callbacks, accessReq>>
        BY <1>3 DEF ReadManaged
  <2>3. PICK f : f = [handling[h] EXCEPT !.pc = "sync", !.previous = managed] OBVIOUS
  <2>4. f \in HandlerRecord /\ f.pc = "sync" /\ f.added = {} /\ f.previous = managed
        BY <1>0, <2>1, <2>3 DEF HandlerRecord
  <2>5. HandlerOK(f) BY <2>4 DEF HandlerOK
  <2>6. handling' = [handling EXCEPT ![h] = f] BY <1>0, <1>3, <2>3 DEF ReadManaged
  <2>7. /\ handling' \in [Handlers -> HandlerRecord] /\ handling'[h] = f
        /\ \A k \in Handlers \ {h} : handling'[k] = handling[k]
        /\ HandlersOK' /\ RequestsOK' /\ accessReq' \in [RequestRows -> RequestRecord] /\ PendingBounded'
        BY <2>2, <2>4, <2>5, <2>6, HandlerMoves
  <2>8. MembershipTypeOK' BY <2>2, <2>7 DEF MembershipTypeOK
  <2>9. StatesFresh' BY <2>2 DEF StatesFresh
  <2>10. ByHandApart' BY <2>2, <2>4, <2>7 DEF ByHandApart, ActiveMembership
  <2>11. OidcTracked' BY <2>1, <2>2, <2>4, <2>7 DEF OidcTracked
  <2> QED BY <2>7, <2>8, <2>9, <2>10, <2>11
<1>4. CASE SetManagedGroups(h)
  <2>1. /\ handling[h].pc = "sync" /\ handling[h].previous \subseteq handling[h].desired
        /\ handling[h].added \subseteq handling[h].desired
        /\ UNCHANGED <<groupRow, memberOf, fromClaim, oidcState, callbacks, accessReq>>
        BY <1>0, <1>4 DEF SetManagedGroups, AtStep, ToRemove, HandlerOK
  <2>2. PICK D : D = handling[h].desired OBVIOUS
  <2>3. CASE D \subseteq groupRow
    <3>1. /\ managed' = D /\ byHand' = byHand \ D
          /\ stray' = (stray \cup ((managed \ handling[h].previous) \cap fromClaim)) \ D
          /\ handling' = [handling EXCEPT ![h] = Free]
          BY <1>4, <2>2, <2>3 DEF SetManagedGroups, NowManaged, Finish
    <3>2. /\ handling' \in [Handlers -> HandlerRecord] /\ handling'[h] = Free
          /\ \A k \in Handlers \ {h} : handling'[k] = handling[k]
          /\ HandlersOK' /\ RequestsOK' /\ accessReq' \in [RequestRows -> RequestRecord] /\ PendingBounded'
          BY <1>f, <2>1, <3>1, HandlerMoves
    <3>3. MembershipTypeOK' BY <1>0, <2>1, <2>3, <3>1, <3>2 DEF MembershipTypeOK
    <3>4. StatesFresh' BY <2>1 DEF StatesFresh
    <3>5. ByHandApart' BY <1>f, <2>1, <3>1, <3>2 DEF ByHandApart, ActiveMembership
    <3>6. OidcTracked'
      <4> SUFFICES ASSUME NEW g \in fromClaim', g \notin managed' \cup stray'
                   PROVE  \E k \in Handlers : g \in handling'[k].added
          BY DEF OidcTracked
      <4>1. g \in fromClaim /\ g \notin D BY <2>1, <3>1
      <4>2. g \notin stray /\ g \notin handling[h].previous /\ g \notin handling[h].added
            BY <2>1, <2>2, <3>1, <4>1
      <4>3. g \notin managed BY <3>1, <4>1, <4>2
      <4>4. PICK k \in Handlers : g \in handling[k].added BY <4>1, <4>2, <4>3 DEF OidcTracked
      <4> QED BY <3>2, <4>2, <4>4
    <3> QED BY <3>2, <3>3, <3>4, <3>5, <3>6
  <2>4. CASE ~(D \subseteq groupRow) BY <1>4, <1>a, <2>1, <2>2, <2>4 DEF SetManagedGroups, NowManaged
  <2> QED BY <2>3, <2>4
<1>5. ASSUME NEW s \in LoginStates, NEW claim \in SUBSET AccessGroups, Callback(h, s, claim) PROVE MembershipIInv'
  <2>1. /\ handling[h].pc = "idle" /\ oidcState[s] = "pending"
        /\ oidcState' = [oidcState EXCEPT ![s] = "spent"] /\ callbacks' = [callbacks EXCEPT ![s] = callbacks[s] + 1]
        /\ UNCHANGED <<groupRow, memberOf, byHand, fromClaim, stray, managed, accessReq>>
        BY <1>5 DEF Callback, AtStep, Popped
  <2>2. PICK f : f = [handling[h] EXCEPT !.pc = "managed", !.desired = claim \cap groupRow] OBVIOUS
  <2>3. handling[h].added = {} /\ handling[h].previous = {} BY <1>0, <2>1 DEF HandlerOK
  <2>4. f \in HandlerRecord /\ f.pc = "managed" /\ f.added = {} /\ f.previous = {}
        BY <1>0, <2>2, <2>3 DEF HandlerRecord
  <2>5. HandlerOK(f) BY <2>4 DEF HandlerOK
  <2>6. handling' = [handling EXCEPT ![h] = f] BY <1>0, <1>5, <2>2 DEF Callback
  <2>7. /\ handling' \in [Handlers -> HandlerRecord] /\ handling'[h] = f
        /\ \A k \in Handlers \ {h} : handling'[k] = handling[k]
        /\ HandlersOK' /\ RequestsOK' /\ accessReq' \in [RequestRows -> RequestRecord] /\ PendingBounded'
        BY <2>1, <2>4, <2>5, <2>6, HandlerMoves
  <2>8. /\ oidcState' \in [LoginStates -> {"unused", "pending", "spent"}] /\ callbacks' \in [LoginStates -> Nat]
        /\ StatesFresh'
        BY <2>1 DEF MembershipTypeOK, StatesFresh
  <2>9. MembershipTypeOK' BY <2>1, <2>7, <2>8 DEF MembershipTypeOK
  <2>10. ByHandApart' BY <2>1, <2>4, <2>7 DEF ByHandApart, ActiveMembership
  <2>11. OidcTracked' BY <2>1, <2>3, <2>7 DEF OidcTracked
  <2> QED BY <2>7, <2>8, <2>9, <2>10, <2>11
<1> QED BY <1>1, <1>2, <1>3, <1>4, <1>5

\* Every step keeps the invariant.
LEMMA MembershipKeeps == MembershipIInv /\ [MembershipNext]_membershipVars => MembershipIInv'
<1> SUFFICES ASSUME MembershipIInv, [MembershipNext]_membershipVars PROVE MembershipIInv'
    OBVIOUS
<1>1. CASE UNCHANGED membershipVars
  <2>1. UNCHANGED <<groupRow, memberOf, byHand, fromClaim, stray, managed, oidcState, callbacks, accessReq, handling>>
        BY <1>1 DEF membershipVars, rowVars, oidcVars
  <2>2. /\ handling' \in [Handlers -> HandlerRecord] /\ HandlersOK' /\ RequestsOK'
        /\ accessReq' \in [RequestRows -> RequestRecord] /\ PendingBounded'
        BY <2>1, HandlersStay
  <2>3. MembershipTypeOK' /\ StatesFresh' /\ ByHandApart' /\ OidcTracked'
        BY <2>1, <2>2 DEF MembershipIInv, MembershipTypeOK, StatesFresh, ByHandApart, ActiveMembership, OidcTracked
  <2> QED BY <2>2, <2>3 DEF MembershipIInv
<1>2. CASE MembershipNext BY <1>2, RowsKeep, StatesKeep, RequestsKeep, OidcKeeps DEF MembershipNext
<1> QED BY <1>1, <1>2

\* However requests for a group overlap, it never has more pending than handlers run at
\* once (PendingBounded).
THEOREM PendingIsBounded == MembershipSpec => []PendingBounded
<1>1. MembershipIInv => PendingBounded BY DEF MembershipIInv
<1> QED BY <1>1, MembershipStart, MembershipKeeps, PTL DEF MembershipSpec

\* An OIDC login uses its state once, tracks the memberships it makes and removes no
\* other, whichever logins, edits, expiries and deletions overlap (OidcSound).
THEOREM OidcIsSound == MembershipSpec => []OidcSound
<1>1. MembershipIInv => OidcSound
  <2> SUFFICES ASSUME MembershipIInv PROVE OidcSound
      OBVIOUS
  <2>1. StateUsedOnce BY DEF MembershipIInv, MembershipTypeOK, StatesFresh, StateUsedOnce
  <2>2. ByHandKept BY DEF MembershipIInv, ByHandApart, ActiveMembership, ByHandKept, Member
  <2> QED BY <2>1, <2>2 DEF MembershipIInv, OidcSound
<1> QED BY <1>1, MembershipStart, MembershipKeeps, PTL DEF MembershipSpec

\* The first decision of an access request stands: no step of any handler changes a row
\* that was approved, denied or cancelled (DecisionFinal).
THEOREM DecisionsAreFinal == MembershipSpec => DecisionFinal
<1> DEFINE Kept == \A i \in RequestRows :
             accessReq[i].status \in {"approved", "denied", "cancelled"} => accessReq'[i] = accessReq[i]
<1>1. MembershipIInv /\ [MembershipNext]_membershipVars => [Kept]_membershipVars
  <2> SUFFICES ASSUME MembershipIInv, MembershipNext PROVE Kept
      BY DEF membershipVars
  <2>0. accessReq \in [RequestRows -> RequestRecord] BY DEF MembershipIInv, MembershipTypeOK
  <2>1. ASSUME NEW h \in Handlers, NEW i \in RequestRows, InsertRequest(h, i) PROVE Kept
        BY <2>0, <2>1 DEF InsertRequest
  <2>2. ASSUME NEW h \in Handlers, Decide(h) PROVE Kept
    <3>1. HandlerOK(handling[h]) /\ handling[h].pc = "decide"
          BY <2>2 DEF MembershipIInv, HandlersOK, Decide, AtStep
    <3>2. PICK i \in RequestRows : i = handling[h].req BY <3>1 DEF HandlerOK
    <3>3. CASE accessReq[i].status = "pending"
      <4>1. accessReq' = [accessReq EXCEPT ![i].status = handling[h].verdict]
            BY <2>2, <3>2, <3>3 DEF Decide, Decidable
      <4> QED BY <2>0, <3>3, <4>1
    <3>4. CASE accessReq[i].status # "pending" BY <2>2, <3>2, <3>4 DEF Decide, Decidable
    <3> QED BY <3>3, <3>4
  <2>3. CASE accessReq' = accessReq BY <2>3
  <2> QED BY <2>1, <2>2, <2>3
          DEF MembershipNext, PurgeExpiredMemberships, AddMember, RemoveMember, DeleteAccessGroup, CreateAccessGroup,
              MembershipExpires, OIDCLogin, ExpireState, CallbackFails, AskForGroup, SyncAdd, SyncRemove,
              CheckPending, ReadManaged, SetManagedGroups, LoadPending, GrantRequested, Callback
<1> QED BY <1>1, MembershipStart, MembershipKeeps, PTL DEF MembershipSpec, DecisionFinal

--------------------------------------------------------------------------------
(* Targets, groups, tags and grants (Catalogue).                             *)

EditRecord ==
  [pc : {"idle", "groupTag", "children", "deleteGroup", "insert", "assign", "readTags", "setTags", "readGroups",
         "leave", "leaveOnly", "over", "undo"},
   group : Paths \cup {<<>>}, target : TargetIds \cup {"none"}, tags : SUBSET Tags, from : SUBSET Paths,
   how : {"none", "create", "import", "move"}]

\* The rows, and their foreign keys: what is in a group is a target, and the group exists.
CatalogueTypeOK ==
  /\ groups \subseteq Paths
  /\ targets \subseteq TargetIds
  /\ groupTargets \subseteq groups \X targets
  /\ edit \in [Edits -> EditRecord]

CatalogueIInv == CatalogueTypeOK /\ GrouplessExplained

\* A fresh catalogue has no target.
LEMMA CatalogueStart == CatalogueInit => CatalogueIInv
<1> SUFFICES ASSUME CatalogueInit PROVE CatalogueIInv
    OBVIOUS
<1>1. NoEdit \in EditRecord BY DEF NoEdit, EditRecord
<1>2. edit \in [Edits -> EditRecord] BY <1>1 DEF CatalogueInit
<1> QED BY <1>2 DEF CatalogueInit, CatalogueIInv, CatalogueTypeOK, GrouplessExplained

\* One request moves on; where it is not about to assign a target or to take one back, it accounts for none.
LEMMA EditMoves ==
  ASSUME CatalogueIInv, NEW e \in Edits, NEW f \in EditRecord, edit' = [edit EXCEPT ![e] = f]
  PROVE  /\ edit' \in [Edits -> EditRecord] /\ edit'[e] = f /\ \A k \in Edits \ {e} : edit'[k] = edit[k]
         /\ edit[e].pc \notin {"assign", "undo"} => \A t \in TargetIds :
              (\E k \in Edits : edit[k].pc \in {"assign", "undo"} /\ edit[k].target = t) =>
                 \E k \in Edits : edit'[k].pc \in {"assign", "undo"} /\ edit'[k].target = t
<1>1. edit' \in [Edits -> EditRecord] /\ edit'[e] = f /\ \A k \in Edits \ {e} : edit'[k] = edit[k]
      BY DEF CatalogueIInv, CatalogueTypeOK
<1> QED BY <1>1

\* A request that only reads, or writes tags.
LEMMA ReadsKeep ==
  ASSUME CatalogueIInv, NEW e \in Edits, NEW f \in EditRecord, edit' = [edit EXCEPT ![e] = f],
         edit[e].pc \notin {"assign", "undo"}, UNCHANGED <<groups, targets, groupTargets, lost>>
  PROVE  CatalogueIInv'
<1>1. /\ edit' \in [Edits -> EditRecord]
      /\ \A t \in TargetIds :
           (\E k \in Edits : edit[k].pc \in {"assign", "undo"} /\ edit[k].target = t) =>
              \E k \in Edits : edit'[k].pc \in {"assign", "undo"} /\ edit'[k].target = t
      BY EditMoves
<1>2. CatalogueTypeOK' BY <1>1 DEF CatalogueIInv, CatalogueTypeOK
<1>3. GrouplessExplained' BY <1>1 DEF CatalogueIInv, CatalogueTypeOK, GrouplessExplained, GroupIDsForTarget
<1> QED BY <1>2, <1>3 DEF CatalogueIInv

\* Creating and deleting groups.
LEMMA GroupsKeep ==
  ASSUME CatalogueIInv, NEW e \in Edits,
         \/ \E p \in Paths : CreateGroup(e, p) \/ DeleteGroup(e, p)
         \/ \E x \in Tags : DefaultTag(e, x)
         \/ CountChildren(e) \/ DeleteGroupRow(e)
  PROVE  CatalogueIInv'
<1>0. edit \in [Edits -> EditRecord] /\ edit[e] \in EditRecord BY DEF CatalogueIInv, CatalogueTypeOK
<1>n. NoEdit \in EditRecord BY DEF NoEdit, EditRecord
<1>1. ASSUME NEW p \in Paths, CreateGroup(e, p) PROVE CatalogueIInv'
  <2>1. PICK f : f = [edit[e] EXCEPT !.pc = "groupTag", !.group = p] OBVIOUS
  <2>2. f \in EditRecord BY <1>0, <2>1 DEF EditRecord
  <2>3. edit' = [edit EXCEPT ![e] = f] /\ edit[e].pc = "idle" BY <1>0, <1>1, <2>1 DEF CreateGroup, AtEdit
  <2>4. groups' = groups \cup {p} /\ UNCHANGED <<targets, groupTargets, lost>> BY <1>1 DEF CreateGroup
  <2>5. /\ edit' \in [Edits -> EditRecord]
        /\ \A t \in TargetIds :
             (\E k \in Edits : edit[k].pc \in {"assign", "undo"} /\ edit[k].target = t) =>
                \E k \in Edits : edit'[k].pc \in {"assign", "undo"} /\ edit'[k].target = t
        BY <2>2, <2>3, EditMoves
  <2>6. CatalogueTypeOK' BY <2>4, <2>5 DEF CatalogueIInv, CatalogueTypeOK
  <2>7. GrouplessExplained' BY <2>4, <2>5 DEF CatalogueIInv, CatalogueTypeOK, GrouplessExplained, GroupIDsForTarget
  <2> QED BY <2>6, <2>7 DEF CatalogueIInv
<1>2. ASSUME NEW p \in Paths, DeleteGroup(e, p) PROVE CatalogueIInv'
  <2>1. PICK f : f = [edit[e] EXCEPT !.pc = "children", !.group = p] OBVIOUS
  <2>2. f \in EditRecord BY <1>0, <2>1 DEF EditRecord
  <2>3. edit' = [edit EXCEPT ![e] = f] /\ edit[e].pc = "idle" BY <1>0, <1>2, <2>1 DEF DeleteGroup, AtEdit
  <2> QED BY <1>2, <2>2, <2>3, ReadsKeep DEF DeleteGroup
<1>3. ASSUME NEW x \in Tags, DefaultTag(e, x) PROVE CatalogueIInv'
      BY <1>3, <1>n, ReadsKeep DEF DefaultTag, AtEdit, EndEdit
<1>4. CASE CountChildren(e)
  <2>1. PICK f : f = [edit[e] EXCEPT !.pc = "deleteGroup"] OBVIOUS
  <2>2. f \in EditRecord BY <1>0, <2>1 DEF EditRecord
  <2>3. edit' = [edit EXCEPT ![e] = f] \/ edit' = [edit EXCEPT ![e] = NoEdit]
        BY <1>0, <1>4, <2>1 DEF CountChildren, NextEdit, EndEdit
  <2> QED BY <1>4, <1>n, <2>2, <2>3, ReadsKeep DEF CountChildren, AtEdit
<1>5. CASE DeleteGroupRow(e)
  <2>1. PICK p : p = edit[e].group OBVIOUS
  <2>2. /\ groups' = groups \ {p} /\ groupTargets' = {r \in groupTargets : r[1] # p} /\ targets' = targets
        /\ lost' = lost \cup {t \in TargetIDsForGroup(p) : GroupIDsForTarget(t) = {p}}
        /\ edit' = [edit EXCEPT ![e] = NoEdit] /\ edit[e].pc = "deleteGroup"
        BY <1>5, <2>1 DEF DeleteGroupRow, EndEdit, AtEdit
  <2>3. /\ edit' \in [Edits -> EditRecord]
        /\ \A t \in TargetIds :
             (\E k \in Edits : edit[k].pc \in {"assign", "undo"} /\ edit[k].target = t) =>
                \E k \in Edits : edit'[k].pc \in {"assign", "undo"} /\ edit'[k].target = t
        BY <1>n, <2>2, EditMoves
  <2>4. CatalogueTypeOK'
    <3>1. groupTargets' \subseteq groups' \X targets' BY <2>2 DEF CatalogueIInv, CatalogueTypeOK
    <3> QED BY <2>2, <2>3, <3>1 DEF CatalogueIInv, CatalogueTypeOK
  <2>5. GrouplessExplained'
    <3> SUFFICES ASSUME NEW t \in targets, GroupIDsForTarget(t)' = {}, t \notin lost'
                 PROVE  \E k \in Edits : edit'[k].pc \in {"assign", "undo"} /\ edit'[k].target = t
        BY <2>2 DEF GrouplessExplained
    <3>0. t \in TargetIds BY DEF CatalogueIInv, CatalogueTypeOK
    <3>1. GroupIDsForTarget(t) \subseteq {p} BY <2>2 DEF GroupIDsForTarget
    <3>2. GroupIDsForTarget(t) # {p} BY <2>2, <3>0 DEF TargetIDsForGroup, GroupIDsForTarget
    <3>3. GroupIDsForTarget(t) = {} BY <3>1, <3>2
    <3> QED BY <2>2, <2>3, <3>0, <3>3 DEF CatalogueIInv, GrouplessExplained
  <2> QED BY <2>4, <2>5 DEF CatalogueIInv
<1> QED BY <1>1, <1>2, <1>3, <1>4, <1>5

\* Creating, importing and moving targets.
LEMMA TargetsKeep ==
  ASSUME CatalogueIInv, NEW e \in Edits,
         \/ \E p \in Paths : LeaveGroup(e, p)
         \/ \E own \in SUBSET Tags, read \in BOOLEAN : InheritTags(e, own, read)
         \/ AssignTarget(e) \/ SetInherited(e) \/ ReadGroups(e) \/ HasLeft(e)
         \/ \E t \in TargetIds :
              \/ InsertTarget(e, t)
              \/ \E p \in Paths : MoveTarget(e, t, p)
              \/ \E p \in Paths, how \in {"create", "import"} : BeginTarget(e, t, p, how)
  PROVE  CatalogueIInv'
<1>0. edit \in [Edits -> EditRecord] /\ edit[e] \in EditRecord BY DEF CatalogueIInv, CatalogueTypeOK
<1>n. NoEdit \in EditRecord BY DEF NoEdit, EditRecord
<1>t. /\ groups \subseteq Paths /\ targets \subseteq TargetIds /\ groupTargets \subseteq groups \X targets
      BY DEF CatalogueIInv, CatalogueTypeOK
<1>1. ASSUME NEW p \in Paths, LeaveGroup(e, p) PROVE CatalogueIInv'
  <2>0. edit[e].pc \notin {"assign", "undo"} /\ UNCHANGED <<groups, targets>> BY <1>1 DEF LeaveGroup
  <2>1. CASE p \notin groups
    <3>1. edit' = [edit EXCEPT ![e] = NoEdit] /\ UNCHANGED <<groupTargets, lost>>
          BY <1>1, <2>1 DEF LeaveGroup, EndEdit
    <3> QED BY <1>n, <2>0, <3>1, ReadsKeep
  <2>2. CASE p \in groups
    <3>1. PICK f : f = [edit[e] EXCEPT !.from = edit[e].from \ {p}] OBVIOUS
    <3>2. f \in EditRecord BY <1>0, <3>1 DEF EditRecord
    <3>3. /\ edit' = [edit EXCEPT ![e] = f] /\ groupTargets' = groupTargets \ {<<p, edit[e].target>>}
          /\ lost' = lost \cup ({edit[e].target} \cap targets)
          BY <1>0, <1>1, <2>2, <3>1 DEF LeaveGroup
    <3>4. /\ edit' \in [Edits -> EditRecord]
          /\ \A t \in TargetIds :
               (\E k \in Edits : edit[k].pc \in {"assign", "undo"} /\ edit[k].target = t) =>
                  \E k \in Edits : edit'[k].pc \in {"assign", "undo"} /\ edit'[k].target = t
          BY <2>0, <3>2, <3>3, EditMoves
    <3>5. CatalogueTypeOK' BY <1>t, <2>0, <3>3, <3>4 DEF CatalogueTypeOK
    <3>6. \A t \in targets \ {edit[e].target} : GroupIDsForTarget(t)' = GroupIDsForTarget(t)
          BY <3>3 DEF GroupIDsForTarget
    <3>7. GrouplessExplained' BY <1>t, <2>0, <3>3, <3>4, <3>6 DEF CatalogueIInv, GrouplessExplained
    <3> QED BY <3>5, <3>7 DEF CatalogueIInv
  <2> QED BY <2>1, <2>2
<1>2. CASE AssignTarget(e)
  <2>1. PICK p, t : p = edit[e].group /\ t = edit[e].target OBVIOUS
  <2>2. groups' = groups /\ p \in groups /\ t \in targets BY <1>2, <2>1 DEF AssignTarget
  <2>3. PICK f : f = [edit[e] EXCEPT !.pc = "readTags"] OBVIOUS
  <2>4. f \in EditRecord BY <1>0, <2>3 DEF EditRecord
  <2>5. /\ groupTargets' = groupTargets \cup {<<p, t>>} /\ lost' = lost \ {t} /\ targets' = targets
        /\ edit' = [edit EXCEPT ![e] = f] \/ edit' = [edit EXCEPT ![e] = NoEdit]
        BY <1>0, <1>2, <2>1, <2>3 DEF AssignTarget, NextEdit, EndEdit
  <2>6. edit' \in [Edits -> EditRecord] /\ \A k \in Edits \ {e} : edit'[k] = edit[k]
        BY <1>n, <2>4, <2>5, EditMoves
  <2>7. CatalogueTypeOK' BY <1>t, <2>2, <2>5, <2>6 DEF CatalogueTypeOK
  <2>8. p \in GroupIDsForTarget(t)' BY <1>t, <2>2, <2>5 DEF GroupIDsForTarget
  <2>9. \A s \in targets \ {t} : GroupIDsForTarget(s)' = GroupIDsForTarget(s)
        BY <2>5 DEF GroupIDsForTarget
  <2>10. GrouplessExplained'
    <3> SUFFICES ASSUME NEW s \in targets, GroupIDsForTarget(s)' = {}, s \notin lost'
                 PROVE  \E k \in Edits : edit'[k].pc \in {"assign", "undo"} /\ edit'[k].target = s
        BY <2>5 DEF GrouplessExplained
    <3>1. s # t BY <2>8
    <3>2. PICK k \in Edits : edit[k].pc \in {"assign", "undo"} /\ edit[k].target = s
          BY <2>5, <2>9, <3>1 DEF CatalogueIInv, GrouplessExplained
    <3> QED BY <2>1, <2>6, <3>1, <3>2
  <2> QED BY <2>7, <2>10 DEF CatalogueIInv
<1>3. ASSUME NEW own \in SUBSET Tags, NEW read \in BOOLEAN, InheritTags(e, own, read) PROVE CatalogueIInv'
  <2>1. PICK T \in SUBSET Tags : T = own \cup {x \in Tags : read /\ <<edit[e].group, x>> \in groupTags} OBVIOUS
  <2>2. PICK f : f = [edit[e] EXCEPT !.pc = "setTags", !.tags = T] OBVIOUS
  <2>3. f \in EditRecord BY <1>0, <2>2 DEF EditRecord
  <2>4. edit' = [edit EXCEPT ![e] = f] /\ edit[e].pc \notin {"assign", "undo"} /\ UNCHANGED <<groups, targets, groupTargets, lost>>
        BY <1>0, <1>3, <2>1, <2>2 DEF InheritTags, AtEdit
  <2> QED BY <2>3, <2>4, ReadsKeep
<1>4. CASE SetInherited(e) BY <1>4, <1>n, ReadsKeep DEF SetInherited, AtEdit, EndEdit
<1>5. CASE ReadGroups(e)
  <2>1. PICK G \in SUBSET Paths : G = GroupIDsForTarget(edit[e].target) \ {edit[e].group} BY DEF GroupIDsForTarget
  <2>2. PICK pc \in {"over", "leaveOnly", "leave"} :
          pc = IF edit[e].target \notin targets THEN "over" ELSE
               IF edit[e].group \in GroupIDsForTarget(edit[e].target) THEN "leaveOnly" ELSE "leave"
        OBVIOUS
  <2>3. PICK f : f = [edit[e] EXCEPT !.from = G, !.pc = pc] OBVIOUS
  <2>4. f \in EditRecord BY <1>0, <2>3 DEF EditRecord
  <2>5. edit' = [edit EXCEPT ![e] = f] /\ edit[e].pc \notin {"assign", "undo"} /\ UNCHANGED <<groups, targets, groupTargets, lost>>
        BY <1>0, <1>5, <2>1, <2>2, <2>3 DEF ReadGroups, AtEdit
  <2> QED BY <2>4, <2>5, ReadsKeep
<1>6. CASE HasLeft(e)
  <2>1. PICK f : f = [edit[e] EXCEPT !.pc = "assign"] OBVIOUS
  <2>2. f \in EditRecord BY <1>0, <2>1 DEF EditRecord
  <2>3. /\ edit' = [edit EXCEPT ![e] = f] \/ edit' = [edit EXCEPT ![e] = NoEdit]
        /\ edit[e].pc \notin {"assign", "undo"} /\ UNCHANGED <<groups, targets, groupTargets>>
        /\ \A t \in lost : GroupIDsForTarget(t) = {} => t \in lost'
        BY <1>0, <1>6, <2>1 DEF HasLeft, NextEdit, EndEdit, AtEdit
  <2>4. /\ edit' \in [Edits -> EditRecord]
        /\ \A t \in TargetIds :
             (\E k \in Edits : edit[k].pc \in {"assign", "undo"} /\ edit[k].target = t) =>
                \E k \in Edits : edit'[k].pc \in {"assign", "undo"} /\ edit'[k].target = t
        BY <1>n, <2>2, <2>3, EditMoves
  <2>5. CatalogueTypeOK' BY <1>t, <2>3, <2>4 DEF CatalogueTypeOK
  <2>6. \A t \in targets : GroupIDsForTarget(t)' = GroupIDsForTarget(t) BY <2>3 DEF GroupIDsForTarget
  <2>7. GrouplessExplained' BY <1>t, <2>3, <2>4, <2>6 DEF CatalogueIInv, GrouplessExplained
  <2> QED BY <2>5, <2>7 DEF CatalogueIInv
<1>7. ASSUME NEW t \in TargetIds, InsertTarget(e, t) PROVE CatalogueIInv'
  <2>1. PICK f : f = [edit[e] EXCEPT !.pc = "assign", !.target = t] OBVIOUS
  <2>2. f \in EditRecord /\ f.pc = "assign" /\ f.target = t BY <1>0, <2>1 DEF EditRecord
  <2>3. /\ edit' = [edit EXCEPT ![e] = f] /\ edit[e].pc \notin {"assign", "undo"} /\ targets' = targets \cup {t}
        /\ UNCHANGED <<groups, groupTargets, lost>>
        BY <1>0, <1>7, <2>1 DEF InsertTarget, AtEdit
  <2>4. /\ edit' \in [Edits -> EditRecord] /\ edit'[e] = f
        /\ \A s \in TargetIds :
             (\E k \in Edits : edit[k].pc \in {"assign", "undo"} /\ edit[k].target = s) =>
                \E k \in Edits : edit'[k].pc \in {"assign", "undo"} /\ edit'[k].target = s
        BY <2>2, <2>3, EditMoves
  <2>5. CatalogueTypeOK' BY <1>t, <2>3, <2>4 DEF CatalogueTypeOK
  <2>6. \A s \in targets : GroupIDsForTarget(s)' = GroupIDsForTarget(s) BY <2>3 DEF GroupIDsForTarget
  <2>7. GrouplessExplained' BY <1>t, <2>2, <2>3, <2>4, <2>6 DEF CatalogueIInv, GrouplessExplained
  <2> QED BY <2>5, <2>7 DEF CatalogueIInv
<1>8. ASSUME NEW t \in TargetIds, NEW p \in Paths, MoveTarget(e, t, p) PROVE CatalogueIInv'
  <2>1. PICK f : f = [NoEdit EXCEPT !.pc = "readGroups", !.group = p, !.target = t, !.how = "move"] OBVIOUS
  <2>2. f \in EditRecord BY <1>n, <2>1 DEF EditRecord
  <2> QED BY <1>8, <2>1, <2>2, ReadsKeep DEF MoveTarget, AtEdit
<1>9. ASSUME NEW t \in TargetIds, NEW p \in Paths, NEW how \in {"create", "import"}, BeginTarget(e, t, p, how)
      PROVE CatalogueIInv'
  <2>1. PICK f : f = [NoEdit EXCEPT !.pc = "insert", !.group = p, !.target = t, !.how = how] OBVIOUS
  <2>2. f \in EditRecord BY <1>n, <2>1 DEF EditRecord
  <2> QED BY <1>9, <2>1, <2>2, ReadsKeep DEF BeginTarget, AtEdit
<1> QED BY <1>1, <1>2, <1>3, <1>4, <1>5, <1>6, <1>7, <1>8, <1>9

\* A request fails, and an import takes its row back or fails to.
LEMMA FailuresKeep ==
  ASSUME CatalogueIInv, NEW e \in Edits,
         AssignFails(e) \/ ImportFails(e) \/ UndoImport(e) \/ UndoFails(e) \/ EditFails(e)
  PROVE  CatalogueIInv'
<1>0. edit \in [Edits -> EditRecord] /\ edit[e] \in EditRecord BY DEF CatalogueIInv, CatalogueTypeOK
<1>n. NoEdit \in EditRecord BY DEF NoEdit, EditRecord
<1>t. /\ groups \subseteq Paths /\ targets \subseteq TargetIds /\ groupTargets \subseteq groups \X targets
      BY DEF CatalogueIInv, CatalogueTypeOK
<1>u. PICK f : f = [edit[e] EXCEPT !.pc = "undo"] OBVIOUS
<1>f. f \in EditRecord /\ f.pc = "undo" /\ f.target = edit[e].target BY <1>0, <1>u DEF EditRecord
\* A request ends: what it alone accounted for has gone, is lost or is in a group.
<1>1. ASSUME edit' = [edit EXCEPT ![e] = NoEdit], groups' = groups, targets' \subseteq targets,
             groupTargets' = {r \in groupTargets : r[2] \in targets'},
             \A t \in targets' : t \in lost /\ GroupIDsForTarget(t) = {} => t \in lost',
             edit[e].pc \in {"assign", "undo"} =>
               edit[e].target \notin targets' \/ edit[e].target \in lost' \/ GroupIDsForTarget(edit[e].target) # {}
      PROVE  CatalogueIInv'
  <2>1. edit' \in [Edits -> EditRecord] /\ \A k \in Edits \ {e} : edit'[k] = edit[k]
        BY <1>n, <1>1, EditMoves
  <2>2. groupTargets' \subseteq groups' \X targets' BY <1>t, <1>1
  <2>3. CatalogueTypeOK' BY <1>t, <1>1, <2>1, <2>2 DEF CatalogueTypeOK
  <2>4. \A s \in targets' : GroupIDsForTarget(s)' = GroupIDsForTarget(s) BY <1>1 DEF GroupIDsForTarget
  <2>5. GrouplessExplained'
    <3> SUFFICES ASSUME NEW s \in targets', GroupIDsForTarget(s)' = {}, s \notin lost'
                 PROVE  \E k \in Edits : edit'[k].pc \in {"assign", "undo"} /\ edit'[k].target = s
        BY DEF GrouplessExplained
    <3>1. s \in targets /\ GroupIDsForTarget(s) = {} /\ s \notin lost BY <1>1, <2>4
    <3>2. PICK k \in Edits : edit[k].pc \in {"assign", "undo"} /\ edit[k].target = s
          BY <3>1 DEF CatalogueIInv, GrouplessExplained
    <3>3. k # e BY <1>1, <3>1, <3>2
    <3> QED BY <2>1, <3>2, <3>3
  <2> QED BY <2>3, <2>5 DEF CatalogueIInv
\* An import goes on to take its row back: it accounts for it as before.
<1>2. ASSUME edit' = [edit EXCEPT ![e] = f], UNCHANGED <<groups, targets, groupTargets, lost>>
      PROVE  CatalogueIInv'
  <2>1. edit' \in [Edits -> EditRecord] /\ edit'[e] = f /\ \A k \in Edits \ {e} : edit'[k] = edit[k]
        BY <1>f, <1>2, EditMoves
  <2>2. CatalogueTypeOK' BY <1>t, <1>2, <2>1 DEF CatalogueTypeOK
  <2>3. \A k \in Edits, t \in TargetIds : edit[k].pc \in {"assign", "undo"} /\ edit[k].target = t =>
          edit'[k].pc \in {"assign", "undo"} /\ edit'[k].target = t
        BY <1>f, <2>1
  <2>4. GrouplessExplained' BY <1>t, <1>2, <2>3 DEF CatalogueIInv, GrouplessExplained, GroupIDsForTarget
  <2> QED BY <2>2, <2>4 DEF CatalogueIInv
<1>k. groupTargets = {r \in groupTargets : r[2] \in targets} BY <1>t
<1>3. CASE AssignFails(e)
  <2>1. CASE edit[e].how = "import" BY <1>0, <1>2, <1>3, <1>u, <2>1 DEF AssignFails, NextEdit
  <2>2. CASE edit[e].how # "import"
    <3>1. /\ edit' = [edit EXCEPT ![e] = NoEdit] /\ UNCHANGED <<groups, targets, groupTargets>>
          /\ lost' = lost \cup ({edit[e].target} \cap targets)
          BY <1>3, <2>2 DEF AssignFails, EndEdit
    <3> QED BY <1>1, <1>k, <3>1
  <2> QED BY <2>1, <2>2
<1>4. CASE ImportFails(e) BY <1>0, <1>2, <1>4, <1>u DEF ImportFails, NextEdit
<1>5. CASE UndoImport(e)
  <2>1. /\ edit' = [edit EXCEPT ![e] = NoEdit] /\ groups' = groups /\ targets' = targets \ {edit[e].target}
        /\ groupTargets' = {r \in groupTargets : r[2] # edit[e].target} /\ lost' = lost \ {edit[e].target}
        BY <1>5 DEF UndoImport, EndEdit
  <2>2. groupTargets' = {r \in groupTargets : r[2] \in targets'} BY <1>t, <2>1
  <2> QED BY <1>1, <2>1, <2>2
<1>6. CASE UndoFails(e)
  <2>1. /\ edit' = [edit EXCEPT ![e] = NoEdit] /\ UNCHANGED <<groups, targets, groupTargets>>
        /\ lost' = lost \cup {t \in {edit[e].target} \cap targets : GroupIDsForTarget(t) = {}}
        BY <1>6 DEF UndoFails, EndEdit
  <2> QED BY <1>1, <1>k, <2>1
<1>7. CASE EditFails(e)
  <2>1. /\ edit' = [edit EXCEPT ![e] = NoEdit] /\ UNCHANGED <<groups, targets, groupTargets>>
        /\ lost' = {t \in lost : t # edit[e].target \/ GroupIDsForTarget(t) = {}}
        /\ edit[e].pc \notin {"assign", "undo"}
        BY <1>7 DEF EditFails, EndEdit
  <2> QED BY <1>1, <1>k, <2>1
<1> QED BY <1>3, <1>4, <1>5, <1>6, <1>7

\* A target is deleted, with its rows.
LEMMA DeleteTargetKeeps ==
  ASSUME CatalogueIInv, NEW t \in TargetIds, DeleteTarget(t)
  PROVE  CatalogueIInv'
<1>t. /\ groups \subseteq Paths /\ targets \subseteq TargetIds /\ groupTargets \subseteq groups \X targets
      BY DEF CatalogueIInv, CatalogueTypeOK
<1>1. /\ targets' = targets \ {t} /\ groupTargets' = {r \in groupTargets : r[2] # t} /\ lost' = lost \ {t}
      /\ UNCHANGED <<groups, edit>>
      BY DEF DeleteTarget
<1>2. groupTargets' \subseteq groups' \X targets' BY <1>t, <1>1
<1>3. CatalogueTypeOK' BY <1>t, <1>1, <1>2 DEF CatalogueIInv, CatalogueTypeOK
<1>4. \A s \in targets' : GroupIDsForTarget(s)' = GroupIDsForTarget(s) BY <1>1 DEF GroupIDsForTarget
<1>5. GrouplessExplained' BY <1>1, <1>4 DEF CatalogueIInv, GrouplessExplained
<1> QED BY <1>3, <1>5 DEF CatalogueIInv

\* The two branches of Usable that go through groups.
Reached(ps) == UNION {TargetIDsForGroup(p) : p \in Reach(ps)}

\* A target is reached through a group above one of its own.
LEMMA ReachedMeans ==
  ASSUME NEW ps, NEW t \in TargetIds
  PROVE  t \in Reached(ps) <=> \E p \in GroupIDsForTarget(t), g \in ps : Under(p, g)
<1>1. t \in Reached(ps) <=> \E p \in Reach(ps) : t \in TargetIDsForGroup(p) BY Zenon DEF Reached
<1>2. \A p : p \in Reach(ps) <=> p \in Paths /\ \E g \in ps : Under(p, g) BY Zenon DEF Reach
<1>3. \A p : t \in TargetIDsForGroup(p) <=> <<p, t>> \in groupTargets BY Zenon DEF TargetIDsForGroup
<1>4. \A p : p \in GroupIDsForTarget(t) <=> p \in Paths /\ <<p, t>> \in groupTargets BY Zenon DEF GroupIDsForTarget
<1> QED BY <1>1, <1>2, <1>3, <1>4, Zenon

\* The branches of Usable.
LEMMA UsableMeans ==
  ASSUME NEW u, NEW t
  PROVE  t \in Usable(u) <=>
           \/ t \in Reached(Held(u))
           \/ t \in TargetIds /\ \E x \in TagsOf(u) : <<t, x>> \in targetTags
           \/ t \in Reached(Tagged(u))
<1>1. Usable(u) =
        Reached(Held(u)) \cup {s \in TargetIds : \E x \in TagsOf(u) : <<s, x>> \in targetTags} \cup Reached(Tagged(u))
      BY Zenon DEF Usable, Reached
<1> QED BY <1>1

\* A page holds rows of the answer only, and all of them where they are few enough.
LEMMA PageMeans ==
  ASSUME NEW S, IsFiniteSet(S), NEW n, NEW A \in Page(S, n)
  PROVE  A \subseteq S /\ (Cardinality(S) =< n => A = S)
<1>1. A \subseteq S BY DEF Page
<1>2. ASSUME Cardinality(S) =< n PROVE A = S
  <2>1. Cardinality(A) = Cardinality(S) BY <1>2 DEF Page
  <2>2. Cardinality(A) = Cardinality(S) => A = S BY <1>1, FS_Subset
  <2> QED BY <2>1, <2>2
<1> QED BY <1>1, <1>2

\* What the queries choose from is finite.
LEMMA AnswersFinite ==
  ASSUME CatalogueIInv, NEW u, NEW t
  PROVE  IsFiniteSet(Usable(u)) /\ IsFiniteSet(Visible(u)) /\ IsFiniteSet(Invitable(t))
<1>1. IsFiniteSet(Viewers) /\ IsFiniteSet(TargetIds) /\ IsFiniteSet(Paths) BY CatalogueAssumption
<1>2. Usable(u) \subseteq TargetIds
  <2>1. \A p : TargetIDsForGroup(p) \subseteq TargetIds BY DEF TargetIDsForGroup
  <2> QED BY <2>1, UsableMeans DEF Reached
<1>3. Visible(u) \subseteq Paths BY DEF Visible, CatalogueIInv, CatalogueTypeOK
<1>4. Invitable(t) \subseteq Viewers BY DEF Invitable
<1> QED BY <1>1, <1>2, <1>3, <1>4, FS_Subset

\* Who may use a target is the same from either side, whatever the rows are.
LEMMA AccessFromEitherSide ==
  ASSUME CatalogueIInv, NEW u \in Viewers, NEW t \in targets
  PROVE  u \in Invitable(t) <=> t \in Usable(u)
<1>0. t \in TargetIds BY DEF CatalogueIInv, CatalogueTypeOK
<1>1. (\E p \in GroupIDsForTarget(t), g \in Held(u) : Under(p, g)) <=> t \in Reached(Held(u))
      BY <1>0, ReachedMeans
<1>2. TagsOf(u) \cap TagsGrantingTargetAccess(t) # {}
        <=> \/ \E x \in TagsOf(u) : <<t, x>> \in targetTags
            \/ \E x \in TagsOf(u) : \E p \in GroupIDsForTarget(t), g \in Paths : <<g, x>> \in groupTags /\ Under(p, g)
      BY DEF TagsOf, TagsGrantingTargetAccess
<1>3. (\E x \in TagsOf(u) : \E p \in GroupIDsForTarget(t), g \in Paths : <<g, x>> \in groupTags /\ Under(p, g))
        <=> t \in Reached(Tagged(u))
  <2>1. t \in Reached(Tagged(u)) <=> \E p \in GroupIDsForTarget(t), g \in Tagged(u) : Under(p, g)
        BY <1>0, ReachedMeans
  <2>2. \A g : g \in Tagged(u) <=> g \in Paths /\ \E x \in TagsOf(u) : <<g, x>> \in groupTags
        BY Zenon DEF Tagged
  <2> QED BY <2>1, <2>2, Zenon
<1>4. u \in Invitable(t) <=>
        \/ \E p \in GroupIDsForTarget(t), g \in Held(u) : Under(p, g)
        \/ TagsOf(u) \cap TagsGrantingTargetAccess(t) # {}
      BY DEF Invitable
<1> QED BY <1>0, <1>1, <1>2, <1>3, <1>4, UsableMeans

\* The answers agree where neither was cut.
LEMMA AnswersMirror == CatalogueIInv => AccessMirrors
<1> SUFFICES ASSUME CatalogueIInv, NEW u \in Viewers, NEW t \in targets,
                    NEW A \in TargetIDsForUser(u), NEW B \in UserIDsForTarget(t)
             PROVE  /\ u \in Invitable(t) <=> t \in Usable(u)
                    /\ t \in A /\ Cardinality(Invitable(t)) =< InviteLimit => u \in B
                    /\ u \in B /\ Cardinality(Usable(u)) =< ListLimit => t \in A
    BY AccessFromEitherSide DEF AccessMirrors
<1>1. u \in Invitable(t) <=> t \in Usable(u) BY AccessFromEitherSide
<1>2. IsFiniteSet(Usable(u)) /\ IsFiniteSet(Invitable(t)) BY AnswersFinite
<1>3. A \subseteq Usable(u) /\ (Cardinality(Usable(u)) =< ListLimit => A = Usable(u))
      BY <1>2, PageMeans DEF TargetIDsForUser
<1>4. B \subseteq Invitable(t) /\ (Cardinality(Invitable(t)) =< InviteLimit => B = Invitable(t))
      BY <1>2, PageMeans DEF UserIDsForTarget
<1> QED BY <1>1, <1>3, <1>4

\* What a user may use is in a group that the user may see.
LEMMA UsableIsVisible ==
  ASSUME CatalogueIInv, NEW u \in Viewers, NEW t \in Usable(u), GroupIDsForTarget(t) # {}
  PROVE  \E p \in GroupIDsForTarget(t) : p \in Visible(u)
<1>0. groupTargets \subseteq groups \X targets BY DEF CatalogueIInv, CatalogueTypeOK
<1>s. \A p : p \in Visible(u) <=>
        \/ p \in groups /\ p \in Reach(Held(u))
        \/ p \in Paths /\ \E s \in TargetIDsForGroup(p), x \in TagsOf(u) : <<s, x>> \in targetTags
        \/ p \in groups /\ p \in Reach(Tagged(u))
      BY Zenon DEF Visible
<1>1. ASSUME NEW ps, ps = Held(u) \/ ps = Tagged(u), t \in Reached(ps)
      PROVE  \E p \in GroupIDsForTarget(t) : p \in Visible(u)
  <2>1. PICK p \in Reach(ps) : t \in TargetIDsForGroup(p) BY <1>1, Zenon DEF Reached
  <2>2. p \in Paths /\ <<p, t>> \in groupTargets BY <2>1 DEF Reach, TargetIDsForGroup
  <2>3. p \in groups /\ p \in GroupIDsForTarget(t) BY <1>0, <2>2 DEF GroupIDsForTarget
  <2> QED BY <1>1, <1>s, <2>1, <2>3
<1>2. ASSUME t \in TargetIds, NEW x \in TagsOf(u), <<t, x>> \in targetTags
      PROVE  \E p \in GroupIDsForTarget(t) : p \in Visible(u)
  <2>1. PICK p \in GroupIDsForTarget(t) : TRUE OBVIOUS
  <2>2. p \in Paths /\ t \in TargetIDsForGroup(p) BY <1>2, <2>1 DEF GroupIDsForTarget, TargetIDsForGroup
  <2> QED BY <1>2, <1>s, <2>1, <2>2
<1> QED BY <1>1, <1>2, UsableMeans

\* What a user may use is listed under a group the user is shown.
LEMMA WhatIsUsableIsShown == CatalogueIInv => AccessibleShown
<1> SUFFICES ASSUME CatalogueIInv, NEW u \in Viewers, NEW t \in Usable(u), GroupIDsForTarget(t) # {}
             PROVE  /\ GroupIDsForTarget(t) \cap Visible(u) # {}
                    /\ Cardinality(Visible(u)) =< ListLimit =>
                         \A G \in GroupIDsForUser(u) : GroupIDsForTarget(t) \cap G # {}
    BY DEF AccessibleShown
<1>1. GroupIDsForTarget(t) \cap Visible(u) # {} BY UsableIsVisible
<1>2. IsFiniteSet(Visible(u)) BY AnswersFinite
<1>3. \A G \in GroupIDsForUser(u) : Cardinality(Visible(u)) =< ListLimit => G = Visible(u)
      BY <1>2, PageMeans DEF GroupIDsForUser
<1> QED BY <1>1, <1>3

\* Who may reach which target is the same from either side, what is reachable is shown,
\* unless a limit cuts the answer, and a target without a group is one left so, for any
\* catalogue, any limits and however the requests
\* that edit it overlap (AccessAgrees).
THEOREM AccessAlwaysAgrees == CatalogueSpec => []AccessAgrees
<1>1. CatalogueIInv /\ [CatalogueNext]_catalogueVars => CatalogueIInv'
  <2> SUFFICES ASSUME CatalogueIInv, [CatalogueNext]_catalogueVars PROVE CatalogueIInv'
      OBVIOUS
  <2>1. CASE UNCHANGED <<groups, targets, groupTargets, edit, lost>>
        BY <2>1 DEF CatalogueIInv, CatalogueTypeOK, GrouplessExplained, GroupIDsForTarget
  <2>2. CASE UNCHANGED catalogueVars BY <2>1, <2>2 DEF catalogueVars
  <2>3. ASSUME NEW t \in TargetIds, NEW tags \in SUBSET Tags, SetTargetTags(t, tags) PROVE CatalogueIInv'
        BY <2>1, <2>3 DEF SetTargetTags
  <2>4. ASSUME NEW p \in Paths, NEW tags \in SUBSET Tags, SetGroupTags(p, tags) PROVE CatalogueIInv'
        BY <2>1, <2>4 DEF SetGroupTags
  <2>5. ASSUME NEW u \in Viewers, NEW p \in Paths, NEW state \in {"none", "active", "expired"}, SetMembership(u, p, state)
        PROVE CatalogueIInv'
        BY <2>1, <2>5 DEF SetMembership
  <2>6. ASSUME NEW e \in Edits,
               \/ \E p \in Paths : CreateGroup(e, p) \/ DeleteGroup(e, p) \/ LeaveGroup(e, p)
               \/ \E x \in Tags : DefaultTag(e, x)
               \/ \E own \in SUBSET Tags, read \in BOOLEAN : InheritTags(e, own, read)
               \/ CountChildren(e) \/ DeleteGroupRow(e) \/ AssignTarget(e) \/ AssignFails(e)
               \/ SetInherited(e) \/ ImportFails(e) \/ UndoImport(e) \/ UndoFails(e)
               \/ ReadGroups(e) \/ HasLeft(e) \/ EditFails(e)
               \/ \E t \in TargetIds :
                    \/ InsertTarget(e, t)
                    \/ \E p \in Paths : MoveTarget(e, t, p)
                    \/ \E p \in Paths, how \in {"create", "import"} : BeginTarget(e, t, p, how)
        PROVE CatalogueIInv'
        BY <2>6, GroupsKeep, TargetsKeep, FailuresKeep
  <2> QED BY <2>2, <2>3, <2>4, <2>5, <2>6, DeleteTargetKeeps DEF CatalogueNext
<1>2. CatalogueIInv => AccessAgrees
  <2> SUFFICES ASSUME CatalogueIInv PROVE AccessAgrees
      OBVIOUS
  <2> QED BY AnswersMirror, WhatIsUsableIsShown DEF CatalogueIInv, AccessAgrees
<1> QED BY <1>1, <1>2, CatalogueStart, PTL DEF CatalogueSpec

--------------------------------------------------------------------------------
(* Session event streams (EventBroker).                                      *)

ChannelRecord == [queue : Seq(Nat), closed : BOOLEAN]
StreamRecord == [pc : {"off", "subscribed", "streaming", "leaving"}, shown : Nat]
PublisherRecord == [pc : {"idle", "read", "emit", "lock", "send"}, payload : Nat, state : Nat,
                    visit : SUBSET Streams]

BrokerTypeOK ==
  /\ version \in Nat /\ turn \in Nat /\ lastState \in Int
  /\ clients \subseteq Streams
  /\ channel \in [Streams -> ChannelRecord]
  /\ stream \in [Streams -> StreamRecord]
  /\ publisher \in [Publishers -> PublisherRecord]
  /\ readers \subseteq Publishers
  /\ missed \subseteq Streams

\* A registered channel is open, and belongs to a handler that has not left.
ClientsOpen == \A c \in Streams :
  /\ c \in clients <=> stream[c].pc \in {"subscribed", "streaming"}
  /\ c \in clients => channel[c].closed = FALSE

\* A publisher that sends holds the read lock, and visits registered channels only.
SendersHoldLock == \A p \in Publishers :
  /\ publisher[p].pc = "send" => p \in readers /\ publisher[p].visit \subseteq clients
  /\ publisher[p].payload =< version

\* A payload that was read knows the state it belongs to, and is as new as the newest
\* state that is to be published exactly when it belongs to that one.
StatesKnown ==
  /\ turn =< version /\ lastState =< turn
  /\ \A p \in Publishers : publisher[p].pc \in {"emit", "lock", "send"} =>
       publisher[p].state =< turn /\ (publisher[p].payload >= turn <=> publisher[p].state = turn)

\* Nobody is ahead of the subject.
NotAhead == \A c \in Streams :
  /\ stream[c].shown =< version
  /\ \A k \in DOMAIN channel[c].queue : channel[c].queue[k] =< version

\* A publisher that will yet bring the newest published state to a stream: one that has
\* let it pass, or, while nobody has, one that reads or has read it.
Carries(p, c) ==
  \/ publisher[p].pc = "lock" /\ publisher[p].payload >= turn
  \/ publisher[p].pc = "send" /\ publisher[p].payload >= turn /\ c \in publisher[p].visit

Brings(p, c) ==
  \/ Carries(p, c)
  \/ lastState # turn /\ publisher[p].pc = "read"
  \/ lastState # turn /\ publisher[p].pc = "emit" /\ publisher[p].payload >= turn

\* A stream that missed nothing has that state in its queue or its browser, or a
\* publisher is about to bring it.
WillCatchUp == \A c \in Streams :
  stream[c].pc = "streaming" /\ c \notin missed =>
    Newest(c) >= turn \/ \E p \in Publishers : Brings(p, c)

BrokerIInv ==
  /\ BrokerTypeOK /\ ClientsOpen /\ SendersHoldLock /\ StatesKnown /\ NotAhead /\ WillCatchUp
  /\ panicked = FALSE

\* The last of a queue, after what is done to it.
LEMMA QueueFacts ==
  ASSUME NEW q \in Seq(Nat)
  PROVE  /\ Len(q) \in Nat /\ DOMAIN q = 1 .. Len(q)
         /\ q # << >> => /\ Len(q) \in DOMAIN q /\ 1 \in DOMAIN q /\ Head(q) = q[1] /\ Head(q) \in Nat /\ Tail(q) \in Seq(Nat)
                         /\ Len(Tail(q)) = Len(q) - 1 /\ \A k \in 1 .. Len(q) - 1 : Tail(q)[k] = q[k + 1]
                         /\ Tail(q) = << >> <=> Len(q) = 1
         /\ \A n \in Nat : /\ Append(q, n) \in Seq(Nat) /\ Append(q, n) # << >> /\ Len(Append(q, n)) = Len(q) + 1
                           /\ Append(q, n)[Len(q) + 1] = n /\ \A k \in 1 .. Len(q) : Append(q, n)[k] = q[k]
<1>1. Len(q) \in Nat /\ DOMAIN q = 1 .. Len(q) OBVIOUS
<1>2. ASSUME q # << >>
      PROVE  /\ Len(q) \in DOMAIN q /\ 1 \in DOMAIN q /\ Head(q) = q[1] /\ Head(q) \in Nat /\ Tail(q) \in Seq(Nat)
             /\ Len(Tail(q)) = Len(q) - 1 /\ \A k \in 1 .. Len(q) - 1 : Tail(q)[k] = q[k + 1]
             /\ Tail(q) = << >> <=> Len(q) = 1
  <2>1. Len(q) >= 1 BY <1>1, <1>2
  <2>2. Tail(q) \in Seq(Nat) /\ Len(Tail(q)) = Len(q) - 1 /\ \A k \in 1 .. Len(q) - 1 : Tail(q)[k] = q[k + 1]
        BY <1>2, <2>1
  <2>3. Tail(q) = << >> <=> Len(q) = 1
    <3>1. PICK t \in Seq(Nat) : t = Tail(q) /\ Len(t) = Len(q) - 1 BY <2>2
    <3>2. t = << >> <=> Len(t) = 0 OBVIOUS
    <3> QED BY <1>1, <3>1, <3>2
  <2> QED BY <1>1, <1>2, <2>1, <2>2, <2>3
<1>3. ASSUME NEW n \in Nat
      PROVE /\ Append(q, n) \in Seq(Nat) /\ Append(q, n) # << >> /\ Len(Append(q, n)) = Len(q) + 1
            /\ Append(q, n)[Len(q) + 1] = n /\ \A k \in 1 .. Len(q) : Append(q, n)[k] = q[k]
  <2>1. /\ Append(q, n) \in Seq(Nat) /\ Len(Append(q, n)) = Len(q) + 1
        /\ Append(q, n)[Len(q) + 1] = n /\ \A k \in 1 .. Len(q) : Append(q, n)[k] = q[k]
        BY <1>1
  <2>2. Append(q, n) # << >> BY <1>1, <2>1
  <2> QED BY <2>1, <2>2
<1> QED BY <1>1, <1>2, <1>3

\* A fresh broker: nobody subscribes, nobody publishes.
LEMMA BrokerStart == BrokerInit => BrokerIInv
<1> SUFFICES ASSUME BrokerInit PROVE BrokerIInv
    OBVIOUS
<1>1. NoChannel \in ChannelRecord /\ NoChannel.queue = << >> /\ Silent \in PublisherRecord
      /\ Silent.pc = "idle" /\ Silent.payload = 0 /\ Silent.state = 0
      BY DEF NoChannel, ChannelRecord, Silent, PublisherRecord
<1>2. /\ channel \in [Streams -> ChannelRecord] /\ (\A c \in Streams : channel[c].queue = << >>)
      /\ publisher \in [Publishers -> PublisherRecord]
      /\ (\A p \in Publishers : publisher[p].pc = "idle" /\ publisher[p].payload = 0)
      BY <1>1 DEF BrokerInit
<1>3. stream \in [Streams -> StreamRecord] /\ \A c \in Streams : stream[c].pc = "off" /\ stream[c].shown = 0
      BY DEF BrokerInit, StreamRecord
<1>4. BrokerTypeOK BY <1>2, <1>3 DEF BrokerInit, BrokerTypeOK
<1>5. ClientsOpen /\ SendersHoldLock BY <1>2, <1>3 DEF BrokerInit, ClientsOpen, SendersHoldLock
<1>6. NotAhead /\ StatesKnown BY <1>2, <1>3 DEF BrokerInit, NotAhead, StatesKnown
<1>7. WillCatchUp BY <1>3 DEF WillCatchUp
<1> QED BY <1>4, <1>5, <1>6, <1>7 DEF BrokerIInv, BrokerInit

\* What a publisher does before it sends and when it has sent.  A step of it that leaves
\* the streams alone keeps the invariant when its own record does, and when whoever
\* brought the newest state to a stream still does or is replaced.
LEMMA PublishersKeep ==
  ASSUME BrokerIInv, NEW p \in Publishers,
         \/ Change(p) \/ Progress(p) \/ ReadSubject(p) \/ ShouldEmit(p) \/ Withhold(p)
         \/ RLock(p) \/ RUnlock(p) \/ \E copy, state \in 0 .. version : PublishCopy(p, copy, state)
  PROVE  BrokerIInv'
<1> USE DEF BrokerIInv
<1>0. /\ publisher \in [Publishers -> PublisherRecord] /\ publisher[p] \in PublisherRecord /\ version \in Nat
      /\ clients \subseteq Streams /\ turn \in Nat /\ lastState \in Int /\ readers \subseteq Publishers
      BY DEF BrokerTypeOK
<1>1. UNCHANGED <<clients, channel, stream, missed, panicked>>
      BY DEF Change, Progress, PublishCopy, ReadSubject, ShouldEmit, Withhold, RLock, RUnlock
<1>n. \A c \in Streams : Newest(c)' = Newest(c) BY <1>1 DEF Newest
<1>t. \A q \in Publishers : publisher[q].payload \in Nat /\ publisher[q].state \in Nat BY <1>0 DEF PublisherRecord
<1>s. /\ Silent \in PublisherRecord /\ Silent.pc = "idle" /\ Silent.payload = 0 BY DEF Silent, PublisherRecord
<1>m. ASSUME NEW f \in PublisherRecord, publisher' = [publisher EXCEPT ![p] = f]
      PROVE  /\ publisher' \in [Publishers -> PublisherRecord] /\ publisher'[p] = f
             /\ \A q \in Publishers \ {p} : publisher'[q] = publisher[q]
      BY <1>0, <1>m
<1>k. ASSUME NEW f \in PublisherRecord, publisher' = [publisher EXCEPT ![p] = f],
             version' = version \/ version' = version + 1,
             turn' \in Nat, turn' = turn \/ turn' = version + 1, turn' =< version', lastState' \in Int, lastState' =< turn',
             readers' = readers \/ readers' = readers \cup {p} \/ (readers' = readers \ {p} /\ f.pc # "send"),
             f.pc = "send" => p \in readers' /\ f.visit \subseteq clients,
             f.payload =< version',
             f.pc \in {"emit", "lock", "send"} => f.state =< turn' /\ (f.payload >= turn' <=> f.state = turn'),
             WillCatchUp'
      PROVE  BrokerIInv'
  <2>1. /\ publisher' \in [Publishers -> PublisherRecord] /\ publisher'[p] = f
        /\ \A q \in Publishers \ {p} : publisher'[q] = publisher[q]
        BY <1>m, <1>k
  <2>2. version' \in Nat /\ version =< version' /\ readers' \subseteq Publishers BY <1>0, <1>k
  <2>3. BrokerTypeOK' BY <1>1, <1>k, <2>1, <2>2 DEF BrokerTypeOK
  <2>4. ClientsOpen' BY <1>1 DEF ClientsOpen
  <2>5. SendersHoldLock'
    <3> SUFFICES ASSUME NEW q \in Publishers
                 PROVE  /\ publisher'[q].pc = "send" => q \in readers' /\ publisher'[q].visit \subseteq clients
                        /\ publisher'[q].payload =< version'
        BY <1>1 DEF SendersHoldLock
    <3>1. CASE q = p BY <1>k, <2>1, <3>1
    <3>2. CASE q # p
      <4>1. /\ publisher[q].pc = "send" => q \in readers /\ publisher[q].visit \subseteq clients
            /\ publisher[q].payload =< version
            BY DEF SendersHoldLock
      <4>2. publisher'[q].payload =< version' BY <1>0, <1>t, <2>1, <2>2, <3>2, <4>1
      <4> QED BY <1>k, <2>1, <3>2, <4>1, <4>2
    <3> QED BY <3>1, <3>2
  <2>6. StatesKnown'
    <3> SUFFICES ASSUME NEW q \in Publishers, publisher'[q].pc \in {"emit", "lock", "send"}
                 PROVE  publisher'[q].state =< turn' /\ (publisher'[q].payload >= turn' <=> publisher'[q].state = turn')
        BY <1>k DEF StatesKnown
    <3>1. CASE q = p BY <1>k, <2>1, <3>1
    <3>2. CASE q # p
      <4>1. publisher'[q] = publisher[q] BY <2>1, <3>2
      <4>2. /\ publisher[q].state =< turn /\ (publisher[q].payload >= turn <=> publisher[q].state = turn)
            /\ publisher[q].payload =< version /\ turn =< version
            BY <4>1 DEF StatesKnown, SendersHoldLock
      <4> QED BY <1>0, <1>k, <1>t, <4>1, <4>2
    <3> QED BY <3>1, <3>2
  <2>7. NotAhead'
    <3> SUFFICES ASSUME NEW c \in Streams
                 PROVE  stream[c].shown =< version' /\ \A k \in DOMAIN channel[c].queue : channel[c].queue[k] =< version'
        BY <1>1 DEF NotAhead
    <3>1. stream[c].shown \in Nat /\ channel[c].queue \in Seq(Nat) BY DEF BrokerTypeOK, StreamRecord, ChannelRecord
    <3>2. \A k \in DOMAIN channel[c].queue : channel[c].queue[k] \in Nat BY <3>1
    <3> QED BY <1>0, <2>2, <3>1, <3>2 DEF NotAhead
  <2> QED BY <1>1, <1>k, <2>3, <2>4, <2>5, <2>6, <2>7
\* Nothing moves for a stream when whoever brings to it still does.
<1>w. ASSUME turn' = turn, \A c \in Streams, q \in Publishers : c \in clients /\ Brings(q, c) =>
               \E k \in Publishers : Brings(k, c)'
      PROVE  WillCatchUp'
  <2> SUFFICES ASSUME NEW c \in Streams, stream[c].pc = "streaming", c \notin missed
               PROVE  Newest(c)' >= turn' \/ \E q \in Publishers : Brings(q, c)'
      BY <1>1 DEF WillCatchUp
  <2>1. c \in clients BY DEF ClientsOpen
  <2>2. Newest(c) >= turn \/ \E q \in Publishers : Brings(q, c) BY DEF WillCatchUp
  <2> QED BY <1>n, <1>w, <2>1, <2>2
<1>2. CASE Change(p)
  <2>1. PICK f : f = [publisher[p] EXCEPT !.pc = "read"] OBVIOUS
  <2>2. f \in PublisherRecord /\ f.pc = "read" /\ f.payload = publisher[p].payload
        BY <1>0, <2>1 DEF PublisherRecord
  <2>3. publisher' = [publisher EXCEPT ![p] = f] /\ version' = version + 1 /\ turn' = version + 1 /\ readers' = readers
        /\ lastState' = lastState
        BY <1>0, <1>2, <2>1 DEF Change
  <2>4. publisher'[p] = f BY <1>m, <2>2, <2>3
  <2>5. turn =< version /\ lastState =< turn BY DEF StatesKnown
  <2>6. lastState' # turn' /\ lastState' =< turn' BY <1>0, <2>3, <2>5
  <2>7. WillCatchUp' BY <2>2, <2>4, <2>6 DEF WillCatchUp, Brings
  <2>8. f.payload =< version' BY <1>0, <1>t, <2>2, <2>3 DEF SendersHoldLock
  <2>9. turn' \in Nat /\ turn' =< version' /\ lastState' \in Int BY <1>0, <2>3
  <2> QED BY <1>k, <2>2, <2>3, <2>6, <2>7, <2>8, <2>9
<1>3. CASE Progress(p)
  <2>1. PICK f : f = [publisher[p] EXCEPT !.pc = "read"] OBVIOUS
  <2>2. f \in PublisherRecord /\ f.pc = "read" /\ f.payload = publisher[p].payload
        BY <1>0, <2>1 DEF PublisherRecord
  <2>3. publisher' = [publisher EXCEPT ![p] = f] /\ version' = version + 1 /\ turn' = turn /\ readers' = readers
        /\ lastState' = lastState /\ publisher[p].pc = "idle"
        BY <1>0, <1>3, <2>1 DEF Progress
  <2>4. /\ publisher'[p] = f /\ \A q \in Publishers \ {p} : publisher'[q] = publisher[q] BY <1>m, <2>2, <2>3
  <2>5. ASSUME NEW c \in Streams, NEW q \in Publishers, Brings(q, c) PROVE Brings(q, c)'
        BY <2>3, <2>4, <2>5 DEF Brings, Carries
  <2>6. WillCatchUp' BY <1>w, <2>3, <2>5
  <2>7. f.payload =< version' /\ turn' =< version' /\ lastState' =< turn'
        BY <1>0, <1>t, <2>2, <2>3 DEF SendersHoldLock, StatesKnown
  <2>8. turn' \in Nat /\ lastState' \in Int BY <1>0, <2>3
  <2> QED BY <1>k, <2>2, <2>3, <2>6, <2>7, <2>8
<1>4. CASE ReadSubject(p)
  <2>1. PICK f : f = [publisher[p] EXCEPT !.pc = "emit", !.payload = version, !.state = turn] OBVIOUS
  <2>2. f \in PublisherRecord /\ f.pc = "emit" /\ f.payload = version /\ f.state = turn
        BY <1>0, <2>1 DEF PublisherRecord
  <2>3. publisher' = [publisher EXCEPT ![p] = f] /\ version' = version /\ turn' = turn /\ readers' = readers
        /\ lastState' = lastState /\ publisher[p].pc = "read"
        BY <1>0, <1>4, <2>1 DEF ReadSubject
  <2>4. /\ publisher'[p] = f /\ \A q \in Publishers \ {p} : publisher'[q] = publisher[q] BY <1>m, <2>2, <2>3
  <2>5. turn =< version /\ lastState =< turn /\ version >= turn BY <1>0 DEF StatesKnown
  <2>6. ASSUME NEW c \in Streams, NEW q \in Publishers, Brings(q, c) PROVE Brings(q, c)'
        BY <2>2, <2>3, <2>4, <2>5, <2>6 DEF Brings, Carries
  <2>7. WillCatchUp' BY <1>w, <2>3, <2>6
  <2>8. f.state =< turn' /\ (f.payload >= turn' <=> f.state = turn') /\ f.payload =< version'
        BY <1>0, <2>2, <2>3, <2>5
  <2>9. turn' \in Nat /\ lastState' \in Int /\ turn' =< version' /\ lastState' =< turn' BY <1>0, <2>3, <2>5
  <2> QED BY <1>k, <2>2, <2>3, <2>7, <2>8, <2>9
<1>5. CASE ShouldEmit(p)
  <2>1. PICK f : f = [publisher[p] EXCEPT !.pc = "lock"] OBVIOUS
  <2>2. f \in PublisherRecord /\ f.pc = "lock" /\ f.payload = publisher[p].payload /\ f.state = publisher[p].state
        BY <1>0, <2>1 DEF PublisherRecord
  <2>3. publisher' = [publisher EXCEPT ![p] = f] /\ version' = version /\ turn' = turn /\ readers' = readers
        /\ lastState' = publisher[p].state /\ publisher[p].pc = "emit"
        BY <1>0, <1>5, <2>1 DEF ShouldEmit
  <2>4. /\ publisher'[p] = f /\ \A q \in Publishers \ {p} : publisher'[q] = publisher[q] BY <1>m, <2>2, <2>3
  <2>5. /\ publisher[p].state =< turn /\ (publisher[p].payload >= turn <=> publisher[p].state = turn)
        /\ turn =< version /\ publisher[p].payload =< version
        BY <2>3 DEF StatesKnown, SendersHoldLock
  <2>6. ASSUME NEW c \in Streams, NEW q \in Publishers, Brings(q, c) PROVE \E k \in Publishers : Brings(k, c)'
    <3>1. CASE publisher[p].state = turn
      <4>1. Brings(p, c)' BY <2>2, <2>3, <2>4, <2>5, <3>1 DEF Brings, Carries
      <4> QED BY <4>1
    <3>2. CASE publisher[p].state # turn
      <4>1. lastState' # turn' BY <2>3, <3>2
      <4>2. q # p BY <2>3, <2>5, <2>6, <3>2 DEF Brings, Carries
      <4>3. Brings(q, c)' BY <2>3, <2>4, <2>6, <4>1, <4>2 DEF Brings, Carries
      <4> QED BY <4>3
    <3> QED BY <3>1, <3>2
  <2>7. WillCatchUp' BY <1>w, <2>3, <2>6
  <2>8. f.state =< turn' /\ (f.payload >= turn' <=> f.state = turn') /\ f.payload =< version'
        BY <2>2, <2>3, <2>5
  <2>9. turn' \in Nat /\ lastState' \in Int /\ turn' =< version' /\ lastState' =< turn' BY <1>0, <1>t, <2>3, <2>5
  <2> QED BY <1>k, <2>2, <2>3, <2>7, <2>8, <2>9
<1>6. CASE Withhold(p)
  <2>1. publisher' = [publisher EXCEPT ![p] = Silent] /\ version' = version /\ turn' = turn /\ readers' = readers
        /\ lastState' = lastState /\ publisher[p].pc = "emit" /\ publisher[p].state = lastState
        BY <1>6 DEF Withhold
  <2>2. /\ publisher'[p] = Silent /\ \A q \in Publishers \ {p} : publisher'[q] = publisher[q] BY <1>m, <1>s, <2>1
  <2>3. publisher[p].payload >= turn <=> publisher[p].state = turn BY <2>1 DEF StatesKnown
  <2>4. ASSUME NEW c \in Streams, NEW q \in Publishers, Brings(q, c) PROVE Brings(q, c)'
    <3>1. q # p BY <2>1, <2>3, <2>4 DEF Brings, Carries
    <3> QED BY <2>1, <2>2, <2>4, <3>1 DEF Brings, Carries
  <2>5. WillCatchUp' BY <1>w, <2>1, <2>4
  <2>6. turn' \in Nat /\ lastState' \in Int /\ turn' =< version' /\ lastState' =< turn' /\ Silent.payload =< version'
        BY <1>0, <1>s, <2>1 DEF StatesKnown
  <2> QED BY <1>k, <1>s, <2>1, <2>5, <2>6
<1>7. CASE RLock(p)
  <2>1. PICK f : f = [publisher[p] EXCEPT !.pc = "send", !.visit = clients] OBVIOUS
  <2>2. /\ f \in PublisherRecord /\ f.pc = "send" /\ f.payload = publisher[p].payload /\ f.visit = clients
        /\ f.state = publisher[p].state
        BY <1>0, <2>1 DEF PublisherRecord
  <2>3. publisher' = [publisher EXCEPT ![p] = f] /\ version' = version /\ turn' = turn /\ readers' = readers \cup {p}
        /\ lastState' = lastState /\ publisher[p].pc = "lock"
        BY <1>0, <1>7, <2>1 DEF RLock
  <2>4. /\ publisher'[p] = f /\ \A q \in Publishers \ {p} : publisher'[q] = publisher[q] BY <1>m, <2>2, <2>3
  <2>5. /\ publisher[p].state =< turn /\ (publisher[p].payload >= turn <=> publisher[p].state = turn)
        /\ turn =< version /\ publisher[p].payload =< version /\ lastState =< turn
        BY <2>3 DEF StatesKnown, SendersHoldLock
  <2>6. ASSUME NEW c \in Streams, NEW q \in Publishers, c \in clients, Brings(q, c) PROVE Brings(q, c)'
        BY <2>2, <2>3, <2>4, <2>6 DEF Brings, Carries
  <2>7. WillCatchUp' BY <1>w, <2>3, <2>6
  <2>8. f.state =< turn' /\ (f.payload >= turn' <=> f.state = turn') /\ f.payload =< version' BY <2>2, <2>3, <2>5
  <2>9. turn' \in Nat /\ lastState' \in Int /\ turn' =< version' /\ lastState' =< turn' BY <1>0, <2>3, <2>5
  <2>10. p \in readers' /\ f.visit \subseteq clients BY <2>2, <2>3
  <2>11. BrokerIInv'
    <3>1. readers' = readers \/ readers' = readers \cup {p} \/ (readers' = readers \ {p} /\ f.pc # "send") BY <2>3
    <3>2. publisher' = [publisher EXCEPT ![p] = f] BY <2>3
    <3>3. (version' = version \/ version' = version + 1) /\ (turn' = turn \/ turn' = version + 1) BY <2>3
    <3>4. f.pc = "send" => p \in readers' /\ f.visit \subseteq clients BY <2>10
    <3> HIDE DEF BrokerIInv
    <3> QED BY <1>k, <2>2, <2>7, <2>8, <2>9, <3>1, <3>2, <3>3, <3>4
  <2> QED BY <2>11
<1>8. CASE RUnlock(p)
  <2>1. publisher' = [publisher EXCEPT ![p] = Silent] /\ version' = version /\ turn' = turn /\ readers' = readers \ {p}
        /\ lastState' = lastState /\ publisher[p].pc = "send" /\ publisher[p].visit = {}
        BY <1>8 DEF RUnlock
  <2>2. /\ publisher'[p] = Silent /\ \A q \in Publishers \ {p} : publisher'[q] = publisher[q] BY <1>m, <1>s, <2>1
  <2>3. ASSUME NEW c \in Streams, NEW q \in Publishers, Brings(q, c) PROVE Brings(q, c)'
        BY <2>1, <2>2, <2>3 DEF Brings, Carries
  <2>4. WillCatchUp' BY <1>w, <2>1, <2>3
  <2>5. turn' \in Nat /\ lastState' \in Int /\ turn' =< version' /\ lastState' =< turn' /\ Silent.payload =< version'
        BY <1>0, <1>s, <2>1 DEF StatesKnown
  <2> QED BY <1>k, <1>s, <2>1, <2>4, <2>5
<1>9. CASE \E copy, state \in 0 .. version : PublishCopy(p, copy, state)
  <2>1. PICK copy \in 0 .. version, state \in 0 .. version : PublishCopy(p, copy, state) BY <1>9
  <2>2. copy \in Nat /\ state \in Nat /\ copy =< version BY <1>0
  <2>3. PICK f : f = [publisher[p] EXCEPT !.pc = "emit", !.payload = copy, !.state = state] OBVIOUS
  <2>4. f \in PublisherRecord /\ f.pc = "emit" /\ f.payload = copy /\ f.state = state
        BY <1>0, <2>2, <2>3 DEF PublisherRecord
  <2>5. publisher' = [publisher EXCEPT ![p] = f] /\ version' = version /\ turn' = turn /\ readers' = readers
        /\ lastState' = lastState /\ publisher[p].pc = "idle" /\ state =< copy /\ copy < turn
        BY <1>0, <2>1, <2>3 DEF PublishCopy
  <2>6. /\ publisher'[p] = f /\ \A q \in Publishers \ {p} : publisher'[q] = publisher[q] BY <1>m, <2>4, <2>5
  <2>7. ASSUME NEW c \in Streams, NEW q \in Publishers, Brings(q, c) PROVE Brings(q, c)'
    <3>1. q # p BY <2>5, <2>7 DEF Brings, Carries
    <3> QED BY <2>5, <2>6, <2>7, <3>1 DEF Brings, Carries
  <2>8. WillCatchUp' BY <1>w, <2>5, <2>7
  <2>9. f.state =< turn' /\ (f.payload >= turn' <=> f.state = turn') /\ f.payload =< version'
        BY <1>0, <2>2, <2>4, <2>5
  <2>10. turn' \in Nat /\ lastState' \in Int /\ turn' =< version' /\ lastState' =< turn'
        BY <1>0, <2>5 DEF StatesKnown
  <2> QED BY <1>k, <2>4, <2>5, <2>8, <2>9, <2>10
<1> QED BY <1>2, <1>3, <1>4, <1>5, <1>6, <1>7, <1>8, <1>9

\* A snapshot withheld from everybody leaves nobody to catch up.
LEMMA ReturnedKeeps ==
  ASSUME BrokerIInv, NEW p \in Publishers, WithholdReturned(p)
  PROVE  BrokerIInv'
<1> USE DEF BrokerIInv
<1>0. /\ publisher \in [Publishers -> PublisherRecord] /\ clients \subseteq Streams /\ missed \subseteq Streams
      BY DEF BrokerTypeOK
<1>1. Silent \in PublisherRecord /\ Silent.pc = "idle" /\ Silent.payload = 0 BY DEF Silent, PublisherRecord
<1>2. /\ publisher' = [publisher EXCEPT ![p] = Silent] /\ missed' = missed \cup clients
      /\ UNCHANGED <<version, turn, lastState, clients, channel, stream, readers, panicked>>
      BY DEF WithholdReturned
<1>3. /\ publisher' \in [Publishers -> PublisherRecord] /\ publisher'[p] = Silent
      /\ \A q \in Publishers \ {p} : publisher'[q] = publisher[q]
      BY <1>0, <1>1, <1>2
<1>4. BrokerTypeOK' BY <1>0, <1>2, <1>3 DEF BrokerTypeOK
<1>5. ClientsOpen' BY <1>2 DEF ClientsOpen
<1>6. version \in Nat BY DEF BrokerTypeOK
<1>7. SendersHoldLock' BY <1>1, <1>2, <1>3, <1>6 DEF SendersHoldLock
<1>8. StatesKnown' BY <1>1, <1>2, <1>3 DEF StatesKnown
<1>9. NotAhead' BY <1>2 DEF NotAhead
<1>10. WillCatchUp' BY <1>2 DEF WillCatchUp, ClientsOpen
<1> QED BY <1>2, <1>4, <1>5, <1>7, <1>8, <1>9, <1>10

\* A change nobody publishes makes the subject newer, and touches nothing else.
LEMMA UntoldKeeps == ASSUME BrokerIInv, ChangeUntold PROVE BrokerIInv'
<1> USE DEF BrokerIInv
<1>1. UNCHANGED <<turn, lastState, clients, channel, stream, publisher, readers, missed, panicked>>
      /\ version' = version + 1 /\ version \in Nat
      BY DEF ChangeUntold, BrokerTypeOK
<1>2. BrokerTypeOK' BY <1>1 DEF BrokerTypeOK
<1>3. ClientsOpen' BY <1>1 DEF ClientsOpen
<1>4. WillCatchUp' BY <1>1 DEF WillCatchUp, Newest, Brings, Carries
<1>5. \A p \in Publishers : publisher[p].payload \in Nat BY DEF BrokerTypeOK, PublisherRecord
<1>6. SendersHoldLock' BY <1>1, <1>5 DEF SendersHoldLock
<1>7. turn \in Nat BY DEF BrokerTypeOK
<1>8. StatesKnown' BY <1>1, <1>7 DEF StatesKnown
<1>9. NotAhead'
  <2> SUFFICES ASSUME NEW c \in Streams
               PROVE  stream[c].shown =< version + 1 /\ \A k \in DOMAIN channel[c].queue : channel[c].queue[k] =< version + 1
      BY <1>1 DEF NotAhead
  <2>1. stream[c].shown \in Nat /\ channel[c].queue \in Seq(Nat) BY DEF BrokerTypeOK, StreamRecord, ChannelRecord
  <2>2. \A k \in DOMAIN channel[c].queue : channel[c].queue[k] \in Nat BY <2>1
  <2> QED BY <1>1, <2>1, <2>2 DEF NotAhead
<1> QED BY <1>1, <1>2, <1>3, <1>4, <1>6, <1>8, <1>9

\* An event reaches a channel, or is dropped for it.
LEMMA SendKeeps ==
  ASSUME BrokerIInv, NEW p \in Publishers, NEW c \in Streams, Send(p, c)
  PROVE  BrokerIInv'
<1> USE DEF BrokerIInv
<1>0. /\ publisher \in [Publishers -> PublisherRecord] /\ publisher[p] \in PublisherRecord /\ version \in Nat
      /\ turn \in Nat
      /\ channel \in [Streams -> ChannelRecord] /\ channel[c] \in ChannelRecord /\ stream[c] \in StreamRecord
      BY DEF BrokerTypeOK
<1>1. /\ publisher[p].pc = "send" /\ c \in publisher[p].visit /\ c \in clients /\ channel[c].closed = FALSE
      BY DEF Send, SendersHoldLock, ClientsOpen
<1>2. UNCHANGED <<version, turn, lastState, clients, stream, readers>> BY DEF Send
<1>3. panicked' = FALSE BY <1>1 DEF Send
<1>4. PICK f : f = [publisher[p] EXCEPT !.visit = publisher[p].visit \ {c}] OBVIOUS
<1>5. f \in PublisherRecord /\ f.pc = "send" /\ f.payload = publisher[p].payload /\ f.visit = publisher[p].visit \ {c}
      /\ f.state = publisher[p].state
      BY <1>0, <1>1, <1>4 DEF PublisherRecord
<1>6. publisher' = [publisher EXCEPT ![p] = f] BY <1>0, <1>4 DEF Send
<1>7. /\ publisher' \in [Publishers -> PublisherRecord] /\ publisher'[p] = f
      /\ \A q \in Publishers \ {p} : publisher'[q] = publisher[q]
      BY <1>0, <1>5, <1>6
<1>8. PICK n \in Nat : n = publisher[p].payload BY <1>0 DEF PublisherRecord
<1>9. n =< version BY <1>8 DEF SendersHoldLock
<1>10. PICK q \in Seq(Nat) : q = channel[c].queue BY <1>0 DEF ChannelRecord
<1>11. /\ Len(q) \in Nat /\ DOMAIN q = 1 .. Len(q)
       /\ Append(q, n) \in Seq(Nat) /\ Append(q, n) # << >> /\ Len(Append(q, n)) = Len(q) + 1
       /\ Append(q, n)[Len(q) + 1] = n /\ \A k \in 1 .. Len(q) : Append(q, n)[k] = q[k]
       /\ DOMAIN Append(q, n) = 1 .. Len(q) + 1
  <2>1. Len(q) \in Nat /\ DOMAIN q = 1 .. Len(q) BY QueueFacts
  <2>2. /\ Append(q, n) \in Seq(Nat) /\ Append(q, n) # << >> /\ Len(Append(q, n)) = Len(q) + 1
        /\ Append(q, n)[Len(q) + 1] = n /\ \A k \in 1 .. Len(q) : Append(q, n)[k] = q[k]
        BY QueueFacts
  <2>3. DOMAIN Append(q, n) = 1 .. Len(q) + 1 BY <2>2, QueueFacts
  <2> QED BY <2>1, <2>2, <2>3
<1>12. /\ missed' = missed \/ missed' = missed \cup {c}
       /\ n < Newest(c) => c \in missed'
       BY <1>8 DEF Send
<1>13. ASSUME NEW d \in Streams, NEW k \in Publishers, Brings(k, d), k # p \/ d # c PROVE Brings(k, d)'
       BY <1>1, <1>2, <1>5, <1>7, <1>13 DEF Brings, Carries
<1>14. SendersHoldLock' /\ StatesKnown'
  <2>1. SendersHoldLock' BY <1>1, <1>2, <1>5, <1>7 DEF SendersHoldLock
  <2>2. StatesKnown' BY <1>1, <1>2, <1>5, <1>7 DEF StatesKnown
  <2> QED BY <2>1, <2>2
<1>15. CASE channel' = channel
  <2>1. c \in missed'
    <3>1. Len(channel[c].queue) >= Capacity \/ channel' = [channel EXCEPT ![c].queue = Append(q, n)]
          BY <1>1, <1>8, <1>10 DEF Send
    <3>2. CASE channel' = [channel EXCEPT ![c].queue = Append(q, n)]
      <4>1. channel'[c].queue = Append(q, n) BY <1>0, <3>2 DEF ChannelRecord
      <4>2. Len(channel'[c].queue) = Len(channel[c].queue) + 1 BY <1>10, <1>11, <4>1
      <4> QED BY <1>10, <1>11, <1>15, <4>2
    <3>3. CASE Len(channel[c].queue) >= Capacity BY <3>3 DEF Send
    <3> QED BY <3>1, <3>2, <3>3
  <2>2. BrokerTypeOK' BY <1>2, <1>7, <1>12, <1>15 DEF BrokerTypeOK
  <2>3. ClientsOpen' BY <1>2, <1>15 DEF ClientsOpen
  <2>4. NotAhead' BY <1>2, <1>15 DEF NotAhead
  <2>5. \A d \in Streams : Newest(d)' = Newest(d) BY <1>2, <1>15 DEF Newest
  <2>6. WillCatchUp' BY <1>2, <1>12, <1>13, <2>1, <2>5 DEF WillCatchUp
  <2> QED BY <1>3, <1>14, <2>2, <2>3, <2>4, <2>6
<1>16. CASE channel' # channel
  <2>1. channel' = [channel EXCEPT ![c].queue = Append(q, n)] BY <1>8, <1>10, <1>16 DEF Send
  <2>2. PICK r : r = [channel[c] EXCEPT !.queue = Append(q, n)] OBVIOUS
  <2>3. r \in ChannelRecord /\ r.queue = Append(q, n) /\ r.closed = FALSE
        BY <1>0, <1>1, <1>11, <2>2 DEF ChannelRecord
  <2>4. channel' = [channel EXCEPT ![c] = r] BY <1>0, <1>10, <2>1, <2>2
  <2>5. /\ channel' \in [Streams -> ChannelRecord] /\ channel'[c] = r
        /\ \A d \in Streams \ {c} : channel'[d] = channel[d]
        BY <1>0, <2>3, <2>4
  <2>6. BrokerTypeOK' BY <1>2, <1>7, <1>12, <2>5 DEF BrokerTypeOK
  <2>7. ClientsOpen' BY <1>2, <2>3, <2>5 DEF ClientsOpen
  <2>8. NotAhead'
    <3> SUFFICES ASSUME NEW d \in Streams
                 PROVE  stream[d].shown =< version /\ \A k \in DOMAIN channel'[d].queue : channel'[d].queue[k] =< version
        BY <1>2 DEF NotAhead
    <3>1. stream[d].shown =< version /\ \A k \in DOMAIN channel[d].queue : channel[d].queue[k] =< version
          BY DEF NotAhead
    <3>2. CASE d = c
      <4>1. ASSUME NEW k \in 1 .. Len(q) + 1 PROVE Append(q, n)[k] =< version
        <5>1. k \in 1 .. Len(q) \/ k = Len(q) + 1 BY <1>11
        <5>2. \A j \in 1 .. Len(q) : q[j] =< version BY <1>10, <1>11, <3>1, <3>2
        <5> QED BY <1>9, <1>11, <5>1, <5>2
      <4> QED BY <1>11, <2>3, <2>5, <3>1, <3>2, <4>1
    <3>3. CASE d # c BY <2>5, <3>1, <3>3
    <3> QED BY <3>2, <3>3
  <2>9. Newest(c)' = n BY <1>11, <2>3, <2>5 DEF Newest
  <2>10. \A d \in Streams \ {c} : Newest(d)' = Newest(d) BY <1>2, <2>5 DEF Newest
  <2>11. Newest(c) \in Nat
    <3>1. stream[c].shown \in Nat BY <1>0 DEF StreamRecord
    <3>2. q # << >> => q[Len(q)] \in Nat BY <1>11, QueueFacts
    <3> QED BY <1>10, <3>1, <3>2 DEF Newest
  <2>12. WillCatchUp'
    <3> SUFFICES ASSUME NEW d \in Streams, stream[d].pc = "streaming", d \notin missed'
                 PROVE  Newest(d)' >= turn \/ \E k \in Publishers : Brings(k, d)'
        BY <1>2 DEF WillCatchUp
    <3>1. d \notin missed BY <1>12
    <3>2. Newest(d) >= turn \/ \E k \in Publishers : Brings(k, d) BY <3>1 DEF WillCatchUp
    <3>3. CASE d # c BY <1>13, <2>10, <3>2, <3>3
    <3>4. CASE d = c /\ n >= turn BY <2>9, <3>4
    <3>5. CASE d = c /\ ~(n >= turn)
      <4>1. n < turn BY <1>0, <1>8, <3>5
      <4>2. ~(Newest(c) >= turn) BY <1>0, <1>8, <1>12, <2>11, <3>5, <4>1
      <4>3. PICK k \in Publishers : Brings(k, c) BY <3>2, <3>5, <4>2
      <4>4. k # p BY <1>1, <1>8, <3>5, <4>3 DEF Brings, Carries
      <4> QED BY <1>13, <3>5, <4>3, <4>4
    <3> QED BY <3>3, <3>4, <3>5
  <2> QED BY <1>3, <1>14, <2>6, <2>7, <2>8, <2>12
<1> QED BY <1>15, <1>16

\* What a stream handler does.
LEMMA StreamsKeep ==
  ASSUME BrokerIInv, NEW c \in Streams,
         Subscribe(c) \/ Snapshot(c) \/ Forward(c) \/ Unsubscribe(c) \/ CloseChannel(c)
  PROVE  BrokerIInv'
<1> USE DEF BrokerIInv
<1>0. /\ version \in Nat /\ channel \in [Streams -> ChannelRecord] /\ channel[c] \in ChannelRecord
      /\ stream \in [Streams -> StreamRecord] /\ stream[c] \in StreamRecord /\ missed \subseteq Streams
      BY DEF BrokerTypeOK
<1>1. UNCHANGED <<version, turn, lastState, publisher, readers, panicked>>
      BY DEF Subscribe, Snapshot, Forward, Unsubscribe, CloseChannel
<1>b. \A d \in Streams, k \in Publishers : Brings(k, d)' <=> Brings(k, d) BY <1>1 DEF Brings, Carries
\* What is asked of a step that touches the handler and the channel of one stream only.
<1>m. ASSUME NEW f \in StreamRecord, NEW r \in ChannelRecord,
             stream' = [stream EXCEPT ![c] = f], channel' = [channel EXCEPT ![c] = r],
             clients' = clients \/ (readers = {} /\ (clients' = clients \cup {c} \/ clients' = clients \ {c})),
             missed' = missed \/ missed' = missed \cup {c} \/ missed' = missed \ {c},
             c \in clients' <=> f.pc \in {"subscribed", "streaming"},
             c \in clients' => r.closed = FALSE,
             f.shown =< version, \A k \in DOMAIN r.queue : r.queue[k] =< version,
             f.pc = "streaming" /\ c \notin missed' =>
               Newest(c)' >= turn \/ \E k \in Publishers : Brings(k, c)
      PROVE  BrokerIInv'
  <2>1. /\ stream' \in [Streams -> StreamRecord] /\ stream'[c] = f /\ \A d \in Streams \ {c} : stream'[d] = stream[d]
        /\ channel' \in [Streams -> ChannelRecord] /\ channel'[c] = r
        /\ \A d \in Streams \ {c} : channel'[d] = channel[d]
        BY <1>0, <1>m
  <2>2. BrokerTypeOK' BY <1>1, <1>m, <2>1 DEF BrokerTypeOK
  <2>3. ClientsOpen' BY <1>m, <2>1 DEF ClientsOpen
  <2>4. SendersHoldLock' /\ StatesKnown' BY <1>1, <1>m DEF SendersHoldLock, StatesKnown
  <2>5. NotAhead' BY <1>1, <1>m, <2>1 DEF NotAhead
  <2>6. \A d \in Streams \ {c} : Newest(d)' = Newest(d) BY <2>1 DEF Newest
  <2>7. WillCatchUp' BY <1>1, <1>b, <1>m, <2>1, <2>6 DEF WillCatchUp
  <2> QED BY <1>1, <2>2, <2>3, <2>4, <2>5, <2>7
<1>q. /\ channel[c].queue \in Seq(Nat) /\ channel[c].closed \in BOOLEAN /\ stream[c].shown \in Nat
      /\ stream[c].shown =< version /\ \A k \in DOMAIN channel[c].queue : channel[c].queue[k] =< version
      BY <1>0 DEF ChannelRecord, StreamRecord, NotAhead
<1>c. channel' = channel => channel' = [channel EXCEPT ![c] = channel[c]] BY <1>0
<1>2. CASE Subscribe(c)
  <2>1. PICK f : f = [stream[c] EXCEPT !.pc = "subscribed"] OBVIOUS
  <2>2. f \in StreamRecord /\ f.pc = "subscribed" /\ f.shown = stream[c].shown BY <1>0, <2>1 DEF StreamRecord
  <2>3. NoChannel \in ChannelRecord /\ NoChannel.closed = FALSE /\ NoChannel.queue = << >>
        BY DEF NoChannel, ChannelRecord
  <2>4. /\ stream' = [stream EXCEPT ![c] = f] /\ channel' = [channel EXCEPT ![c] = NoChannel] /\ readers = {}
        /\ clients' = clients \cup {c} /\ missed' = missed \ {c}
        BY <1>0, <1>2, <2>1 DEF Subscribe
  <2>5. \A k \in DOMAIN NoChannel.queue : NoChannel.queue[k] =< version BY <2>3
  <2> QED BY <1>m, <1>q, <2>2, <2>3, <2>4, <2>5
<1>3. CASE Snapshot(c)
  <2>1. PICK f : f = [pc |-> "streaming", shown |-> version] OBVIOUS
  <2>2. f \in StreamRecord /\ f.pc = "streaming" /\ f.shown = version BY <1>0, <2>1 DEF StreamRecord
  <2>3. /\ stream' = [stream EXCEPT ![c] = f] /\ channel' = channel /\ clients' = clients
        /\ missed' = IF channel[c].queue # <<>> /\ Newest(c) < version THEN missed \cup {c} ELSE missed
        /\ stream[c].pc = "subscribed"
        BY <1>3, <2>1 DEF Snapshot
  <2>4. c \in clients /\ channel[c].closed = FALSE BY <2>3 DEF ClientsOpen
  <2>5. stream'[c] = f BY <1>0, <2>3
  <2>6. c \notin missed' => Newest(c)' >= turn
    <3>0. version >= turn /\ turn \in Nat BY <1>0 DEF StatesKnown, BrokerTypeOK
    <3>1. CASE channel[c].queue = << >> BY <2>2, <2>3, <2>5, <3>0, <3>1 DEF Newest
    <3>2. CASE channel[c].queue # << >>
      <4>1. PICK q \in Seq(Nat) : q = channel[c].queue BY <1>q
      <4>2. q # << >> /\ Len(q) \in DOMAIN q BY <3>2, <4>1, QueueFacts
      <4>3. q[Len(q)] \in Nat /\ q[Len(q)] =< version BY <1>q, <4>1, <4>2
      <4>4. Newest(c) = q[Len(q)] /\ Newest(c)' = q[Len(q)] BY <2>3, <3>2, <4>1 DEF Newest
      <4> QED BY <1>0, <2>3, <3>0, <3>2, <4>3, <4>4
    <3> QED BY <3>1, <3>2
  <2>7. missed' = missed \/ missed' = missed \cup {c} BY <2>3
  <2>8. channel' = [channel EXCEPT ![c] = channel[c]] BY <1>c, <2>3
  <2>9. f.shown =< version BY <1>0, <2>2
  <2>10. stream' = [stream EXCEPT ![c] = f] /\ clients' = clients BY <2>3
  <2> QED BY <1>0, <1>m, <1>q, <2>2, <2>4, <2>6, <2>7, <2>8, <2>9, <2>10
<1>4. CASE Forward(c)
  <2>1. PICK q \in Seq(Nat) : q = channel[c].queue BY <1>q
  <2>2. /\ q # << >> /\ stream[c].pc = "streaming" /\ clients' = clients /\ missed' = missed
        /\ channel' = [channel EXCEPT ![c].queue = Tail(q)]
        /\ stream' = [stream EXCEPT ![c].shown = Head(q)]
        BY <1>4, <2>1 DEF Forward
  <2>3. /\ Len(q) \in Nat /\ DOMAIN q = 1 .. Len(q) /\ Len(q) \in DOMAIN q /\ 1 \in DOMAIN q
        /\ Head(q) = q[1] /\ Head(q) \in Nat /\ Tail(q) \in Seq(Nat)
        /\ Len(Tail(q)) = Len(q) - 1 /\ \A k \in 1 .. Len(q) - 1 : Tail(q)[k] = q[k + 1]
        /\ Tail(q) = << >> <=> Len(q) = 1
        BY <2>2, QueueFacts
  <2>4. PICK f : f = [stream[c] EXCEPT !.shown = Head(q)] OBVIOUS
  <2>5. f \in StreamRecord /\ f.pc = "streaming" /\ f.shown = q[1] BY <1>0, <2>2, <2>3, <2>4 DEF StreamRecord
  <2>6. PICK r : r = [channel[c] EXCEPT !.queue = Tail(q)] OBVIOUS
  <2>7. r \in ChannelRecord /\ r.queue = Tail(q) /\ r.closed = channel[c].closed
        BY <1>0, <2>3, <2>6 DEF ChannelRecord
  <2>8. stream' = [stream EXCEPT ![c] = f] /\ channel' = [channel EXCEPT ![c] = r]
        BY <1>0, <2>2, <2>4, <2>6
  <2>9. stream'[c] = f /\ channel'[c] = r BY <1>0, <2>8
  <2>10. c \in clients /\ channel[c].closed = FALSE BY <2>2 DEF ClientsOpen
  <2>11. f.shown =< version BY <1>q, <2>1, <2>3, <2>5
  <2>12. \A k \in DOMAIN r.queue : r.queue[k] =< version
    <3>1. DOMAIN Tail(q) = 1 .. Len(q) - 1 BY <2>3, QueueFacts
    <3>2. ASSUME NEW k \in 1 .. Len(q) - 1 PROVE Tail(q)[k] =< version
      <4>1. k + 1 \in 1 .. Len(q) BY <2>3
      <4> QED BY <1>q, <2>1, <2>3, <4>1
    <3> QED BY <2>7, <3>1, <3>2
  <2>13. Newest(c)' = Newest(c)
    <3>1. Newest(c) = q[Len(q)] BY <2>1, <2>2 DEF Newest
    <3>2. CASE Len(q) = 1 BY <2>3, <2>5, <2>7, <2>9, <3>1, <3>2 DEF Newest
    <3>3. CASE Len(q) # 1
      <4>1. Tail(q) # << >> /\ Len(q) - 1 \in 1 .. Len(q) - 1 /\ (Len(q) - 1) + 1 = Len(q) BY <2>3, <3>3
      <4>2. Tail(q)[Len(Tail(q))] = q[Len(q)] BY <2>3, <4>1
      <4> QED BY <2>7, <2>9, <3>1, <4>1, <4>2 DEF Newest
    <3> QED BY <3>2, <3>3
  <2>14. c \notin missed => Newest(c)' >= turn \/ \E k \in Publishers : Brings(k, c)
         BY <2>2, <2>13 DEF WillCatchUp
  <2> QED BY <1>m, <2>2, <2>5, <2>7, <2>8, <2>10, <2>11, <2>12, <2>14
<1>5. CASE Unsubscribe(c)
  <2>1. PICK f : f = [stream[c] EXCEPT !.pc = "leaving"] OBVIOUS
  <2>2. f \in StreamRecord /\ f.pc = "leaving" /\ f.shown = stream[c].shown BY <1>0, <2>1 DEF StreamRecord
  <2>3. /\ stream' = [stream EXCEPT ![c] = f] /\ channel' = channel /\ readers = {}
        /\ clients' = clients \ {c} /\ missed' = missed
        BY <1>0, <1>5, <2>1 DEF Unsubscribe
  <2>4. channel' = [channel EXCEPT ![c] = channel[c]] BY <1>c, <2>3
  <2> QED BY <1>0, <1>m, <1>q, <2>2, <2>3, <2>4
<1>6. CASE CloseChannel(c)
  <2>1. PICK f : f = [pc |-> "off", shown |-> 0] OBVIOUS
  <2>2. PICK r : r = [queue |-> << >>, closed |-> TRUE] OBVIOUS
  <2>3. f \in StreamRecord /\ f.pc = "off" /\ f.shown = 0 /\ r \in ChannelRecord /\ r.queue = << >>
        BY <2>1, <2>2 DEF StreamRecord, ChannelRecord
  <2>4. /\ stream' = [stream EXCEPT ![c] = f] /\ channel' = [channel EXCEPT ![c] = r]
        /\ clients' = clients /\ missed' = missed /\ stream[c].pc = "leaving"
        BY <1>6, <2>1, <2>2 DEF CloseChannel
  <2>5. c \notin clients BY <2>4 DEF ClientsOpen
  <2>6. f.shown =< version /\ \A k \in DOMAIN r.queue : r.queue[k] =< version BY <1>0, <2>3
  <2> QED BY <1>m, <2>3, <2>4, <2>5, <2>6
<1> QED BY <1>2, <1>3, <1>4, <1>5, <1>6

\* No event is sent on a closed channel, and a stream catches up with every state that is
\* published, whatever shouldEmit withholds and nobody tells, for any number of streams and
\* publishers and any capacity (StreamsSound).
THEOREM StreamsAreSound == BrokerSpec => []StreamsSound
<1>1. BrokerIInv /\ [BrokerNext]_brokerVars => BrokerIInv'
  <2> SUFFICES ASSUME BrokerIInv, [BrokerNext]_brokerVars PROVE BrokerIInv'
      OBVIOUS
  <2>1. CASE UNCHANGED brokerVars
        BY <2>1 DEF brokerVars, BrokerIInv, BrokerTypeOK, ClientsOpen, SendersHoldLock, StatesKnown, NotAhead, WillCatchUp,
                     Newest, Brings, Carries
  <2>2. CASE BrokerNext BY <2>2, PublishersKeep, ReturnedKeeps, UntoldKeeps, SendKeeps, StreamsKeep DEF BrokerNext
  <2> QED BY <2>1, <2>2
<1>2. BrokerIInv => StreamsSound
  <2> SUFFICES ASSUME BrokerIInv PROVE StreamsSound
      OBVIOUS
  <2>1. NoSendOnClosed BY DEF BrokerIInv, NoSendOnClosed
  <2>2. StreamCaughtUp
    <3> SUFFICES ASSUME NEW c \in Streams, stream[c].pc = "streaming", channel[c].queue = <<>>, c \notin missed,
                        \A p \in Publishers : publisher[p].pc = "idle"
                 PROVE  stream[c].shown \in turn .. version
        BY DEF StreamCaughtUp
    <3>1. Newest(c) >= turn BY DEF BrokerIInv, WillCatchUp, Brings, Carries
    <3>2. stream[c].shown >= turn BY <3>1 DEF Newest
    <3>3. stream[c].shown \in Nat /\ turn \in Nat /\ version \in Nat /\ stream[c].shown =< version
          BY DEF BrokerIInv, BrokerTypeOK, StreamRecord, NotAhead
    <3> QED BY <3>2, <3>3
  <2> QED BY <2>1, <2>2 DEF StreamsSound
<1> QED BY <1>1, <1>2, BrokerStart, PTL DEF BrokerSpec

--------------------------------------------------------------------------------
(* The TFTP controller and its windows (TftpServer).                         *)

Protocols == {"gone", "tftp", "other"}
CallSteps == {"idle", "created", "update", "updated", "delete", "closeWindow", "deleted", "current", "window", "enforce"}
CallRecord == [pc : CallSteps, device : Devices \cup {"none"}, was : Protocols, new : Protocols,
               srv : {"nil", "live", "dead"}, op : {"none", "open", "close"}]

TftpTypeOK ==
  /\ proto \in [Devices -> Protocols]
  /\ refCount \in Nat /\ running \in BOOLEAN
  /\ windows \subseteq Devices /\ outlived \subseteq Devices
  /\ call \in [Calls -> CallRecord]
  /\ drifted \in BOOLEAN

\* A request under way is about a device, and one that opens a window is at that.
CallsOK == \A c \in Calls : /\ call[c].pc # "idle" => call[c].device \in Devices
                            /\ call[c].op = "open" => call[c].pc \in {"current", "window"}

\* What the controller is still to be told of a request: a creation, a deletion.
OwesUp(r) == (r.pc = "created" \/ (r.pc = "updated" /\ r.was # r.new)) /\ r.new = "tftp"
OwesDown(r) == (r.pc \in {"closeWindow", "deleted"} \/ (r.pc = "updated" /\ r.was # r.new)) /\ r.was = "tftp"
Ups == {c \in Calls : OwesUp(call[c])}
Downs == {c \in Calls : OwesDown(call[c])}

\* The count and the creations still to be told are the rows and the deletions still to
\* be told; the server runs while the count is not nought.
Balance == refCount + Cardinality(Ups) = Cardinality(TftpRows) + Cardinality(Downs)
CountFollows == drifted = FALSE => Balance /\ (running = TRUE <=> refCount > 0)

\* A target whose window is being opened is there, or was deleted meanwhile.
OpenersOK == \A c \in Calls :
  call[c].op = "open" => proto[call[c].device] # "gone" \/ call[c].device \in outlived

WindowsOK == strayed = FALSE /\ \A d \in windows : proto[d] = "gone" => d \in outlived \/ Deleting(d)

TftpIInv == TftpTypeOK /\ CallsOK /\ CountFollows /\ OpenersOK /\ WindowsOK

\* A request as the count and the windows see it: all but the server it holds.
Like(r, s) == r.pc = s.pc /\ r.device = s.device /\ r.was = s.was /\ r.new = s.new /\ r.op = s.op
Moved(c, f) == Like(call'[c], f) /\ \A x \in Calls \ {c} : Like(call'[x], call[x])

One(b) == IF b THEN 1 ELSE 0

\* Two sets that differ in x at most.
LEMMA OneApart ==
  ASSUME NEW S, NEW T, NEW x, IsFiniteSet(S), \A y : y # x => (y \in S <=> y \in T)
  PROVE  /\ Cardinality(S) \in Nat /\ Cardinality(T) \in Nat
         /\ Cardinality(T) + One(x \in S) = Cardinality(S) + One(x \in T)
<1>1. PICK A : A = S \ {x} OBVIOUS
<1>2. IsFiniteSet(A) /\ Cardinality(A) \in Nat
  <2>1. A \subseteq S BY <1>1
  <2> QED BY <2>1, FS_Subset, FS_CardinalityType
<1>3. x \notin A BY <1>1
<1>4. Cardinality(A \cup {x}) = Cardinality(A) + 1 BY <1>2, <1>3, FS_AddElement
<1>5. Cardinality(S) = Cardinality(A) + One(x \in S)
  <2>1. CASE x \in S
    <3>1. S = A \cup {x} BY <1>1, <2>1
    <3> QED BY <1>4, <2>1, <3>1 DEF One
  <2>2. CASE x \notin S
    <3>1. S = A BY <1>1, <2>2
    <3> QED BY <1>2, <2>2, <3>1 DEF One
  <2> QED BY <2>1, <2>2
<1>6. Cardinality(T) = Cardinality(A) + One(x \in T)
  <2>1. CASE x \in T
    <3>1. T = A \cup {x} BY <1>1, <2>1
    <3> QED BY <1>4, <2>1, <3>1 DEF One
  <2>2. CASE x \notin T
    <3>1. T = A BY <1>1, <2>2
    <3> QED BY <1>2, <2>2, <3>1 DEF One
  <2> QED BY <2>1, <2>2
<1> QED BY <1>2, <1>5, <1>6 DEF One

\* One request moves: what is owed changes by what it owed and owes.
LEMMA OwedMoves ==
  ASSUME NEW c \in Calls, NEW f, Moved(c, f)
  PROVE  /\ Cardinality(Ups) \in Nat /\ Cardinality(Ups)' \in Nat /\ Cardinality(Downs) \in Nat /\ Cardinality(Downs)' \in Nat
         /\ Cardinality(Ups)' + One(OwesUp(call[c])) = Cardinality(Ups) + One(OwesUp(f))
         /\ Cardinality(Downs)' + One(OwesDown(call[c])) = Cardinality(Downs) + One(OwesDown(f))
<1>1. \A r, s : Like(r, s) => (OwesUp(r) <=> OwesUp(s)) /\ (OwesDown(r) <=> OwesDown(s)) BY DEF Like, OwesUp, OwesDown
<1>2. /\ OwesUp(call'[c]) <=> OwesUp(f)
      /\ OwesDown(call'[c]) <=> OwesDown(f)
      /\ \A x \in Calls \ {c} : (OwesUp(call'[x]) <=> OwesUp(call[x])) /\ (OwesDown(call'[x]) <=> OwesDown(call[x]))
      BY <1>1 DEF Moved
<1>3. IsFiniteSet(Ups) /\ IsFiniteSet(Downs)
  <2>1. Ups \subseteq Calls /\ Downs \subseteq Calls BY DEF Ups, Downs
  <2> QED BY <2>1, TftpAssumption, FS_Subset
<1>4. PICK S : S = Ups' OBVIOUS
<1>5. PICK T : T = Downs' OBVIOUS
<1>6. \A y : y \in S <=> y \in Calls /\ OwesUp(call'[y]) BY <1>4 DEF Ups, OwesUp
<1>7. \A y : y \in T <=> y \in Calls /\ OwesDown(call'[y]) BY <1>5 DEF Downs, OwesDown
<1>8. \A y : y # c => (y \in Ups <=> y \in S) BY <1>2, <1>6 DEF Ups
<1>9. \A y : y # c => (y \in Downs <=> y \in T) BY <1>2, <1>7 DEF Downs
<1>10. /\ Cardinality(Ups) \in Nat /\ Cardinality(S) \in Nat
       /\ Cardinality(S) + One(c \in Ups) = Cardinality(Ups) + One(c \in S)
       BY <1>3, <1>8, OneApart
<1>11. /\ Cardinality(Downs) \in Nat /\ Cardinality(T) \in Nat
       /\ Cardinality(T) + One(c \in Downs) = Cardinality(Downs) + One(c \in T)
       BY <1>3, <1>9, OneApart
<1>12. /\ One(c \in Ups) = One(OwesUp(call[c])) /\ One(c \in S) = One(OwesUp(f))
       /\ One(c \in Downs) = One(OwesDown(call[c])) /\ One(c \in T) = One(OwesDown(f))
  <2>1. c \in Ups <=> OwesUp(call[c]) BY DEF Ups
  <2>2. c \in Downs <=> OwesDown(call[c]) BY DEF Downs
  <2>3. (c \in S <=> OwesUp(f)) /\ (c \in T <=> OwesDown(f)) BY <1>2, <1>6, <1>7
  <2> QED BY <2>1, <2>2, <2>3 DEF One
<1> QED BY <1>4, <1>5, <1>10, <1>11, <1>12

\* One row changes: the TFTP rows change by it.
LEMMA RowsMove ==
  ASSUME NEW d \in Devices, NEW p, proto \in [Devices -> Protocols], proto' = [proto EXCEPT ![d] = p]
  PROVE  /\ Cardinality(TftpRows) \in Nat /\ Cardinality(TftpRows)' \in Nat
         /\ Cardinality(TftpRows)' + One(proto[d] = "tftp") = Cardinality(TftpRows) + One(p = "tftp")
<1>1. proto'[d] = p /\ \A e \in Devices \ {d} : proto'[e] = proto[e] OBVIOUS
<1>2. IsFiniteSet(TftpRows)
  <2>1. TftpRows \subseteq Devices BY DEF TftpRows
  <2> QED BY <2>1, TftpAssumption, FS_Subset
<1>3. PICK S : S = TftpRows' OBVIOUS
<1>4. \A y : y \in S <=> y \in Devices /\ proto'[y] = "tftp" BY <1>3 DEF TftpRows
<1>5. \A y : y # d => (y \in TftpRows <=> y \in S) BY <1>1, <1>4 DEF TftpRows
<1>6. /\ Cardinality(TftpRows) \in Nat /\ Cardinality(S) \in Nat
      /\ Cardinality(S) + One(d \in TftpRows) = Cardinality(TftpRows) + One(d \in S)
      BY <1>2, <1>5, OneApart
<1>7. One(d \in TftpRows) = One(proto[d] = "tftp") /\ One(d \in S) = One(p = "tftp")
  <2>1. (d \in TftpRows <=> proto[d] = "tftp") /\ (d \in S <=> p = "tftp") BY <1>1, <1>4 DEF TftpRows
  <2> QED BY <2>1 DEF One
<1> QED BY <1>3, <1>6, <1>7

\* The balance is kept by a step that pays what it owes.
LEMMA BalanceKept ==
  ASSUME TftpTypeOK, Balance, NEW c \in Calls, NEW f, Moved(c, f), refCount' \in Nat,
         NEW t \in Nat, NEW t2 \in Nat, Cardinality(TftpRows) = t, Cardinality(TftpRows)' = t2,
         refCount' + One(OwesUp(f)) + One(OwesDown(call[c])) + t
           = refCount + One(OwesUp(call[c])) + One(OwesDown(f)) + t2
  PROVE  Balance'
<1>1. PICK u, v, w, x \in Nat : Cardinality(Ups) = u /\ Cardinality(Ups)' = v /\ Cardinality(Downs) = w /\ Cardinality(Downs)' = x
      BY OwedMoves
<1>2. PICK a, b, g, h \in Nat : /\ One(OwesUp(call[c])) = a /\ One(OwesUp(f)) = b
                                /\ One(OwesDown(call[c])) = g /\ One(OwesDown(f)) = h
      BY DEF One
<1>3. v + a = u + b /\ x + g = w + h BY <1>1, <1>2, OwedMoves
<1>4. PICK m, n \in Nat : refCount = m /\ refCount' = n BY DEF TftpTypeOK
<1>5. m + u = t + w BY <1>1, <1>4 DEF Balance
<1>6. n + b + g + t = m + a + h + t2 BY <1>2, <1>4
<1>7. n + v = t2 + x BY <1>3, <1>5, <1>6
<1> QED BY <1>1, <1>4, <1>7 DEF Balance

\* One request becomes f, whether or not the server the others hold stops.
LEMMA CallMoves ==
  ASSUME TftpTypeOK, CallsOK, NEW c \in Calls, NEW f \in CallRecord,
         f.pc # "idle" => f.device \in Devices, f.op = "open" => f.pc \in {"current", "window"},
         call' = [call EXCEPT ![c] = f] \/ call' = Orphaned([call EXCEPT ![c] = f])
  PROVE  call' \in [Calls -> CallRecord] /\ CallsOK' /\ Moved(c, f)
<1>1. call \in [Calls -> CallRecord] BY DEF TftpTypeOK
<1>2. PICK g : g = [call EXCEPT ![c] = f] OBVIOUS
<1>3. g \in [Calls -> CallRecord] /\ g[c] = f /\ \A x \in Calls \ {c} : g[x] = call[x] BY <1>1, <1>2
<1>4. call' = g \/ call' = Orphaned(g) BY <1>2
<1>5. call' \in [Calls -> CallRecord] /\ \A x \in Calls : Like(call'[x], g[x])
  <2>1. CASE call' = g BY <1>3, <2>1 DEF Like
  <2>2. CASE call' = Orphaned(g)
    <3>1. ASSUME NEW x \in Calls, NEW h, h = [g[x] EXCEPT !.srv = "dead"] PROVE h \in CallRecord /\ Like(h, g[x])
      <4>1. g[x] \in CallRecord BY <1>3
      <4> QED BY <3>1, <4>1 DEF CallRecord, Like
    <3>2. \A x \in Calls : [g[x] EXCEPT !.srv = "dead"] \in CallRecord /\ Like([g[x] EXCEPT !.srv = "dead"], g[x]) BY <3>1
    <3>3. \A x \in Calls : call'[x] = IF g[x].srv = "live" THEN [g[x] EXCEPT !.srv = "dead"] ELSE g[x]
          BY <2>2 DEF Orphaned
    <3>4. \A x \in Calls : call'[x] \in CallRecord /\ Like(call'[x], g[x]) BY <1>3, <3>2, <3>3 DEF Like
    <3>5. call' = [x \in Calls |-> call'[x]] BY <2>2, <3>3 DEF Orphaned
    <3> QED BY <3>4, <3>5
  <2> QED BY <1>4, <2>1, <2>2
<1>6. Moved(c, f) BY <1>3, <1>5 DEF Moved
<1>7. CallsOK' BY <1>6 DEF CallsOK, Moved, Like
<1> QED BY <1>5, <1>6, <1>7

\* What a step may do to the windows: it opens one for a target that is there or was
\* deleted meanwhile; who deletes a target is about to close its window and marks the
\* openings it overtakes.
LEMMA WindowsKept ==
  ASSUME TftpTypeOK, CallsOK, OpenersOK, WindowsOK, NEW c \in Calls, NEW f \in CallRecord, Moved(c, f),
         strayed' = FALSE, outlived \subseteq outlived', windows' \subseteq Devices,
         \A d \in windows' : d \in windows \/ proto'[d] # "gone" \/ d \in outlived',
         \A d \in Devices : proto'[d] = "gone" /\ proto[d] # "gone" =>
            f.pc = "closeWindow" /\ f.device = d /\ (Opening(d) => d \in outlived'),
         f.op = "open" => proto'[f.device] # "gone" \/ f.device \in outlived',
         call[c].pc = "closeWindow" => call[c].device \notin windows'
  PROVE  OpenersOK' /\ WindowsOK'
<1>1. OpenersOK'
  <2> SUFFICES ASSUME NEW x \in Calls, call'[x].op = "open"
               PROVE  proto'[call'[x].device] # "gone" \/ call'[x].device \in outlived'
      BY DEF OpenersOK
  <2>1. CASE x = c BY <2>1 DEF Moved, Like
  <2>2. CASE x # c
    <3>1. call[x].op = "open" /\ call[x].device = call'[x].device BY <2>2 DEF Moved, Like
    <3>2. call[x].device \in Devices /\ call[x].pc # "idle" BY <3>1 DEF CallsOK
    <3>3. Opening(call[x].device) BY <3>1, <3>2 DEF Opening
    <3> QED BY <3>1, <3>2, <3>3 DEF OpenersOK
  <2> QED BY <2>1, <2>2
<1>2. ASSUME NEW d \in windows', proto'[d] = "gone", d \notin outlived' PROVE Deleting(d)'
  <2>1. d \in Devices /\ d \in windows BY <1>2
  <2>2. CASE proto[d] # "gone"
    <3>1. call'[c].pc = "closeWindow" /\ call'[c].device = d BY <1>2, <2>1, <2>2 DEF Moved, Like
    <3> QED BY <3>1 DEF Deleting, InCall
  <2>3. CASE proto[d] = "gone"
    <3>1. Deleting(d) BY <1>2, <2>1, <2>3 DEF WindowsOK
    <3>2. PICK x \in Calls : call[x].device = d /\ call[x].pc = "closeWindow" BY <3>1 DEF Deleting, InCall
    <3>3. x # c BY <1>2, <3>2
    <3>4. call'[x].device = d /\ call'[x].pc = "closeWindow" BY <3>2, <3>3 DEF Moved, Like
    <3> QED BY <3>4 DEF Deleting, InCall
  <2> QED BY <2>2, <2>3
<1>3. WindowsOK' BY <1>2 DEF WindowsOK
<1> QED BY <1>1, <1>3

\* The idle request has its type and owes nothing.
LEMMA NoCallTyped == /\ NoCall \in CallRecord /\ NoCall.pc = "idle" /\ NoCall.op = "none"
                     /\ ~OwesUp(NoCall) /\ ~OwesDown(NoCall)
BY DEF NoCall, CallRecord, CallSteps, Protocols, OwesUp, OwesDown

\* Nothing is known and nothing runs.
LEMMA TftpStart == TftpInit => TftpIInv
<1> SUFFICES ASSUME TftpInit PROVE TftpIInv
    OBVIOUS
<1>1. call \in [Calls -> CallRecord] /\ \A c \in Calls : call[c] = NoCall BY NoCallTyped DEF TftpInit
<1>2. TftpTypeOK
  <2>1. proto \in [Devices -> Protocols] BY DEF TftpInit, Protocols
  <2>2. refCount \in Nat /\ running \in BOOLEAN /\ drifted \in BOOLEAN BY DEF TftpInit
  <2>3. windows \subseteq Devices /\ outlived \subseteq Devices BY DEF TftpInit
  <2> QED BY <1>1, <2>1, <2>2, <2>3 DEF TftpTypeOK
<1>3. CallsOK /\ OpenersOK BY <1>1, NoCallTyped DEF CallsOK, OpenersOK
<1>4. WindowsOK BY DEF WindowsOK, TftpInit
<1>5. CountFollows
  <2>1. Ups = {} /\ Downs = {} BY <1>1, NoCallTyped DEF Ups, Downs
  <2>2. TftpRows = {} BY DEF TftpRows, TftpInit
  <2>3. Balance BY <2>1, <2>2, FS_EmptySet DEF Balance, TftpInit
  <2>4. running = FALSE /\ refCount = 0 BY DEF TftpInit
  <2> QED BY <2>3, <2>4 DEF CountFollows
<1> QED BY <1>2, <1>3, <1>4, <1>5 DEF TftpIInv

\* A restart counts the rows anew.
LEMMA TftpRestartKeeps == ASSUME TftpIInv, NEW removed \in SUBSET TftpRows, Restart(removed) PROVE TftpIInv'
<1> USE DEF TftpIInv
<1>1. call' \in [Calls -> CallRecord] /\ \A c \in Calls : call'[c] = NoCall BY NoCallTyped DEF Restart, StartAgain
<1>2. PICK n : n = Cardinality(TftpRows \ removed) OBVIOUS
<1>3. n \in Nat
  <2>1. TftpRows \ removed \subseteq Devices BY DEF TftpRows
  <2> QED BY <1>2, <2>1, TftpAssumption, FS_Subset, FS_CardinalityType
<1>4. refCount' = n /\ (running' = TRUE <=> n > 0) /\ running' \in BOOLEAN
  <2>1. refCount' = n /\ running' = (refCount' > 0) BY <1>2 DEF Restart
  <2>2. running' = (n > 0) BY <2>1
  <2>3. CASE n > 0
    <3>1. running' = TRUE BY <2>2, <2>3
    <3> QED BY <2>1, <2>3, <3>1
  <2>4. CASE n = 0
    <3>1. ~(n > 0) BY <2>4
    <3>2. (n > 0) = FALSE BY <3>1
    <3>3. running' = FALSE BY <2>2, <3>2, Zenon
    <3> QED BY <2>1, <3>1, <3>3
  <2>5. n > 0 \/ n = 0 BY <1>3
  <2> QED BY <2>3, <2>4, <2>5
<1>5. /\ proto' \in [Devices -> Protocols]
      /\ \A d \in Devices : proto'[d] = "tftp" <=> proto[d] = "tftp" /\ d \notin removed
      BY DEF Restart, StartAgain, TftpTypeOK, Protocols
<1>6. windows' = {} /\ outlived' = {} /\ drifted' = FALSE /\ strayed' = strayed BY DEF Restart, StartAgain
<1>7. TftpTypeOK'
  <2>1. refCount' \in Nat /\ drifted' \in BOOLEAN BY <1>3, <1>4, <1>6
  <2>2. windows' \subseteq Devices /\ outlived' \subseteq Devices BY <1>6
  <2> QED BY <1>1, <1>4, <1>5, <2>1, <2>2 DEF TftpTypeOK
<1>8. CallsOK' /\ OpenersOK' BY <1>1, NoCallTyped DEF CallsOK, OpenersOK
<1>9. WindowsOK' BY <1>6 DEF WindowsOK
<1>10. CountFollows'
  <2>1. (Ups = {})' /\ (Downs = {})' BY <1>1, NoCallTyped DEF Ups, Downs
  <2>2. TftpRows' = TftpRows \ removed BY <1>5 DEF TftpRows
  <2>3. Cardinality(TftpRows)' = n /\ Cardinality(Ups)' = 0 /\ Cardinality(Downs)' = 0 BY <1>2, <2>1, <2>2, FS_EmptySet
  <2>4. Balance' BY <1>3, <1>4, <2>3 DEF Balance
  <2> QED BY <1>4, <2>4 DEF CountFollows
<1> QED BY <1>7, <1>8, <1>9, <1>10

\* A start that serves nothing is marked, and leaves no window and no request.
LEMMA TftpUnservedKeeps ==
  ASSUME TftpIInv, NEW removed \in SUBSET TftpRows, RestartUnserved(removed)
  PROVE  TftpIInv'
<1> USE DEF TftpIInv
<1>1. call' \in [Calls -> CallRecord] /\ \A c \in Calls : call'[c] = NoCall
      BY NoCallTyped DEF RestartUnserved, StartAgain
<1>2. proto' \in [Devices -> Protocols] BY DEF RestartUnserved, StartAgain, TftpTypeOK, Protocols
<1>3. windows' = {} /\ outlived' = {} /\ drifted' = TRUE /\ strayed' = strayed /\ refCount' = 0 /\ running' = FALSE
      BY DEF RestartUnserved, StartAgain
<1>4. TftpTypeOK'
  <2>1. refCount' \in Nat /\ drifted' \in BOOLEAN /\ running' \in BOOLEAN BY <1>3
  <2>2. windows' \subseteq Devices /\ outlived' \subseteq Devices BY <1>3
  <2> QED BY <1>1, <1>2, <2>1, <2>2 DEF TftpTypeOK
<1>5. CallsOK' /\ OpenersOK' BY <1>1, NoCallTyped DEF CallsOK, OpenersOK
<1>6. WindowsOK' BY <1>3 DEF WindowsOK
<1>7. CountFollows' BY <1>3 DEF CountFollows
<1> QED BY <1>4, <1>5, <1>6, <1>7

\* The rows are counted by a natural.
LEMMA RowsCounted == Cardinality(TftpRows) \in Nat
<1>1. TftpRows \subseteq Devices BY DEF TftpRows
<1> QED BY <1>1, TftpAssumption, FS_Subset, FS_CardinalityType

\* A step that leaves the rows and the count alone, of a request that owes the same as before.
LEMMA CountStays ==
  ASSUME TftpTypeOK, CountFollows, NEW c \in Calls, NEW f, Moved(c, f),
         UNCHANGED <<proto, refCount, running>>, drifted' = FALSE => drifted = FALSE,
         OwesUp(f) <=> OwesUp(call[c]), OwesDown(f) <=> OwesDown(call[c])
  PROVE  CountFollows'
<1> SUFFICES ASSUME drifted' = FALSE PROVE Balance' /\ (running' = TRUE <=> refCount' > 0)
    BY DEF CountFollows
<1>1. Balance /\ (running = TRUE <=> refCount > 0) BY DEF CountFollows
<1>2. PICK t \in Nat : Cardinality(TftpRows) = t BY RowsCounted
<1>3. Cardinality(TftpRows)' = t BY <1>2 DEF TftpRows
<1>4. PICK a, b, m \in Nat : One(OwesUp(call[c])) = a /\ One(OwesDown(call[c])) = b /\ refCount = m BY DEF One, TftpTypeOK
<1>5. One(OwesUp(f)) = a /\ One(OwesDown(f)) = b /\ refCount' = m BY <1>4 DEF One
<1>6. refCount' + One(OwesUp(f)) + One(OwesDown(call[c])) + t
        = refCount + One(OwesUp(call[c])) + One(OwesDown(f)) + t BY <1>4, <1>5
<1>7. Balance' BY <1>1, <1>2, <1>3, <1>4, <1>5, <1>6, BalanceKept
<1> QED BY <1>1, <1>7

\* Reading a target, looking for the server and setting or using a window owe nothing.
LEMMA WindowStepsKeep ==
  ASSUME TftpIInv, NEW c \in Calls,
         \/ \E d \in Devices : \/ \E op \in {"update", "delete"} : ReadDevice(c, d, op)
                               \/ \E op \in {"open", "close"} : LoadForWindow(c, d, op)
                               \/ Authorize(c, d)
         \/ Current(c) \/ SetWindow(c) \/ EnforceWindow(c)
  PROVE  TftpIInv'
<1> USE DEF TftpIInv
<1>0. call \in [Calls -> CallRecord] /\ call[c] \in CallRecord /\ proto \in [Devices -> Protocols] BY DEF TftpTypeOK
<1>1. UNCHANGED <<proto, refCount, running, drifted, outlived>>
      BY DEF ReadDevice, LoadForWindow, Authorize, Current, SetWindow, EnforceWindow
<1>2. call[c].pc \in {"idle", "current", "window", "enforce"}
      BY DEF ReadDevice, LoadForWindow, Authorize, Current, SetWindow, EnforceWindow, InCall
<1>3. ~OwesUp(call[c]) /\ ~OwesDown(call[c]) /\ call[c].pc # "closeWindow" BY <1>2 DEF OwesUp, OwesDown
<1>4. ASSUME NEW f \in CallRecord, call' = [call EXCEPT ![c] = f],
             f.pc \in {"idle", "update", "delete", "current", "window", "enforce"},
             f.pc # "idle" => f.device \in Devices, f.op = "open" => f.pc \in {"current", "window"},
             f.op = "open" => proto[f.device] # "gone" \/ f.device \in outlived,
             strayed' = FALSE, windows' \subseteq Devices,
             \A d \in windows' : d \in windows \/ proto[d] # "gone" \/ d \in outlived
      PROVE  TftpIInv'
  <2>1. call' \in [Calls -> CallRecord] /\ CallsOK' /\ Moved(c, f) BY <1>4, CallMoves
  <2>2. ~OwesUp(f) /\ ~OwesDown(f) BY <1>4 DEF OwesUp, OwesDown
  <2>3. CountFollows' BY <1>1, <1>3, <2>1, <2>2, CountStays
  <2>4. OpenersOK' /\ WindowsOK' BY <1>1, <1>3, <1>4, <2>1, WindowsKept
  <2>5. TftpTypeOK' BY <1>1, <1>4, <2>1 DEF TftpTypeOK
  <2> QED BY <2>1, <2>3, <2>4, <2>5
<1>5. strayed = FALSE /\ windows \subseteq Devices BY DEF WindowsOK, TftpTypeOK
<1>g. "gone" \in Protocols BY DEF Protocols
<1>n. ASSUME NEW d \in Devices, NEW pc \in {"update", "delete", "current", "enforce"}, NEW op \in {"none", "open", "close"},
             NEW was \in Protocols, NEW srv \in {"nil", "live"}, NEW f,
             f = [pc |-> pc, device |-> d, was |-> was, new |-> "gone", srv |-> srv, op |-> op]
      PROVE  f \in CallRecord /\ f.pc = pc /\ f.device = d /\ f.op = op
      BY <1>n DEF CallRecord, CallSteps, Protocols
<1>6. ASSUME NEW d \in Devices, NEW op \in {"update", "delete"}, ReadDevice(c, d, op) PROVE TftpIInv'
  <2>1. PICK f : f = [NoCall EXCEPT !.pc = op, !.device = d, !.was = proto[d]] OBVIOUS
  <2>2. f = [pc |-> op, device |-> d, was |-> proto[d], new |-> "gone", srv |-> "nil", op |-> "none"]
        BY <2>1 DEF NoCall
  <2>3. f \in CallRecord /\ f.pc = op /\ f.device = d /\ f.op = "none" BY <1>0, <1>n, <2>2
  <2>4. call' = [call EXCEPT ![c] = f] /\ windows' = windows /\ strayed' = strayed BY <1>6, <2>1 DEF ReadDevice
  <2> QED BY <1>4, <1>5, <2>3, <2>4
<1>7. ASSUME NEW d \in Devices, NEW op \in {"open", "close"}, LoadForWindow(c, d, op) PROVE TftpIInv'
  <2>1. PICK f : f = [NoCall EXCEPT !.pc = "current", !.device = d, !.op = op] OBVIOUS
  <2>2. f = [pc |-> "current", device |-> d, was |-> "gone", new |-> "gone", srv |-> "nil", op |-> op]
        BY <2>1 DEF NoCall
  <2>3. f \in CallRecord /\ f.pc = "current" /\ f.device = d /\ f.op = op BY <1>n, <1>g, <2>2
  <2>4. call' = [call EXCEPT ![c] = f] /\ proto[d] = "tftp" /\ windows' = windows /\ strayed' = strayed
        BY <1>7, <2>1 DEF LoadForWindow
  <2> QED BY <1>4, <1>5, <2>3, <2>4
<1>8. ASSUME NEW d \in Devices, Authorize(c, d) PROVE TftpIInv'
  <2>1. PICK f : f = [NoCall EXCEPT !.pc = "enforce", !.device = d, !.srv = "live"] OBVIOUS
  <2>2. f = [pc |-> "enforce", device |-> d, was |-> "gone", new |-> "gone", srv |-> "live", op |-> "none"]
        BY <2>1 DEF NoCall
  <2>3. f \in CallRecord /\ f.pc = "enforce" /\ f.device = d /\ f.op = "none" BY <1>n, <1>g, <2>2
  <2>4. call' = [call EXCEPT ![c] = f] /\ windows' = windows /\ strayed' = strayed BY <1>8, <2>1 DEF Authorize
  <2> QED BY <1>4, <1>5, <2>3, <2>4
<1>9. CASE Current(c)
  <2>0. call[c].pc = "current" /\ windows' = windows /\ strayed' = strayed BY <1>9 DEF Current, InCall
  <2>1. CASE running
    <3>1. PICK f : f = [call[c] EXCEPT !.pc = "window", !.srv = "live"] OBVIOUS
    <3>2. f \in CallRecord /\ f.pc = "window" /\ f.device = call[c].device /\ f.op = call[c].op
          BY <1>0, <3>1 DEF CallRecord, CallSteps
    <3>3. call' = [call EXCEPT ![c] = f] BY <1>0, <1>9, <2>1, <3>1 DEF Current
    <3>4. f.device \in Devices BY <2>0, <3>2 DEF CallsOK
    <3>5. f.op = "open" => proto[f.device] # "gone" \/ f.device \in outlived BY <3>2 DEF OpenersOK
    <3> QED BY <1>4, <1>5, <2>0, <3>2, <3>3, <3>4, <3>5
  <2>2. CASE ~running
    <3>1. call' = [call EXCEPT ![c] = NoCall] BY <1>9, <2>2 DEF Current
    <3> QED BY <1>4, <1>5, <2>0, <3>1, NoCallTyped
  <2> QED BY <2>1, <2>2
<1>10. CASE SetWindow(c)
  <2>1. /\ call[c].pc = "window" /\ call' = [call EXCEPT ![c] = NoCall] /\ strayed' = strayed
        /\ windows' = IF call[c].srv = "dead" THEN windows
                      ELSE IF call[c].op = "open" THEN windows \cup {call[c].device}
                      ELSE windows \ {call[c].device}
        BY <1>10 DEF SetWindow, InCall, EndCall
  <2>2. call[c].device \in Devices BY <2>1 DEF CallsOK
  <2>3. windows' \subseteq Devices BY <1>5, <2>1, <2>2
  <2>4. \A d \in windows' : d \in windows \/ (d = call[c].device /\ call[c].op = "open") BY <2>1
  <2>5. \A d \in windows' : d \in windows \/ proto[d] # "gone" \/ d \in outlived BY <2>4 DEF OpenersOK
  <2> QED BY <1>4, <1>5, <2>1, <2>3, <2>5, NoCallTyped
<1>11. CASE EnforceWindow(c)
  <2>1. /\ call' = [call EXCEPT ![c] = NoCall] /\ windows' = windows
        /\ strayed' = (strayed \/ ((call[c].device \in windows /\ call[c].srv = "live") /\ proto[call[c].device] = "gone"
                                   /\ ~Deleting(call[c].device) /\ call[c].device \notin outlived))
        BY <1>11 DEF EnforceWindow, EndCall
  <2>2. call[c].device \in windows /\ proto[call[c].device] = "gone" => call[c].device \in outlived \/ Deleting(call[c].device)
        BY DEF WindowsOK
  <2>3. strayed' = FALSE BY <1>5, <2>1, <2>2
  <2> QED BY <1>4, <1>5, <2>1, <2>3, NoCallTyped
<1> QED BY <1>6, <1>7, <1>8, <1>9, <1>10, <1>11

\* A creation is owed until the controller is told, or forgotten: then the count drifts.
LEMMA CreationsKeep ==
  ASSUME TftpIInv, NEW c \in Calls,
         \/ \E d \in Devices, p \in {"tftp", "other"} : CreateDevice(c, d, p)
         \/ ToldCreated(c) \/ CreateAborted(c)
  PROVE  TftpIInv'
<1> USE DEF TftpIInv
<1>0. /\ call \in [Calls -> CallRecord] /\ call[c] \in CallRecord /\ proto \in [Devices -> Protocols]
      /\ refCount \in Nat /\ running \in BOOLEAN /\ drifted \in BOOLEAN /\ strayed = FALSE
      BY DEF TftpTypeOK, WindowsOK
<1>1. UNCHANGED <<windows, outlived, strayed>> BY DEF CreateDevice, ToldCreated, CreateAborted
<1>2. call[c].pc # "closeWindow" /\ ~OwesDown(call[c])
      BY DEF CreateDevice, ToldCreated, CreateAborted, InCall, OwesDown
<1>3. ASSUME NEW f \in CallRecord, call' = [call EXCEPT ![c] = f], f.pc # "idle" => f.device \in Devices, f.op = "none",
             \A d \in Devices : proto'[d] = "gone" => proto[d] = "gone",
             proto' \in [Devices -> Protocols], refCount' \in Nat, running' \in BOOLEAN, drifted' \in BOOLEAN,
             Moved(c, f) => CountFollows'
      PROVE  TftpIInv'
  <2>1. call' \in [Calls -> CallRecord] /\ CallsOK' /\ Moved(c, f) BY <1>3, CallMoves
  <2>2. \A d \in windows' : d \in windows BY <1>1
  <2>3. windows' \subseteq Devices /\ outlived \subseteq outlived' /\ strayed' = FALSE BY <1>0, <1>1 DEF TftpTypeOK
  <2>4. OpenersOK' /\ WindowsOK' BY <1>2, <1>3, <2>1, <2>2, <2>3, WindowsKept
  <2>5. TftpTypeOK' BY <1>1, <1>3, <2>1 DEF TftpTypeOK
  <2> QED BY <1>3, <2>1, <2>4, <2>5
<1>4. ASSUME NEW d \in Devices, NEW p \in {"tftp", "other"}, CreateDevice(c, d, p) PROVE TftpIInv'
  <2>1. PICK f : f = [NoCall EXCEPT !.pc = "created", !.device = d, !.new = p] OBVIOUS
  <2>2. f = [pc |-> "created", device |-> d, was |-> "gone", new |-> p, srv |-> "nil", op |-> "none"]
        BY <2>1 DEF NoCall
  <2>3. f \in CallRecord /\ f.pc = "created" /\ f.device = d /\ f.op = "none" /\ f.new = p
        BY <2>2 DEF CallRecord, CallSteps, Protocols
  <2>4. /\ call' = [call EXCEPT ![c] = f] /\ proto' = [proto EXCEPT ![d] = p] /\ proto[d] = "gone" /\ call[c].pc = "idle"
        /\ UNCHANGED <<refCount, running, drifted>>
        BY <1>4, <2>1 DEF CreateDevice, InCall
  <2>5. proto' \in [Devices -> Protocols] /\ \A e \in Devices : proto'[e] = "gone" => proto[e] = "gone"
        BY <1>0, <2>4 DEF Protocols
  <2>6. ASSUME Moved(c, f) PROVE CountFollows'
    <3> SUFFICES ASSUME drifted = FALSE PROVE Balance' /\ (running = TRUE <=> refCount > 0)
        BY <2>4 DEF CountFollows
    <3>1. Balance /\ (running = TRUE <=> refCount > 0) BY DEF CountFollows
    <3>2. PICK t, t2, k, m \in Nat : /\ Cardinality(TftpRows) = t /\ Cardinality(TftpRows)' = t2
                                     /\ k = One(p = "tftp") /\ refCount = m
          BY <1>0, <2>4, RowsMove DEF One
    <3>3. t2 = t + k
      <4>1. t2 + One(proto[d] = "tftp") = t + One(p = "tftp") BY <1>0, <2>4, <3>2, RowsMove
      <4> QED BY <2>4, <3>2, <4>1 DEF One
    <3>4. One(OwesUp(f)) = k /\ One(OwesDown(f)) = 0 /\ One(OwesUp(call[c])) = 0 /\ One(OwesDown(call[c])) = 0
          BY <2>3, <2>4, <3>2 DEF One, OwesUp, OwesDown
    <3>5. refCount' + One(OwesUp(f)) + One(OwesDown(call[c])) + t
            = refCount + One(OwesUp(call[c])) + One(OwesDown(f)) + t2 BY <2>4, <3>2, <3>3, <3>4
    <3> QED BY <1>0, <2>4, <2>6, <3>1, <3>2, <3>5, BalanceKept
  <2> QED BY <1>0, <1>3, <2>3, <2>4, <2>5, <2>6
<1>5. CASE ToldCreated(c)
  <2>1. /\ call[c].pc = "created" /\ call' = [call EXCEPT ![c] = NoCall] /\ proto' = proto
        /\ NotifyTargetCreated(call[c].new)
        BY <1>5 DEF ToldCreated, InCall, EndCall
  <2>2. CASE call[c].new # "tftp"
    <3>1. UNCHANGED <<refCount, running, drifted>> BY <2>1, <2>2 DEF NotifyTargetCreated
    <3>2. ~OwesUp(call[c]) BY <2>2 DEF OwesUp
    <3>3. Moved(c, NoCall) => CountFollows' BY <1>2, <2>1, <3>1, <3>2, NoCallTyped, CountStays
    <3> QED BY <1>0, <1>3, <2>1, <3>1, <3>3, NoCallTyped
  <2>3. CASE call[c].new = "tftp"
    <3>1. refCount' = refCount + 1 /\ running' \in {TRUE, running} /\ drifted' = (drifted \/ ~running')
          BY <2>1, <2>3 DEF NotifyTargetCreated
    <3>2. refCount' \in Nat /\ running' \in BOOLEAN /\ drifted' \in BOOLEAN
      <4>1. refCount' \in Nat BY <1>0, <3>1
      <4>2. running' \in BOOLEAN BY <1>0, <3>1, Zenon
      <4>3. drifted' \in BOOLEAN BY <3>1, Zenon
      <4> QED BY <4>1, <4>2, <4>3
    <3>3. ASSUME Moved(c, NoCall) PROVE CountFollows'
      <4> SUFFICES ASSUME drifted' = FALSE PROVE Balance' /\ (running' = TRUE <=> refCount' > 0)
          BY DEF CountFollows
      <4>1. drifted = FALSE /\ running' = TRUE BY <1>0, <3>1, <3>2
      <4>2. Balance BY <4>1 DEF CountFollows
      <4>3. PICK t, m \in Nat : Cardinality(TftpRows) = t /\ refCount = m BY <1>0, RowsCounted
      <4>4. Cardinality(TftpRows)' = t BY <2>1, <4>3 DEF TftpRows
      <4>5. One(OwesUp(NoCall)) = 0 /\ One(OwesDown(NoCall)) = 0 /\ One(OwesUp(call[c])) = 1 /\ One(OwesDown(call[c])) = 0
            BY <1>2, <2>1, <2>3, NoCallTyped DEF One, OwesUp
      <4>6. refCount' + One(OwesUp(NoCall)) + One(OwesDown(call[c])) + t
              = refCount + One(OwesUp(call[c])) + One(OwesDown(NoCall)) + t BY <3>1, <4>3, <4>5
      <4>7. Balance' BY <3>2, <3>3, <4>2, <4>3, <4>4, <4>6, BalanceKept
      <4> QED BY <1>0, <3>1, <4>1, <4>7
    <3> QED BY <1>0, <1>3, <2>1, <3>2, <3>3, NoCallTyped
  <2> QED BY <2>2, <2>3
<1>6. CASE CreateAborted(c)
  <2>1. /\ call[c].pc = "created" /\ call' = [call EXCEPT ![c] = NoCall] /\ UNCHANGED <<proto, refCount, running>>
        /\ drifted' = (drifted \/ call[c].new = "tftp")
        BY <1>6 DEF CreateAborted, InCall, EndCall
  <2>2. drifted' \in BOOLEAN /\ (drifted' = FALSE => drifted = FALSE /\ call[c].new # "tftp") BY <1>0, <2>1
  <2>3. ASSUME Moved(c, NoCall) PROVE CountFollows'
    <3>1. CASE drifted' = FALSE
      <4>1. ~OwesUp(call[c]) BY <2>2, <3>1 DEF OwesUp
      <4> QED BY <1>2, <2>1, <2>2, <2>3, <4>1, NoCallTyped, CountStays
    <3>2. CASE drifted' # FALSE BY <3>2 DEF CountFollows
    <3> QED BY <3>1, <3>2
  <2> QED BY <1>0, <1>3, <2>1, <2>2, <2>3, NoCallTyped
<1> QED BY <1>4, <1>5, <1>6

\* An update that changes the protocol owes the deletion of the old one and the creation of
\* the new one; a delete owes a deletion once the row has gone.
LEMMA UpdatesAndDeletesKeep ==
  ASSUME TftpIInv, NEW c \in Calls,
         \/ \E p \in {"tftp", "other"} : UpdateDevice(c, p)
         \/ DeleteDevice(c) \/ CloseDeleted(c)
  PROVE  TftpIInv'
<1> USE DEF TftpIInv
<1>0. /\ call \in [Calls -> CallRecord] /\ call[c] \in CallRecord /\ proto \in [Devices -> Protocols]
      /\ refCount \in Nat /\ running \in BOOLEAN /\ drifted \in BOOLEAN /\ strayed = FALSE
      /\ windows \subseteq Devices /\ outlived \subseteq Devices
      BY DEF TftpTypeOK, WindowsOK
<1>1. UNCHANGED <<refCount, running, strayed>> BY DEF UpdateDevice, DeleteDevice, CloseDeleted
<1>2. PICK d \in Devices : d = call[c].device
      BY DEF UpdateDevice, DeleteDevice, CloseDeleted, InCall, CallsOK
<1>3. /\ call[c].op # "open" BY DEF CallsOK, UpdateDevice, DeleteDevice, CloseDeleted, InCall
<1>4. ~OwesUp(call[c]) BY DEF OwesUp, UpdateDevice, DeleteDevice, CloseDeleted, InCall
\* Nothing happens to a row that has gone.
<1>5. ASSUME call[c].pc \in {"update", "delete"}, call' = [call EXCEPT ![c] = NoCall],
             UNCHANGED <<proto, drifted, outlived, windows>>
      PROVE  TftpIInv'
  <2>1. call' \in [Calls -> CallRecord] /\ CallsOK' /\ Moved(c, NoCall) BY <1>5, NoCallTyped, CallMoves
  <2>2. ~OwesDown(call[c]) BY <1>5 DEF OwesDown
  <2>3. CountFollows' BY <1>1, <1>4, <1>5, <2>1, <2>2, NoCallTyped, CountStays
  <2>4. /\ windows' \subseteq Devices /\ outlived \subseteq outlived' /\ strayed' = FALSE /\ call[c].pc # "closeWindow"
        /\ \A e \in windows' : e \in windows
        BY <1>0, <1>1, <1>5
  <2>5. OpenersOK' /\ WindowsOK' BY <1>5, <2>1, <2>4, NoCallTyped, WindowsKept
  <2>6. TftpTypeOK' BY <1>1, <1>5, <2>1 DEF TftpTypeOK
  <2> QED BY <2>1, <2>3, <2>5, <2>6
\* The row becomes p and the request goes on as f, which owes the difference.
<1>6. ASSUME NEW f \in CallRecord, call' = [call EXCEPT ![c] = f], f.device = d, f.op # "open",
             NEW p \in Protocols, proto' = [proto EXCEPT ![d] = p], proto[d] # "gone",
             drifted' = (drifted \/ call[c].was # proto[d]), ~OwesDown(call[c]), f.was = call[c].was,
             One(OwesUp(f)) + One(f.was = "tftp") = One(p = "tftp") + One(OwesDown(f)),
             windows' = windows, outlived' \subseteq Devices, outlived \subseteq outlived', call[c].pc # "closeWindow",
             p = "gone" => f.pc = "closeWindow" /\ (Opening(d) => d \in outlived')
      PROVE  TftpIInv'
  <2>1. call' \in [Calls -> CallRecord] /\ CallsOK' /\ Moved(c, f) BY <1>6, CallMoves
  <2>2. drifted' \in BOOLEAN /\ (drifted' = FALSE => drifted = FALSE /\ call[c].was = proto[d]) BY <1>0, <1>6
  <2>3. CountFollows'
    <3> SUFFICES ASSUME drifted' = FALSE PROVE Balance' /\ (running = TRUE <=> refCount > 0)
        BY <1>1 DEF CountFollows
    <3>1. Balance /\ (running = TRUE <=> refCount > 0) /\ f.was = proto[d] BY <1>6, <2>2 DEF CountFollows
    <3>2. PICK t, t2, k, m \in Nat : /\ Cardinality(TftpRows) = t /\ Cardinality(TftpRows)' = t2
                                     /\ k = One(p = "tftp") /\ refCount = m
          BY <1>0, <1>6, RowsMove DEF One
    <3>3. PICK g, u, v \in Nat : One(proto[d] = "tftp") = g /\ One(OwesUp(f)) = u /\ One(OwesDown(f)) = v BY DEF One
    <3>4. t2 + g = t + k BY <1>0, <1>6, <3>2, <3>3, RowsMove
    <3>5. u + g = k + v
      <4>1. One(f.was = "tftp") = g BY <3>1, <3>3
      <4> QED BY <1>6, <3>2, <3>3, <4>1
    <3>6. One(OwesUp(call[c])) = 0 /\ One(OwesDown(call[c])) = 0 BY <1>4, <1>6 DEF One
    <3>7. m + u + 0 + t = m + 0 + v + t2 BY <3>4, <3>5
    <3>8. refCount' + One(OwesUp(f)) + One(OwesDown(call[c])) + t
            = refCount + One(OwesUp(call[c])) + One(OwesDown(f)) + t2 BY <1>1, <3>2, <3>3, <3>6, <3>7
    <3> QED BY <1>0, <1>1, <2>1, <3>1, <3>2, <3>8, BalanceKept
  <2>4. proto' \in [Devices -> Protocols] /\ proto'[d] = p /\ \A e \in Devices \ {d} : proto'[e] = proto[e] BY <1>0, <1>6
  <2>5. \A e \in Devices : proto'[e] = "gone" /\ proto[e] # "gone" =>
            f.pc = "closeWindow" /\ f.device = e /\ (Opening(e) => e \in outlived')
        BY <1>6, <2>4
  <2>6. windows' \subseteq Devices /\ strayed' = FALSE /\ \A e \in windows' : e \in windows BY <1>0, <1>1, <1>6
  <2>7. OpenersOK' /\ WindowsOK' BY <1>6, <2>1, <2>5, <2>6, WindowsKept
  <2>8. TftpTypeOK' BY <1>1, <1>6, <2>1, <2>2, <2>4 DEF TftpTypeOK
  <2> QED BY <2>1, <2>3, <2>7, <2>8
<1>7. ASSUME NEW p \in {"tftp", "other"}, UpdateDevice(c, p) PROVE TftpIInv'
  <2>0. call[c].pc = "update" /\ UNCHANGED <<windows, outlived>> BY <1>7 DEF UpdateDevice, InCall
  <2>1. CASE proto[d] = "gone"
    <3>1. call' = [call EXCEPT ![c] = NoCall] /\ UNCHANGED <<proto, drifted>>
          BY <1>2, <1>7, <2>1 DEF UpdateDevice, EndCall
    <3> QED BY <1>5, <2>0, <3>1
  <2>2. CASE proto[d] # "gone"
    <3>1. PICK f : f = [call[c] EXCEPT !.pc = "updated", !.new = p] OBVIOUS
    <3>2. /\ f \in CallRecord /\ f.pc = "updated" /\ f.new = p /\ f.was = call[c].was /\ f.device = d
          /\ f.op = call[c].op
          BY <1>0, <1>2, <3>1 DEF CallRecord, CallSteps, Protocols
    <3>3. /\ call' = [call EXCEPT ![c] = f] /\ proto' = [proto EXCEPT ![d] = p]
          /\ drifted' = (drifted \/ call[c].was # proto[d])
          BY <1>0, <1>2, <1>7, <2>2, <3>1 DEF UpdateDevice
    <3>4. p \in Protocols /\ p # "gone" /\ ~OwesDown(call[c]) BY <2>0 DEF Protocols, OwesDown
    <3>5. One(OwesUp(f)) + One(f.was = "tftp") = One(p = "tftp") + One(OwesDown(f))
          BY <3>2 DEF One, OwesUp, OwesDown
    <3>6. outlived' \subseteq Devices /\ outlived \subseteq outlived' BY <1>0, <2>0
    <3> QED BY <1>3, <1>6, <2>0, <2>2, <3>2, <3>3, <3>4, <3>5, <3>6
  <2> QED BY <2>1, <2>2
<1>8. CASE DeleteDevice(c)
  <2>0. call[c].pc = "delete" /\ windows' = windows BY <1>8 DEF DeleteDevice, InCall
  <2>1. CASE proto[d] = "gone"
    <3>1. call' = [call EXCEPT ![c] = NoCall] /\ UNCHANGED <<proto, drifted, outlived>>
          BY <1>2, <1>8, <2>1 DEF DeleteDevice, EndCall
    <3> QED BY <1>5, <2>0, <3>1
  <2>2. CASE proto[d] # "gone"
    <3>1. PICK f : f = [call[c] EXCEPT !.pc = "closeWindow"] OBVIOUS
    <3>2. /\ f \in CallRecord /\ f.pc = "closeWindow" /\ f.was = call[c].was /\ f.device = d
          /\ f.op = call[c].op
          BY <1>0, <1>2, <3>1 DEF CallRecord, CallSteps
    <3>3. /\ call' = [call EXCEPT ![c] = f] /\ proto' = [proto EXCEPT ![d] = "gone"]
          /\ drifted' = (drifted \/ call[c].was # proto[d])
          /\ outlived' = IF Opening(d) THEN outlived \cup {d} ELSE outlived
          BY <1>0, <1>2, <1>8, <2>2, <3>1 DEF DeleteDevice, CallTo
    <3>4. "gone" \in Protocols /\ ~OwesDown(call[c]) BY <2>0 DEF Protocols, OwesDown
    <3>5. One(OwesUp(f)) + One(f.was = "tftp") = One("gone" = "tftp") + One(OwesDown(f))
          BY <3>2 DEF One, OwesUp, OwesDown
    <3>6. outlived' \subseteq Devices /\ outlived \subseteq outlived' /\ (Opening(d) => d \in outlived') BY <1>0, <3>3
    <3> QED BY <1>3, <1>6, <2>0, <2>2, <3>2, <3>3, <3>4, <3>5, <3>6
  <2> QED BY <2>1, <2>2
<1>9. CASE CloseDeleted(c)
  <2>1. PICK f : f = [call[c] EXCEPT !.pc = "deleted"] OBVIOUS
  <2>2. /\ call[c].pc = "closeWindow" /\ call' = [call EXCEPT ![c] = f] /\ windows' = windows \ {call[c].device}
        /\ UNCHANGED <<proto, drifted, outlived>>
        BY <1>0, <1>9, <2>1 DEF CloseDeleted, InCall, CallTo
  <2>3. /\ f \in CallRecord /\ f.pc = "deleted" /\ f.was = call[c].was /\ f.device = d
        /\ f.op = call[c].op
        BY <1>0, <1>2, <2>1 DEF CallRecord, CallSteps
  <2>4. call' \in [Calls -> CallRecord] /\ CallsOK' /\ Moved(c, f) BY <1>3, <2>2, <2>3, CallMoves
  <2>5. ~OwesUp(f) /\ (OwesDown(f) <=> OwesDown(call[c])) BY <2>2, <2>3 DEF OwesUp, OwesDown
  <2>6. CountFollows' BY <1>1, <1>4, <2>2, <2>4, <2>5, CountStays
  <2>7. /\ windows' \subseteq Devices /\ outlived \subseteq outlived' /\ strayed' = FALSE /\ call[c].device \notin windows'
        /\ \A e \in windows' : e \in windows
        BY <1>0, <1>1, <2>2
  <2>8. OpenersOK' /\ WindowsOK' BY <1>3, <2>2, <2>3, <2>4, <2>7, WindowsKept
  <2>9. TftpTypeOK' BY <1>0, <1>1, <2>2, <2>4, <2>7 DEF TftpTypeOK
  <2> QED BY <2>4, <2>6, <2>8, <2>9
<1> QED BY <1>7, <1>8, <1>9

\* A deletion is told: the count goes down, and at nought the server stops with its windows.
LEMMA DeletionsToldKeep ==
  ASSUME TftpIInv, NEW c \in Calls, ToldUpdated(c) \/ ToldDeleted(c)
  PROVE  TftpIInv'
<1> USE DEF TftpIInv
<1>0. /\ call \in [Calls -> CallRecord] /\ call[c] \in CallRecord /\ proto \in [Devices -> Protocols]
      /\ refCount \in Nat /\ running \in BOOLEAN /\ drifted \in BOOLEAN /\ strayed = FALSE
      /\ windows \subseteq Devices /\ outlived \subseteq Devices
      BY DEF TftpTypeOK, WindowsOK
<1>1. UNCHANGED <<proto, outlived, strayed>> BY DEF ToldUpdated, ToldDeleted
<1>2. call[c].pc \in {"updated", "deleted"} /\ call[c].device \in Devices /\ call[c].op # "open"
      BY DEF ToldUpdated, ToldDeleted, InCall, CallsOK
<1>3. ASSUME NEW f \in CallRecord, f.pc # "idle" => f.device \in Devices, f.op # "open", f.pc # "closeWindow",
             call' = [call EXCEPT ![c] = f] \/ call' = Orphaned([call EXCEPT ![c] = f]),
             windows' \subseteq windows, refCount' \in Nat, running' \in BOOLEAN, drifted' \in BOOLEAN,
             Moved(c, f) => CountFollows'
      PROVE  TftpIInv'
  <2>1. call' \in [Calls -> CallRecord] /\ CallsOK' /\ Moved(c, f) BY <1>3, CallMoves
  <2>2. /\ windows' \subseteq Devices /\ outlived \subseteq outlived' /\ strayed' = FALSE /\ call[c].pc # "closeWindow"
        /\ \A e \in windows' : e \in windows
        BY <1>0, <1>1, <1>2, <1>3
  <2>3. OpenersOK' /\ WindowsOK' BY <1>1, <1>3, <2>1, <2>2, WindowsKept
  <2>4. TftpTypeOK' BY <1>0, <1>1, <1>3, <2>1, <2>2 DEF TftpTypeOK
  <2> QED BY <1>3, <2>1, <2>3, <2>4
\* NotifyTargetDeleted, of a request that goes on as f.
<1>4. ASSUME NEW f \in CallRecord, NotifyTargetDeleted(call[c].was, [call EXCEPT ![c] = f]),
             f.pc # "idle" => f.device \in Devices, f.op # "open", f.pc # "closeWindow",
             OwesUp(f) <=> OwesUp(call[c]), ~OwesDown(f), OwesDown(call[c]) <=> call[c].was = "tftp"
      PROVE  TftpIInv'
  <2>1. CASE call[c].was # "tftp"
    <3>1. call' = [call EXCEPT ![c] = f] /\ UNCHANGED <<refCount, running, windows, drifted>>
          BY <1>4, <2>1 DEF NotifyTargetDeleted
    <3>2. Moved(c, f) => CountFollows' BY <1>1, <1>4, <2>1, <3>1, CountStays
    <3> QED BY <1>0, <1>3, <1>4, <3>1, <3>2
  <2>2. CASE call[c].was = "tftp"
    <3>1. PICK n \in Nat : n = IF refCount > 0 THEN refCount - 1 ELSE 0 BY <1>0
    <3>2. /\ refCount' = n /\ drifted' = (drifted \/ refCount = 0) /\ running' = (running /\ n > 0)
          /\ windows' = IF n > 0 THEN windows ELSE {}
          /\ call' = IF n > 0 THEN [call EXCEPT ![c] = f] ELSE Orphaned([call EXCEPT ![c] = f])
          BY <1>4, <2>2, <3>1 DEF NotifyTargetDeleted
    <3>3. refCount' \in Nat /\ running' \in BOOLEAN /\ drifted' \in BOOLEAN
      <4>1. refCount' \in Nat BY <3>2
      <4>2. running' \in BOOLEAN BY <3>2, Zenon
      <4>3. drifted' \in BOOLEAN BY <3>2, Zenon
      <4> QED BY <4>1, <4>2, <4>3
    <3>4. windows' \subseteq windows BY <3>2
    <3>5. call' = [call EXCEPT ![c] = f] \/ call' = Orphaned([call EXCEPT ![c] = f]) BY <3>2
    <3>6. ASSUME Moved(c, f) PROVE CountFollows'
      <4> SUFFICES ASSUME drifted' = FALSE PROVE Balance' /\ (running' = TRUE <=> refCount' > 0)
          BY DEF CountFollows
      <4>1. drifted = FALSE /\ refCount > 0
        <5>1. drifted' = (drifted \/ refCount = 0) BY <3>2
        <5>2. drifted = FALSE BY <1>0, <5>1
        <5>3. refCount # 0 BY <5>1
        <5> QED BY <1>0, <5>2, <5>3
      <4>2. Balance /\ running = TRUE BY <4>1 DEF CountFollows
      <4>3. PICK t, m \in Nat : Cardinality(TftpRows) = t /\ refCount = m BY <1>0, RowsCounted
      <4>4. Cardinality(TftpRows)' = t BY <1>1, <4>3 DEF TftpRows
      <4>5. PICK u \in Nat : One(OwesUp(f)) = u /\ One(OwesUp(call[c])) = u BY <1>4 DEF One
      <4>6. One(OwesDown(f)) = 0 /\ One(OwesDown(call[c])) = 1 BY <1>4, <2>2 DEF One
      <4>7. n + 1 = m BY <3>1, <4>1, <4>3
      <4>8. refCount' + One(OwesUp(f)) + One(OwesDown(call[c])) + t
              = refCount + One(OwesUp(call[c])) + One(OwesDown(f)) + t BY <3>2, <4>3, <4>5, <4>6, <4>7
      <4>9. Balance' BY <3>3, <3>6, <4>2, <4>3, <4>4, <4>8, BalanceKept
      <4>10. running' = TRUE <=> refCount' > 0 BY <3>2, <4>2
      <4> QED BY <4>9, <4>10
    <3> QED BY <1>3, <1>4, <3>3, <3>4, <3>5, <3>6
  <2> QED BY <2>1, <2>2
<1>5. CASE ToldUpdated(c)
  <2>1. call[c].pc = "updated" BY <1>5 DEF ToldUpdated, InCall
  <2>2. CASE call[c].was = call[c].new
    <3>1. call' = [call EXCEPT ![c] = NoCall] /\ UNCHANGED <<refCount, running, windows, drifted>>
          BY <1>5, <2>2 DEF ToldUpdated, EndCall
    <3>2. ~OwesUp(call[c]) /\ ~OwesDown(call[c]) BY <2>1, <2>2 DEF OwesUp, OwesDown
    <3>3. Moved(c, NoCall) => CountFollows' BY <1>1, <3>1, <3>2, NoCallTyped, CountStays
    <3> QED BY <1>0, <1>3, <3>1, <3>3, NoCallTyped
  <2>3. CASE call[c].was # call[c].new
    <3>1. PICK f : f = [call[c] EXCEPT !.pc = "created"] OBVIOUS
    <3>2. /\ f \in CallRecord /\ f.pc = "created" /\ f.new = call[c].new /\ f.device = call[c].device /\ f.op = call[c].op
          BY <1>0, <3>1 DEF CallRecord, CallSteps
    <3>3. NotifyTargetDeleted(call[c].was, [call EXCEPT ![c] = f])
      <4>1. [call EXCEPT ![c].pc = "created"] = [call EXCEPT ![c] = f] BY <1>0, <3>1
      <4>2. NotifyTargetDeleted(call[c].was, [call EXCEPT ![c].pc = "created"]) BY <1>5, <2>3 DEF ToldUpdated
      <4> QED BY <4>1, <4>2
    <3>4. /\ OwesUp(f) <=> OwesUp(call[c])
          /\ ~OwesDown(f)
          /\ OwesDown(call[c]) <=> call[c].was = "tftp"
          BY <2>1, <2>3, <3>2 DEF OwesUp, OwesDown
    <3> QED BY <1>2, <1>4, <3>2, <3>3, <3>4
  <2> QED BY <2>2, <2>3
<1>6. CASE ToldDeleted(c)
  <2>1. call[c].pc = "deleted" /\ NotifyTargetDeleted(call[c].was, [call EXCEPT ![c] = NoCall])
        BY <1>6 DEF ToldDeleted, InCall
  <2>2. ~OwesUp(call[c]) /\ (OwesDown(call[c]) <=> call[c].was = "tftp") BY <2>1 DEF OwesUp, OwesDown
  <2> QED BY <1>4, <2>1, <2>2, NoCallTyped
<1> QED BY <1>5, <1>6

\* A window whose time is up, and an import, which the count does not follow.
LEMMA ExpiriesAndImportsKeep ==
  ASSUME TftpIInv, NEW d \in Devices, ExpireWindow(d) \/ \E p \in {"tftp", "other"} : ImportDevice(d, p)
  PROVE  TftpIInv'
<1> USE DEF TftpIInv
<1>0. proto \in [Devices -> Protocols] /\ refCount \in Nat /\ drifted \in BOOLEAN BY DEF TftpTypeOK
<1>1. UNCHANGED <<call, refCount, running, outlived, strayed>> BY DEF ExpireWindow, ImportDevice
<1>2. CallsOK' BY <1>1 DEF CallsOK
<1>3. (Cardinality(Ups) = Cardinality(Ups)') /\ (Cardinality(Downs) = Cardinality(Downs)') /\ \A e : Deleting(e)' <=> Deleting(e)
      BY <1>1 DEF Ups, Downs, Deleting, InCall, OwesUp, OwesDown
<1>4. CASE ExpireWindow(d)
  <2>1. windows' = windows \ {d} /\ UNCHANGED <<proto, drifted>> BY <1>4 DEF ExpireWindow
  <2>2. TftpTypeOK' BY <1>1, <2>1 DEF TftpTypeOK
  <2>3. OpenersOK' BY <1>1, <2>1 DEF OpenersOK
  <2>4. WindowsOK' BY <1>1, <1>3, <2>1 DEF WindowsOK
  <2>5. CountFollows' BY <1>1, <1>3, <2>1 DEF CountFollows, Balance, TftpRows
  <2> QED BY <1>2, <2>2, <2>3, <2>4, <2>5
<1>5. ASSUME NEW p \in {"tftp", "other"}, ImportDevice(d, p) PROVE TftpIInv'
  <2>1. /\ proto' = [proto EXCEPT ![d] = p] /\ drifted' = (drifted \/ p = "tftp") /\ windows' = windows /\ proto[d] = "gone"
        BY <1>5 DEF ImportDevice
  <2>2. /\ proto' \in [Devices -> Protocols] /\ proto'[d] = p /\ \A e \in Devices \ {d} : proto'[e] = proto[e]
        BY <1>0, <2>1 DEF Protocols
  <2>3. drifted' \in BOOLEAN /\ (drifted' = FALSE => drifted = FALSE /\ p # "tftp") BY <1>0, <2>1
  <2>4. TftpTypeOK' BY <1>1, <2>1, <2>2, <2>3 DEF TftpTypeOK
  <2>5. \A e \in Devices : proto'[e] = "gone" => proto[e] = "gone" BY <2>1, <2>2
  <2>6. OpenersOK'
    <3>1. \A c \in Calls : call[c].op = "open" => call[c].device \in Devices BY DEF CallsOK
    <3> QED BY <1>1, <2>5, <3>1 DEF OpenersOK
  <2>7. WindowsOK'
    <3>1. windows \subseteq Devices BY DEF TftpTypeOK
    <3> QED BY <1>1, <1>3, <2>1, <2>5, <3>1 DEF WindowsOK
  <2>8. CountFollows'
    <3> SUFFICES ASSUME drifted' = FALSE PROVE Balance' /\ (running = TRUE <=> refCount > 0)
        BY <1>1 DEF CountFollows
    <3>1. TftpRows' = TftpRows BY <2>1, <2>2, <2>3 DEF TftpRows
    <3> QED BY <1>1, <1>3, <2>3, <3>1 DEF CountFollows, Balance
  <2> QED BY <1>2, <2>4, <2>6, <2>7, <2>8
<1> QED BY <1>4, <1>5

\* A delete that had not read the row: the count drifts if it was a TFTP target, and the
\* window it leaves, or whoever opens one, is marked.
LEMMA UnreadDeletesKeep ==
  ASSUME TftpIInv, NEW d \in Devices, DeleteUnread(d)
  PROVE  TftpIInv'
<1> USE DEF TftpIInv
<1>0. /\ proto \in [Devices -> Protocols] /\ refCount \in Nat /\ drifted \in BOOLEAN
      /\ outlived \subseteq Devices /\ windows \subseteq Devices
      BY DEF TftpTypeOK
<1>1. UNCHANGED <<call, refCount, running, windows, strayed>> BY DEF DeleteUnread
<1>2. CallsOK' BY <1>1 DEF CallsOK
<1>3. (Cardinality(Ups) = Cardinality(Ups)') /\ (Cardinality(Downs) = Cardinality(Downs)') /\ \A e : Deleting(e)' <=> Deleting(e)
      BY <1>1 DEF Ups, Downs, Deleting, InCall, OwesUp, OwesDown
<1>4. /\ proto' = [proto EXCEPT ![d] = "gone"] /\ drifted' = (drifted \/ proto[d] = "tftp")
      /\ outlived' = IF d \in windows \/ Opening(d) THEN outlived \cup {d} ELSE outlived
      BY DEF DeleteUnread
<1>5. /\ proto' \in [Devices -> Protocols] /\ proto'[d] = "gone" /\ \A e \in Devices \ {d} : proto'[e] = proto[e]
      BY <1>0, <1>4 DEF Protocols
<1>6. drifted' \in BOOLEAN /\ (drifted' = FALSE => drifted = FALSE /\ proto[d] # "tftp") BY <1>0, <1>4
<1>7. outlived \subseteq outlived' /\ outlived' \subseteq Devices /\ (d \in windows => d \in outlived')
      /\ (Opening(d) => d \in outlived')
      BY <1>0, <1>4
<1>8. TftpTypeOK' BY <1>1, <1>5, <1>6, <1>7 DEF TftpTypeOK
<1>9. OpenersOK'
  <2> SUFFICES ASSUME NEW c \in Calls, call[c].op = "open"
               PROVE  proto'[call[c].device] # "gone" \/ call[c].device \in outlived'
      BY <1>1 DEF OpenersOK
  <2>1. call[c].device \in Devices /\ call[c].pc # "idle" BY DEF CallsOK
  <2>2. CASE call[c].device = d
    <3>1. Opening(d) BY <2>1, <2>2 DEF Opening
    <3> QED BY <1>7, <2>2, <3>1
  <2>3. CASE call[c].device # d BY <1>5, <1>7, <2>1, <2>3 DEF OpenersOK
  <2> QED BY <2>2, <2>3
<1>10. WindowsOK'
  <2> SUFFICES ASSUME NEW e \in windows, proto'[e] = "gone" PROVE e \in outlived' \/ Deleting(e)
      BY <1>1, <1>3 DEF WindowsOK
  <2>1. CASE e = d BY <1>7, <2>1
  <2>2. CASE e # d BY <1>0, <1>5, <1>7, <2>2 DEF WindowsOK
  <2> QED BY <2>1, <2>2
<1>11. CountFollows'
  <2> SUFFICES ASSUME drifted' = FALSE PROVE Balance' /\ (running = TRUE <=> refCount > 0)
      BY <1>1 DEF CountFollows
  <2>1. TftpRows' = TftpRows BY <1>5, <1>6 DEF TftpRows
  <2> QED BY <1>1, <1>3, <1>6, <2>1 DEF CountFollows, Balance
<1> QED BY <1>2, <1>8, <1>9, <1>10, <1>11

\* The server runs exactly while a target wants it, and a deleted target takes no more
\* writes, for any number of targets and requests (TftpSound).
THEOREM TftpIsSound == TftpSpec => []TftpSound
<1>1. TftpIInv /\ [TftpNext]_tftpVars => TftpIInv'
  <2> SUFFICES ASSUME TftpIInv, [TftpNext]_tftpVars PROVE TftpIInv'
      OBVIOUS
  <2>1. CASE UNCHANGED tftpVars
        BY <2>1 DEF tftpVars, TftpIInv, TftpTypeOK, CallsOK, CountFollows, Balance, Ups, Downs, OwesUp, OwesDown, TftpRows,
                    OpenersOK, WindowsOK, Deleting, InCall
  <2>2. CASE TftpNext
        BY <2>2, WindowStepsKeep, CreationsKeep, UpdatesAndDeletesKeep, DeletionsToldKeep, ExpiriesAndImportsKeep,
           UnreadDeletesKeep, TftpRestartKeeps, TftpUnservedKeeps DEF TftpNext
  <2> QED BY <2>1, <2>2
<1>2. TftpIInv => TftpSound
  <2> SUFFICES ASSUME TftpIInv PROVE TftpSound
      OBVIOUS
  <2>1. RefCountExact
    <3> SUFFICES ASSUME \A c \in Calls : InCall(c, "idle"), ~drifted
                 PROVE  refCount = Cardinality(TftpRows) /\ (running <=> refCount > 0)
        BY DEF RefCountExact
    <3>1. Ups = {} /\ Downs = {} BY DEF InCall, Ups, Downs, OwesUp, OwesDown
    <3>2. Cardinality(Ups) = 0 /\ Cardinality(Downs) = 0 BY <3>1, FS_EmptySet
    <3>3. drifted = FALSE /\ refCount \in Nat /\ running \in BOOLEAN BY DEF TftpIInv, TftpTypeOK
    <3>4. Balance /\ (running = TRUE <=> refCount > 0) BY <3>3 DEF TftpIInv, CountFollows
    <3>5. refCount = Cardinality(TftpRows) BY <3>2, <3>3, <3>4, RowsCounted DEF Balance
    <3> QED BY <3>3, <3>4, <3>5
  <2>2. DeletedTakesNoWrites BY DEF TftpIInv, WindowsOK, DeletedTakesNoWrites
  <2> QED BY <2>1, <2>2 DEF TftpSound
<1> QED BY <1>1, <1>2, TftpStart, PTL DEF TftpSpec

--------------------------------------------------------------------------------
(* Webhook deliveries (Webhooks).                                            *)

HookConfigs == [Endpoints -> HookSecrets \cup {"absent", "none"}]
PutRecord == [pc : {"idle", "save", "apply"}, cfg : HookConfigs]
PostRecord == [ep : Endpoints \cup {"none"}, attempt : Nat]
TallyRecord == [sent : Nat, failed : Nat, dropped : Nat]

HooksTypeOK ==
  /\ hooks \in HookConfigs /\ savedHooks \in HookConfigs
  /\ put \in [PutCalls -> PutRecord]
  /\ offer \subseteq Endpoints
  /\ hookQueue \in Seq(Endpoints)
  /\ posting \in [Posters -> PostRecord]
  /\ tally \in [Endpoints -> TallyRecord]
  /\ offered \in [Endpoints -> Nat]
  /\ putsRaced \in BOOLEAN /\ rowed \in BOOLEAN /\ loadFailed \in BOOLEAN

\* A worker that delivers, delivers to an endpoint.
PostersOK == \A w \in Posters : posting[w] # IdleWorker => posting[w].ep \in Endpoints

\* Without a race, the PUT between the row and the dispatcher is the one that wrote the
\* row, and there is no other; without such a PUT the dispatcher runs what a start finds,
\* unless the last start could not read the row.
PutsInOrder == putsRaced = FALSE =>
  /\ \A r \in PutCalls : put[r].pc = "apply" =>
       rowed = TRUE /\ put[r].cfg = savedHooks /\ \A q \in PutCalls : put[q].pc = "apply" => q = r
  /\ (\A r \in PutCalls : put[r].pc # "apply") => loadFailed = TRUE \/ hooks = ToLoad

HooksIInv == HooksTypeOK /\ PostersOK /\ PutsInOrder /\ Accounted

\* The places of a queue that hold e.
Places(q, e) == {k \in DOMAIN q : q[k] = e}

\* They are finitely many.
LEMMA PlacesFinite ==
  ASSUME NEW S, NEW q \in Seq(S), NEW e
  PROVE  IsFiniteSet(Places(q, e)) /\ Cardinality(Places(q, e)) \in Nat
<1>1. DOMAIN q = 1 .. Len(q) /\ Len(q) \in Nat OBVIOUS
<1>2. IsFiniteSet(1 .. Len(q)) BY <1>1, FS_Interval
<1>3. Places(q, e) \subseteq 1 .. Len(q) BY <1>1 DEF Places
<1> QED BY <1>2, <1>3, FS_Subset, FS_CardinalityType

\* A delivery queued takes one place.
LEMMA PlacesOfAppend ==
  ASSUME NEW S, NEW q \in Seq(S), NEW x \in S, NEW e
  PROVE  Cardinality(Places(Append(q, x), e)) = Cardinality(Places(q, e)) + (IF x = e THEN 1 ELSE 0)
<1>1. DOMAIN q = 1 .. Len(q) /\ Len(q) \in Nat OBVIOUS
<1>2. /\ DOMAIN Append(q, x) = 1 .. Len(q) + 1 /\ Append(q, x)[Len(q) + 1] = x
      /\ \A k \in 1 .. Len(q) : Append(q, x)[k] = q[k]
      OBVIOUS
<1>3. IsFiniteSet(Places(q, e)) /\ Cardinality(Places(q, e)) \in Nat BY PlacesFinite
<1>4. CASE x = e
  <2>1. Places(Append(q, x), e) = Places(q, e) \cup {Len(q) + 1} BY <1>1, <1>2, <1>4 DEF Places
  <2>2. Len(q) + 1 \notin Places(q, e) BY <1>1 DEF Places
  <2> QED BY <1>3, <1>4, <2>1, <2>2, FS_AddElement
<1>5. CASE x # e
  <2>1. Places(Append(q, x), e) = Places(q, e) BY <1>1, <1>2, <1>5 DEF Places
  <2> QED BY <1>3, <1>5, <2>1
<1> QED BY <1>4, <1>5

\* A delivery taken frees one.
LEMMA PlacesOfTail ==
  ASSUME NEW S, NEW q \in Seq(S), q # << >>, NEW e
  PROVE  Cardinality(Places(q, e)) = Cardinality(Places(Tail(q), e)) + (IF Head(q) = e THEN 1 ELSE 0)
<1>1. DOMAIN q = 1 .. Len(q) /\ Len(q) \in Nat /\ Len(q) >= 1 /\ Head(q) = q[1] OBVIOUS
<1>2. /\ Tail(q) \in Seq(S) /\ DOMAIN Tail(q) = 1 .. Len(q) - 1
      /\ \A k \in 1 .. Len(q) - 1 : Tail(q)[k] = q[k + 1]
      BY <1>1
<1>3. PICK A : A = Places(Tail(q), e) OBVIOUS
<1>4. PICK B : B = Places(q, e) \ {1} OBVIOUS
<1>5. IsFiniteSet(A) /\ Cardinality(A) \in Nat BY <1>2, <1>3, PlacesFinite
<1>6. \A k : k \in A <=> k \in 1 .. Len(q) - 1 /\ q[k + 1] = e BY <1>2, <1>3 DEF Places
<1>7. \A k : k \in B <=> k \in 2 .. Len(q) /\ q[k] = e BY <1>1, <1>4 DEF Places
<1>8. Cardinality(B) = Cardinality(A) /\ IsFiniteSet(B)
  <2>1. PICK f : f = [k \in A |-> k + 1] OBVIOUS
  <2>2. \A k \in A : f[k] = k + 1 /\ k + 1 \in B BY <1>1, <1>6, <1>7, <2>1
  <2>3. f \in [A -> B] BY <2>1, <2>2
  <2>4. \A j, k \in A : f[j] = f[k] => j = k BY <1>6, <2>2
  <2>5. \A k \in B : \E j \in A : f[j] = k
    <3> SUFFICES ASSUME NEW k \in B PROVE \E j \in A : f[j] = k
        OBVIOUS
    <3>1. k - 1 \in 1 .. Len(q) - 1 /\ (k - 1) + 1 = k BY <1>1, <1>7
    <3>2. k - 1 \in A BY <1>6, <1>7, <3>1
    <3> QED BY <2>2, <3>1, <3>2
  <2>6. f \in Bijection(A, B) BY <2>3, <2>4, <2>5 DEF Bijection, Injection, Surjection, IsInjective
  <2>7. ExistsBijection(A, B) BY <2>6 DEF ExistsBijection
  <2> QED BY <1>5, <2>7, FS_Bijection
<1>9. CASE Head(q) = e
  <2>1. Places(q, e) = B \cup {1} /\ 1 \notin B BY <1>1, <1>4, <1>9 DEF Places
  <2> QED BY <1>3, <1>5, <1>8, <1>9, <2>1, FS_AddElement
<1>10. CASE Head(q) # e
  <2>1. Places(q, e) = B BY <1>1, <1>4, <1>10 DEF Places
  <2> QED BY <1>3, <1>5, <1>8, <1>10, <2>1
<1> QED BY <1>9, <1>10

\* The endpoints posted to, after one worker takes something up or gives it back.
LEMMA PostedMoves ==
  ASSUME HooksTypeOK, NEW w \in Posters, NEW f \in PostRecord, posting' = [posting EXCEPT ![w] = f], NEW e
  PROVE  /\ Posted(e) \in Nat /\ Posted(e)' \in Nat
         /\ Posted(e)' + (IF posting[w].ep = e THEN 1 ELSE 0) = Posted(e) + (IF f.ep = e THEN 1 ELSE 0)
<1>1. /\ posting \in [Posters -> PostRecord] /\ posting'[w] = f
      /\ \A v \in Posters \ {w} : posting'[v] = posting[v]
      BY DEF HooksTypeOK
<1>2. PICK A : A = {v \in Posters \ {w} : posting[v].ep = e} OBVIOUS
<1>3. IsFiniteSet(Posters) BY HooksAssumption, FS_Union DEF Posters
<1>4. IsFiniteSet(A) /\ Cardinality(A) \in Nat
  <2>1. A \subseteq Posters BY <1>2
  <2> QED BY <1>3, <2>1, FS_Subset, FS_CardinalityType
<1>5. w \notin A BY <1>2
<1>6. Cardinality(A \cup {w}) = Cardinality(A) + 1 BY <1>4, <1>5, FS_AddElement
<1>7. {v \in Posters : posting[v].ep = e} = IF posting[w].ep = e THEN A \cup {w} ELSE A BY <1>2
<1>8. {v \in Posters : posting'[v].ep = e} = IF f.ep = e THEN A \cup {w} ELSE A BY <1>1, <1>2
<1>9. Posted(e) = Cardinality(A) + (IF posting[w].ep = e THEN 1 ELSE 0)
  <2>1. CASE posting[w].ep = e
    <3>1. Posted(e) = Cardinality(A \cup {w}) BY <1>7, <2>1 DEF Posted
    <3> QED BY <1>6, <2>1, <3>1
  <2>2. CASE posting[w].ep # e
    <3>1. Posted(e) = Cardinality(A) BY <1>7, <2>2 DEF Posted
    <3> QED BY <1>4, <2>2, <3>1
  <2> QED BY <2>1, <2>2
<1>10. Posted(e)' = Cardinality(A) + (IF f.ep = e THEN 1 ELSE 0)
  <2>1. CASE f.ep = e
    <3>1. Posted(e)' = Cardinality(A \cup {w}) BY <1>8, <2>1 DEF Posted
    <3> QED BY <1>6, <2>1, <3>1
  <2>2. CASE f.ep # e
    <3>1. Posted(e)' = Cardinality(A) BY <1>8, <2>2 DEF Posted
    <3> QED BY <1>4, <2>2, <3>1
  <2> QED BY <2>1, <2>2
<1> QED BY <1>4, <1>9, <1>10

\* Nothing waits and nobody posts: every count is nought.
LEMMA NothingCounted ==
  ASSUME NEW e \in Endpoints,  hookQueue = << >>, \A w \in Posters : posting[w] = IdleWorker,
         offered[e] = 0, tally[e] = NoTally
  PROVE  offered[e] = tally[e].sent + tally[e].failed + tally[e].dropped + Queued(e) + Posted(e)
<1>1. {k \in DOMAIN hookQueue : hookQueue[k] = e} = {} OBVIOUS
<1>2. {w \in Posters : posting[w].ep = e} = {} BY HooksAssumption DEF IdleWorker
<1>3. Queued(e) = 0 /\ Posted(e) = 0 BY <1>1, <1>2, FS_EmptySet DEF Queued, Posted
<1> QED BY <1>3 DEF NoTally

\* The idle states have their types.
LEMMA IdleTypes ==
  /\ IdleWorker \in PostRecord /\ NoTally \in TallyRecord /\ IdlePut \in PutRecord /\ IdlePut.pc = "idle"
  /\ IdleWorker.ep = "none"
BY DEF IdleWorker, PostRecord, NoTally, TallyRecord, IdlePut, PutRecord, HookConfigs

\* At the first start there is no row, and the environment's list runs.
LEMMA HooksStart == HooksInit => HooksIInv
<1> SUFFICES ASSUME HooksInit PROVE HooksIInv
    OBVIOUS
<1>1. put \in [PutCalls -> PutRecord] /\ \A r \in PutCalls : put[r].pc = "idle" BY IdleTypes DEF HooksInit
<1>2. posting \in [Posters -> PostRecord] /\ \A w \in Posters : posting[w] = IdleWorker BY IdleTypes DEF HooksInit
<1>3. tally \in [Endpoints -> TallyRecord] /\ \A e \in Endpoints : tally[e] = NoTally /\ offered[e] = 0
      BY IdleTypes DEF HooksInit
<1>4. hooks \in HookConfigs /\ savedHooks \in HookConfigs /\ hooks = ToLoad
      BY HooksAssumption DEF HooksInit, HookConfigs, ToLoad
<1>5. /\ offer = {} /\ hookQueue = << >> /\ putsRaced = FALSE /\ offered \in [Endpoints -> Nat]
      /\ rowed = FALSE /\ loadFailed = FALSE
      BY DEF HooksInit
<1>6. HooksTypeOK
  <2>1. offer \subseteq Endpoints BY <1>5
  <2>2. hookQueue \in Seq(Endpoints) BY <1>5
  <2>3. putsRaced \in BOOLEAN /\ rowed \in BOOLEAN /\ loadFailed \in BOOLEAN BY <1>5
  <2> QED BY <1>1, <1>2, <1>3, <1>4, <1>5, <2>1, <2>2, <2>3 DEF HooksTypeOK
<1>7. PostersOK BY <1>2 DEF PostersOK
<1>8. PutsInOrder BY <1>1, <1>4 DEF PutsInOrder
<1>9. Accounted BY <1>2, <1>3, <1>5, NothingCounted DEF Accounted
<1> QED BY <1>6, <1>7, <1>8, <1>9 DEF HooksIInv

\* A restart: memory is gone, and what runs is what the start found.
LEMMA RestartHooksKeeps == ASSUME HooksIInv, RestartHooks \/ RestartUnloaded PROVE HooksIInv'
<1> USE DEF HooksIInv
<1>f. ForgetHooks BY DEF RestartHooks, RestartUnloaded
<1>1. put' \in [PutCalls -> PutRecord] /\ \A r \in PutCalls : put'[r].pc = "idle" BY IdleTypes, <1>f DEF ForgetHooks
<1>2. posting' \in [Posters -> PostRecord] /\ \A w \in Posters : posting'[w] = IdleWorker BY IdleTypes, <1>f DEF ForgetHooks
<1>3. tally' \in [Endpoints -> TallyRecord] /\ \A e \in Endpoints : tally'[e] = NoTally /\ offered'[e] = 0
      BY IdleTypes, <1>f DEF ForgetHooks
<1>s. savedHooks' = savedHooks /\ rowed' = rowed /\ savedHooks \in HookConfigs /\ rowed \in BOOLEAN
      BY <1>f DEF ForgetHooks, HooksTypeOK
<1>4. /\ hooks' \in HookConfigs /\ loadFailed' \in BOOLEAN
      /\ loadFailed' = TRUE \/ hooks' = ToLoad'
  <2>1. CASE RestartHooks
    <3>1. hooks' = ToLoad /\ loadFailed' = FALSE BY <2>1 DEF RestartHooks
    <3>2. ToLoad' = ToLoad BY <1>s DEF ToLoad
    <3>3. ToLoad \in HookConfigs BY <1>s, HooksAssumption DEF ToLoad, HookConfigs
    <3> QED BY <3>1, <3>2, <3>3
  <2>2. CASE RestartUnloaded BY <2>2, HooksAssumption DEF RestartUnloaded, HookConfigs
  <2> QED BY <2>1, <2>2
<1>5. /\ offer' = {} /\ hookQueue' = << >> /\ putsRaced' = FALSE /\ offered' \in [Endpoints -> Nat]
      BY <1>f DEF ForgetHooks
<1>6. HooksTypeOK'
  <2>1. offer' \subseteq Endpoints BY <1>5
  <2>2. hookQueue' \in Seq(Endpoints) BY <1>5
  <2>3. putsRaced' \in BOOLEAN /\ rowed' \in BOOLEAN /\ loadFailed' \in BOOLEAN BY <1>4, <1>5, <1>s
  <2> QED BY <1>1, <1>2, <1>3, <1>4, <1>5, <1>s, <2>1, <2>2, <2>3 DEF HooksTypeOK
<1>7. PostersOK' BY <1>2 DEF PostersOK
<1>8. PutsInOrder' BY <1>1, <1>4 DEF PutsInOrder
<1>9. Accounted'
  <2> SUFFICES ASSUME NEW e \in Endpoints
               PROVE (offered[e] = tally[e].sent + tally[e].failed + tally[e].dropped + Queued(e) + Posted(e))'
      BY DEF Accounted
  <2>1. {k \in DOMAIN hookQueue' : hookQueue'[k] = e} = {} BY <1>5
  <2>2. {w \in Posters : posting'[w].ep = e} = {} BY <1>2, HooksAssumption, IdleTypes
  <2>3. Queued(e)' = 0 /\ Posted(e)' = 0 BY <2>1, <2>2, FS_EmptySet DEF Queued, Posted
  <2> QED BY <1>3, <2>3 DEF NoTally
<1> QED BY <1>6, <1>7, <1>8, <1>9

\* A PUT changes configurations only.
LEMMA PutsKeep ==
  ASSUME HooksIInv, NEW r \in PutCalls,
         \/ \E in \in [Endpoints -> HookSecrets \cup {"absent", "omitted"}] : ReadPut(r, in)
         \/ SavePut(r) \/ SaveFails(r) \/ ApplyPut(r)
  PROVE  HooksIInv'
<1> USE DEF HooksIInv
<1>0. /\ put \in [PutCalls -> PutRecord] /\ put[r] \in PutRecord /\ hooks \in HookConfigs /\ savedHooks \in HookConfigs
      /\ put[r].cfg \in HookConfigs
      BY DEF HooksTypeOK, PutRecord
<1>1. UNCHANGED <<offer, hookQueue, posting, tally, offered>> BY DEF ReadPut, SavePut, SaveFails, ApplyPut
<1>2. Accounted' /\ PostersOK' BY <1>1 DEF Accounted, Queued, Posted, PostersOK
<1>3. ASSUME put' \in [PutCalls -> PutRecord], hooks' \in HookConfigs, savedHooks' \in HookConfigs,
             putsRaced' \in BOOLEAN, rowed' \in BOOLEAN, loadFailed' \in BOOLEAN, PutsInOrder'
      PROVE  HooksIInv'
      BY <1>1, <1>2, <1>3 DEF HooksTypeOK
<1>m. ASSUME NEW f \in PutRecord, put' = [put EXCEPT ![r] = f]
      PROVE  put' \in [PutCalls -> PutRecord] /\ put'[r] = f /\ \A q \in PutCalls \ {r} : put'[q] = put[q]
      BY <1>0, <1>m
<1>b. putsRaced \in BOOLEAN /\ rowed \in BOOLEAN /\ loadFailed \in BOOLEAN BY DEF HooksTypeOK
<1>4. ASSUME NEW in \in [Endpoints -> HookSecrets \cup {"absent", "omitted"}], ReadPut(r, in) PROVE HooksIInv'
  <2>1. PICK c : c = [e \in Endpoints |-> IF in[e] = "omitted" THEN IF hooks[e] = "absent" THEN "none" ELSE hooks[e]
                                          ELSE in[e]] OBVIOUS
  <2>2. c \in HookConfigs BY <1>0, <2>1 DEF HookConfigs
  <2>3. PICK f : f = [pc |-> "save", cfg |-> c] OBVIOUS
  <2>4. f \in PutRecord /\ f.pc = "save" BY <2>2, <2>3 DEF PutRecord
  <2>5. put' = [put EXCEPT ![r] = f] /\ put[r].pc = "idle" /\ UNCHANGED <<hooks, savedHooks, rowed, loadFailed, putsRaced>>
        BY <1>4, <2>1, <2>3 DEF ReadPut, settings
  <2>6. put' \in [PutCalls -> PutRecord] /\ put'[r] = f /\ \A q \in PutCalls \ {r} : put'[q] = put[q]
        BY <1>m, <2>4, <2>5
  <2>7. PutsInOrder' BY <2>4, <2>5, <2>6 DEF PutsInOrder, ToLoad
  <2> QED BY <1>0, <1>3, <1>b, <2>5, <2>6, <2>7
<1>5. CASE SavePut(r)
  <2>1. PICK f : f = [put[r] EXCEPT !.pc = "apply"] OBVIOUS
  <2>2. f \in PutRecord /\ f.pc = "apply" /\ f.cfg = put[r].cfg BY <1>0, <2>1 DEF PutRecord
  <2>3. /\ put' = [put EXCEPT ![r] = f] /\ put[r].pc = "save" /\ hooks' = hooks /\ savedHooks' = put[r].cfg
        /\ rowed' = TRUE /\ loadFailed' = loadFailed
        /\ putsRaced' = \E q \in PutCalls : put[q].pc = "apply"
        BY <1>0, <1>5, <2>1 DEF SavePut
  <2>4. put' \in [PutCalls -> PutRecord] /\ put'[r] = f /\ \A q \in PutCalls \ {r} : put'[q] = put[q]
        BY <1>m, <2>2, <2>3
  <2>5. putsRaced' \in BOOLEAN BY <2>3
  <2>6. putsRaced' = FALSE => \A q \in PutCalls : put[q].pc # "apply" BY <2>3, Zenon
  <2>7. PutsInOrder' BY <2>2, <2>3, <2>4, <2>6 DEF PutsInOrder
  <2>8. savedHooks' \in HookConfigs /\ hooks' \in HookConfigs BY <1>0, <2>3
  <2> QED BY <1>3, <1>b, <2>3, <2>4, <2>5, <2>7, <2>8
<1>6. CASE SaveFails(r)
  <2>1. put' = [put EXCEPT ![r] = IdlePut] /\ put[r].pc = "save" /\ UNCHANGED <<hooks, savedHooks, rowed, loadFailed, putsRaced>>
        BY <1>6 DEF SaveFails, settings
  <2>2. put' \in [PutCalls -> PutRecord] /\ put'[r] = IdlePut /\ \A q \in PutCalls \ {r} : put'[q] = put[q]
        BY <1>m, <2>1, IdleTypes
  <2>3. PutsInOrder' BY <2>1, <2>2, IdleTypes DEF PutsInOrder, ToLoad
  <2> QED BY <1>0, <1>3, <1>b, <2>1, <2>2, <2>3
<1>7. CASE ApplyPut(r)
  <2>1. /\ put' = [put EXCEPT ![r] = IdlePut] /\ put[r].pc = "apply" /\ hooks' = put[r].cfg
        /\ loadFailed' = FALSE /\ UNCHANGED <<savedHooks, rowed, putsRaced>>
        BY <1>7 DEF ApplyPut
  <2>2. put' \in [PutCalls -> PutRecord] /\ put'[r] = IdlePut /\ \A q \in PutCalls \ {r} : put'[q] = put[q]
        BY <1>m, <2>1, IdleTypes
  <2>3. PutsInOrder' BY <2>1, <2>2, IdleTypes DEF PutsInOrder, ToLoad
  <2>4. savedHooks' \in HookConfigs /\ hooks' \in HookConfigs BY <1>0, <2>1
  <2> QED BY <1>3, <1>b, <2>1, <2>2, <2>3, <2>4
<1> QED BY <1>4, <1>5, <1>6, <1>7

\* Events are offered, queued, posted and counted; the configuration stays.
LEMMA DeliveriesKeep ==
  ASSUME HooksIInv,
         \/ Dispatch
         \/ \E e \in Endpoints : Offer(e)
         \/ \E w \in HookWorkers : TakeDelivery(w)
         \/ \E t \in HookTests, e \in Endpoints : TestHook(t, e)
         \/ \E w \in Posters, answer \in {"accepted", "refused", "again"} : Post(w, answer)
  PROVE  HooksIInv'
<1> USE DEF HooksIInv
<1>0. /\ hookQueue \in Seq(Endpoints) /\ posting \in [Posters -> PostRecord] /\ tally \in [Endpoints -> TallyRecord]
      /\ offered \in [Endpoints -> Nat] /\ offer \subseteq Endpoints
      /\ \A e \in Endpoints : /\ tally[e] \in TallyRecord
                              /\ tally[e].sent \in Nat /\ tally[e].failed \in Nat /\ tally[e].dropped \in Nat
      BY DEF HooksTypeOK, TallyRecord
<1>1. UNCHANGED <<hooks, savedHooks, rowed, loadFailed, put, putsRaced>>
      BY DEF Dispatch, Offer, TakeDelivery, TestHook, Post, settings
<1>2. PutsInOrder' BY <1>1 DEF PutsInOrder, ToLoad
<1>3. ASSUME offer' \subseteq Endpoints, hookQueue' \in Seq(Endpoints), posting' \in [Posters -> PostRecord],
             tally' \in [Endpoints -> TallyRecord], offered' \in [Endpoints -> Nat], PostersOK', Accounted'
      PROVE  HooksIInv'
  <2>1. HooksTypeOK' BY <1>1, <1>3 DEF HooksTypeOK
  <2> QED BY <1>2, <1>3, <2>1
<1>q. \A e : Queued(e) = Cardinality(Places(hookQueue, e)) /\ Queued(e)' = Cardinality(Places(hookQueue', e))
      BY DEF Queued, Places
<1>r. \A e : Queued(e) \in Nat BY <1>0, <1>q, PlacesFinite
<1>p. \A e : Posted(e) \in Nat
  <2> SUFFICES ASSUME NEW e PROVE Posted(e) \in Nat
      OBVIOUS
  <2>1. IsFiniteSet(Posters) BY HooksAssumption, FS_Union DEF Posters
  <2>2. {w \in Posters : posting[w].ep = e} \subseteq Posters OBVIOUS
  <2> QED BY <2>1, <2>2, FS_Subset, FS_CardinalityType DEF Posted
<1>a. \A e \in Endpoints :
        offered[e] = tally[e].sent + tally[e].failed + tally[e].dropped + Queued(e) + Posted(e)
      BY DEF Accounted
<1>c. \A d \in Endpoints : \E a, b, c, q, p \in Nat :
        /\ tally[d].sent = a /\ tally[d].failed = b /\ tally[d].dropped = c
        /\ Queued(d) = q /\ Posted(d) = p /\ offered[d] = a + b + c + q + p
  <2> SUFFICES ASSUME NEW d \in Endpoints
               PROVE  \E a, b, c, q, p \in Nat :
                        /\ tally[d].sent = a /\ tally[d].failed = b /\ tally[d].dropped = c
                        /\ Queued(d) = q /\ Posted(d) = p /\ offered[d] = a + b + c + q + p
      OBVIOUS
  <2>1. tally[d].sent \in Nat /\ tally[d].failed \in Nat /\ tally[d].dropped \in Nat BY <1>0
  <2>2. Queued(d) \in Nat /\ Posted(d) \in Nat BY <1>r, <1>p
  <2> QED BY <1>a, <2>1, <2>2
<1>m. ASSUME NEW w \in Posters, NEW f \in PostRecord, posting' = [posting EXCEPT ![w] = f],
             f = IdleWorker \/ f.ep \in Endpoints
      PROVE  posting' \in [Posters -> PostRecord] /\ PostersOK'
  <2>1. posting' \in [Posters -> PostRecord] /\ posting'[w] = f /\ \A v \in Posters \ {w} : posting'[v] = posting[v]
        BY <1>0, <1>m
  <2> QED BY <1>m, <2>1 DEF PostersOK
<1>s. ASSUME NEW e \in Endpoints, NEW n \in TallyRecord, tally' = [tally EXCEPT ![e] = n]
      PROVE  tally' \in [Endpoints -> TallyRecord] /\ tally'[e] = n /\ \A d \in Endpoints \ {e} : tally'[d] = tally[d]
      BY <1>0, <1>s
<1>4. CASE Dispatch
  <2>1. offer' = Configured /\ UNCHANGED <<hookQueue, posting, tally, offered>> BY <1>4 DEF Dispatch
  <2>2. offer' \subseteq Endpoints BY <2>1 DEF Configured
  <2>3. PostersOK' /\ Accounted' BY <2>1 DEF PostersOK, Accounted, Queued, Posted
  <2> QED BY <1>0, <1>3, <2>1, <2>2, <2>3
<1>5. ASSUME NEW e \in Endpoints, Offer(e) PROVE HooksIInv'
  <2>1. /\ offer' = offer \ {e} /\ offered' = [offered EXCEPT ![e] = offered[e] + 1] /\ posting' = posting
        /\ \/ hookQueue' = Append(hookQueue, e) /\ tally' = tally
           \/ tally' = [tally EXCEPT ![e].dropped = tally[e].dropped + 1] /\ hookQueue' = hookQueue
        BY <1>5 DEF Offer
  <2>2. /\ offered' \in [Endpoints -> Nat] /\ offered'[e] = offered[e] + 1
        /\ \A d \in Endpoints \ {e} : offered'[d] = offered[d]
        BY <1>0, <2>1
  <2>3. PostersOK' /\ \A d : Posted(d)' = Posted(d) BY <2>1 DEF PostersOK, Posted
  <2>4. CASE hookQueue' = Append(hookQueue, e) /\ tally' = tally
    <3>1. hookQueue' \in Seq(Endpoints) BY <1>0, <2>4
    <3>2. \A d : Queued(d)' = Queued(d) + (IF e = d THEN 1 ELSE 0) BY <1>0, <1>q, <2>4, PlacesOfAppend
    <3>3. Accounted'
      <4> SUFFICES ASSUME NEW d \in Endpoints
                   PROVE  offered'[d] = tally[d].sent + tally[d].failed + tally[d].dropped + Queued(d)' + Posted(d)
          BY <2>3, <2>4 DEF Accounted
      <4>1. PICK a, b, c, q, p \in Nat :
              /\ tally[d].sent = a /\ tally[d].failed = b /\ tally[d].dropped = c
              /\ Queued(d) = q /\ Posted(d) = p /\ offered[d] = a + b + c + q + p
            BY <1>c
      <4>2. CASE d = e
        <5>1. Queued(d)' = q + 1 /\ offered'[d] = a + b + c + q + p + 1 BY <2>2, <3>2, <4>1, <4>2
        <5> QED BY <4>1, <5>1
      <4>3. CASE d # e
        <5>1. Queued(d)' = q /\ offered'[d] = a + b + c + q + p BY <2>2, <3>2, <4>1, <4>3
        <5> QED BY <4>1, <5>1
      <4> QED BY <4>2, <4>3
    <3> QED BY <1>0, <1>3, <2>1, <2>2, <2>3, <2>4, <3>1, <3>3
  <2>5. CASE tally' = [tally EXCEPT ![e].dropped = tally[e].dropped + 1] /\ hookQueue' = hookQueue
    <3>0. tally[e] \in TallyRecord /\ tally[e].dropped + 1 \in Nat BY <1>0
    <3>1. PICK n : n = [tally[e] EXCEPT !.dropped = tally[e].dropped + 1] OBVIOUS
    <3>2. n \in TallyRecord /\ n.sent = tally[e].sent /\ n.failed = tally[e].failed /\ n.dropped = tally[e].dropped + 1
          BY <3>0, <3>1 DEF TallyRecord
    <3>3. tally' = [tally EXCEPT ![e] = n] BY <1>0, <2>5, <3>1
    <3>4. tally' \in [Endpoints -> TallyRecord] /\ tally'[e] = n /\ \A d \in Endpoints \ {e} : tally'[d] = tally[d]
          BY <1>s, <3>2, <3>3
    <3>5. \A d : Queued(d)' = Queued(d) BY <2>5 DEF Queued
    <3>6. Accounted'
      <4> SUFFICES ASSUME NEW d \in Endpoints
                   PROVE  offered'[d] = tally'[d].sent + tally'[d].failed + tally'[d].dropped + Queued(d) + Posted(d)
          BY <2>3, <3>5 DEF Accounted
      <4>1. PICK a, b, c, q, p \in Nat :
              /\ tally[d].sent = a /\ tally[d].failed = b /\ tally[d].dropped = c
              /\ Queued(d) = q /\ Posted(d) = p /\ offered[d] = a + b + c + q + p
            BY <1>c
      <4>2. CASE d = e
        <5>1. /\ tally'[d].sent = a /\ tally'[d].failed = b /\ tally'[d].dropped = c + 1
              /\ offered'[d] = a + b + c + q + p + 1
              BY <2>2, <3>2, <3>4, <4>1, <4>2
        <5> QED BY <4>1, <5>1
      <4>3. CASE d # e
        <5>1. tally'[d] = tally[d] /\ offered'[d] = offered[d] BY <2>2, <3>4, <4>3
        <5> QED BY <4>1, <5>1
      <4> QED BY <4>2, <4>3
    <3> QED BY <1>0, <1>3, <2>1, <2>2, <2>3, <2>5, <3>4, <3>6
  <2> QED BY <2>1, <2>4, <2>5
<1>6. ASSUME NEW w \in HookWorkers, TakeDelivery(w) PROVE HooksIInv'
  <2>1. PICK f : f = [ep |-> Head(hookQueue), attempt |-> 0] OBVIOUS
  <2>2. /\ posting[w] = IdleWorker /\ hookQueue # << >> /\ posting' = [posting EXCEPT ![w] = f]
        /\ hookQueue' = Tail(hookQueue) /\ UNCHANGED <<offer, tally, offered>>
        BY <1>6, <2>1 DEF TakeDelivery
  <2>3. hookQueue' \in Seq(Endpoints) /\ Head(hookQueue) \in Endpoints BY <1>0, <2>2
  <2>4. f \in PostRecord /\ f.ep = Head(hookQueue) BY <2>1, <2>3 DEF PostRecord
  <2>5. w \in Posters BY DEF Posters
  <2>6. posting' \in [Posters -> PostRecord] /\ PostersOK' BY <1>m, <2>2, <2>3, <2>4, <2>5
  <2>7. Accounted'
    <3> SUFFICES ASSUME NEW e \in Endpoints
                 PROVE  offered[e] = tally[e].sent + tally[e].failed + tally[e].dropped + Queued(e)' + Posted(e)'
        BY <2>2 DEF Accounted
    <3>1. posting[w].ep # e BY <2>2, IdleTypes, HooksAssumption
    <3>2. /\ Posted(e)' \in Nat
          /\ Posted(e)' + (IF posting[w].ep = e THEN 1 ELSE 0) = Posted(e) + (IF f.ep = e THEN 1 ELSE 0)
          BY <2>2, <2>4, <2>5, PostedMoves
    <3>3. Queued(e) = Queued(e)' + (IF Head(hookQueue) = e THEN 1 ELSE 0) BY <1>0, <1>q, <2>2, PlacesOfTail
    <3>4. Queued(e)' \in Nat BY <1>q, <2>3, PlacesFinite
    <3>5. PICK a, b, c, q, p \in Nat :
            /\ tally[e].sent = a /\ tally[e].failed = b /\ tally[e].dropped = c
            /\ Queued(e) = q /\ Posted(e) = p /\ offered[e] = a + b + c + q + p
          BY <1>c
    <3>6. CASE Head(hookQueue) = e
      <4>1. Posted(e)' = p + 1 /\ q = Queued(e)' + 1 BY <2>4, <3>1, <3>2, <3>3, <3>5, <3>6
      <4> QED BY <3>4, <3>5, <4>1
    <3>7. CASE Head(hookQueue) # e
      <4>1. Posted(e)' = p /\ q = Queued(e)' BY <2>4, <3>1, <3>2, <3>3, <3>4, <3>5, <3>7
      <4> QED BY <3>5, <4>1
    <3> QED BY <3>6, <3>7
  <2> QED BY <1>0, <1>3, <2>2, <2>3, <2>6, <2>7
<1>7. ASSUME NEW t \in HookTests, NEW e \in Endpoints, TestHook(t, e) PROVE HooksIInv'
  <2>1. PICK f : f = [ep |-> e, attempt |-> 0] OBVIOUS
  <2>2. /\ posting[t] = IdleWorker /\ posting' = [posting EXCEPT ![t] = f]
        /\ offered' = [offered EXCEPT ![e] = offered[e] + 1] /\ UNCHANGED <<offer, hookQueue, tally>>
        BY <1>7, <2>1 DEF TestHook
  <2>3. f \in PostRecord /\ f.ep = e BY <2>1 DEF PostRecord
  <2>4. t \in Posters BY DEF Posters
  <2>5. posting' \in [Posters -> PostRecord] /\ PostersOK' BY <1>m, <2>2, <2>3, <2>4
  <2>6. /\ offered' \in [Endpoints -> Nat] /\ offered'[e] = offered[e] + 1
        /\ \A d \in Endpoints \ {e} : offered'[d] = offered[d]
        BY <1>0, <2>2
  <2>7. Accounted'
    <3> SUFFICES ASSUME NEW d \in Endpoints
                 PROVE  offered'[d] = tally[d].sent + tally[d].failed + tally[d].dropped + Queued(d) + Posted(d)'
        BY <2>2 DEF Accounted, Queued
    <3>1. posting[t].ep # d BY <2>2, IdleTypes, HooksAssumption
    <3>2. /\ Posted(d)' \in Nat
          /\ Posted(d)' + (IF posting[t].ep = d THEN 1 ELSE 0) = Posted(d) + (IF f.ep = d THEN 1 ELSE 0)
          BY <2>2, <2>3, <2>4, PostedMoves
    <3>3. PICK a, b, c, q, p \in Nat :
            /\ tally[d].sent = a /\ tally[d].failed = b /\ tally[d].dropped = c
            /\ Queued(d) = q /\ Posted(d) = p /\ offered[d] = a + b + c + q + p
          BY <1>c
    <3>4. CASE d = e
      <4>1. Posted(d)' = p + 1 /\ offered'[d] = a + b + c + q + p + 1 BY <2>3, <2>6, <3>1, <3>2, <3>3, <3>4
      <4> QED BY <3>3, <4>1
    <3>5. CASE d # e
      <4>1. Posted(d)' = p /\ offered'[d] = a + b + c + q + p BY <2>3, <2>6, <3>1, <3>2, <3>3, <3>5
      <4> QED BY <3>3, <4>1
    <3> QED BY <3>4, <3>5
  <2> QED BY <1>0, <1>3, <2>2, <2>5, <2>6, <2>7
<1>8. ASSUME NEW w \in Posters, NEW answer \in {"accepted", "refused", "again"}, Post(w, answer) PROVE HooksIInv'
  <2>1. PICK e \in Endpoints : e = posting[w].ep BY <1>8 DEF Post, PostersOK
  <2>2. UNCHANGED <<offer, hookQueue, offered>> BY <1>8 DEF Post
  <2>3. posting[w] \in PostRecord /\ posting[w].attempt \in Nat BY <1>0 DEF PostRecord
  <2>4. CASE answer = "again" /\ posting[w].attempt < HookRetries
    <3>1. PICK f : f = [posting[w] EXCEPT !.attempt = posting[w].attempt + 1] OBVIOUS
    <3>2. f \in PostRecord /\ f.ep = e BY <2>1, <2>3, <3>1 DEF PostRecord
    <3>3. posting' = [posting EXCEPT ![w] = f] /\ tally' = tally BY <1>0, <1>8, <2>4, <3>1 DEF Post
    <3>4. posting' \in [Posters -> PostRecord] /\ PostersOK' BY <1>m, <3>2, <3>3
    <3>5. Accounted'
      <4> SUFFICES ASSUME NEW d \in Endpoints PROVE Posted(d)' = Posted(d)
          BY <2>2, <3>3 DEF Accounted, Queued
      <4>1. /\ Posted(d)' \in Nat
            /\ Posted(d)' + (IF posting[w].ep = d THEN 1 ELSE 0) = Posted(d) + (IF f.ep = d THEN 1 ELSE 0)
            BY <3>2, <3>3, PostedMoves
      <4> QED BY <1>p, <2>1, <3>2, <4>1
    <3> QED BY <1>0, <1>3, <2>2, <3>3, <3>4, <3>5
  <2>5. CASE ~(answer = "again" /\ posting[w].attempt < HookRetries)
    <3>1. PICK how \in {"sent", "failed"} : how = IF answer = "accepted" THEN "sent" ELSE "failed" OBVIOUS
    <3>2. posting' = [posting EXCEPT ![w] = IdleWorker] /\ tally' = [tally EXCEPT ![e][how] = tally[e][how] + 1]
          BY <1>8, <2>1, <2>5, <3>1 DEF Post, record
    <3>3. PICK n : n = [tally[e] EXCEPT ![how] = tally[e][how] + 1] OBVIOUS
    <3>0. tally[e] \in TallyRecord /\ tally[e].sent + 1 \in Nat /\ tally[e].failed + 1 \in Nat BY <1>0
    <3>4. n \in TallyRecord /\ n.sent + n.failed + n.dropped = tally[e].sent + tally[e].failed + tally[e].dropped + 1
      <4>1. CASE how = "sent"
        <5>1. n = [tally[e] EXCEPT !.sent = tally[e].sent + 1] BY <3>3, <4>1
        <5>2. n \in TallyRecord /\ n.sent = tally[e].sent + 1 /\ n.failed = tally[e].failed /\ n.dropped = tally[e].dropped
              BY <3>0, <5>1 DEF TallyRecord
        <5>3. tally[e].sent \in Nat /\ tally[e].failed \in Nat /\ tally[e].dropped \in Nat BY <1>0
        <5> QED BY <5>2, <5>3
      <4>2. CASE how = "failed"
        <5>1. n = [tally[e] EXCEPT !.failed = tally[e].failed + 1] BY <3>3, <4>2
        <5>2. n \in TallyRecord /\ n.sent = tally[e].sent /\ n.failed = tally[e].failed + 1 /\ n.dropped = tally[e].dropped
              BY <3>0, <5>1 DEF TallyRecord
        <5>3. tally[e].sent \in Nat /\ tally[e].failed \in Nat /\ tally[e].dropped \in Nat BY <1>0
        <5> QED BY <5>2, <5>3
      <4> QED BY <4>1, <4>2
    <3>5. tally' = [tally EXCEPT ![e] = n] BY <1>0, <3>2, <3>3
    <3>6. tally' \in [Endpoints -> TallyRecord] /\ tally'[e] = n /\ \A d \in Endpoints \ {e} : tally'[d] = tally[d]
          BY <1>s, <3>4, <3>5
    <3>7. posting' \in [Posters -> PostRecord] /\ PostersOK' BY <1>m, <3>2, IdleTypes
    <3>8. Accounted'
      <4> SUFFICES ASSUME NEW d \in Endpoints
                   PROVE  offered[d] = tally'[d].sent + tally'[d].failed + tally'[d].dropped + Queued(d) + Posted(d)'
          BY <2>2 DEF Accounted, Queued
      <4>1. /\ Posted(d)' \in Nat
            /\ Posted(d)' + (IF posting[w].ep = d THEN 1 ELSE 0) = Posted(d) + (IF IdleWorker.ep = d THEN 1 ELSE 0)
            BY <3>2, IdleTypes, PostedMoves
      <4>2. IdleWorker.ep # d BY IdleTypes, HooksAssumption
      <4>3. CASE d = e
        <5>1. Posted(d)' + 1 = Posted(d) BY <1>p, <2>1, <4>1, <4>2, <4>3
        <5>2. n.sent \in Nat /\ n.failed \in Nat /\ n.dropped \in Nat BY <3>4 DEF TallyRecord
        <5>3. PICK x, y, z \in Nat : n.sent = x /\ n.failed = y /\ n.dropped = z BY <5>2
        <5>4. PICK a, b, c, q, p \in Nat :
                /\ tally[d].sent = a /\ tally[d].failed = b /\ tally[d].dropped = c
                /\ Queued(d) = q /\ Posted(d) = p /\ offered[d] = a + b + c + q + p
              BY <1>c
        <5>5. p = Posted(d)' + 1 /\ x + y + z = a + b + c + 1 BY <3>4, <4>3, <5>1, <5>3, <5>4
        <5>6. tally'[d].sent = x /\ tally'[d].failed = y /\ tally'[d].dropped = z BY <3>6, <4>3, <5>3
        <5> QED BY <4>1, <5>4, <5>5, <5>6
      <4>4. CASE d # e
        <5>1. Posted(d)' = Posted(d) BY <1>p, <2>1, <4>1, <4>2, <4>4
        <5> QED BY <1>a, <3>6, <4>4, <5>1
      <4> QED BY <4>3, <4>4
    <3> QED BY <1>0, <1>3, <2>2, <3>6, <3>7, <3>8
  <2> QED BY <2>4, <2>5
<1> QED BY <1>4, <1>5, <1>6, <1>7, <1>8

\* No delivery is lost track of, and what runs is what a start would find, but for raced
\* PUTs and a start that could not read the row, for any endpoints, workers, queue, retries
\* and environment (WebhooksSound).
THEOREM WebhooksAreSound == HooksSpec => []WebhooksSound
<1>1. HooksIInv /\ [HooksNext]_hookVars => HooksIInv'
  <2> SUFFICES ASSUME HooksIInv, [HooksNext]_hookVars PROVE HooksIInv'
      OBVIOUS
  <2>1. CASE UNCHANGED hookVars
        BY <2>1 DEF hookVars, settings, HooksIInv, HooksTypeOK, PostersOK, PutsInOrder, Accounted, Queued, Posted, ToLoad
  <2>2. CASE HooksNext BY <2>2, PutsKeep, DeliveriesKeep, RestartHooksKeeps DEF HooksNext
  <2> QED BY <2>1, <2>2
<1>2. HooksIInv => WebhooksSound
  <2> SUFFICES ASSUME HooksIInv PROVE WebhooksSound
      OBVIOUS
  <2>1. putsRaced \in BOOLEAN /\ loadFailed \in BOOLEAN BY DEF HooksIInv, HooksTypeOK
  <2>2. (~putsRaced => putsRaced = FALSE) /\ (~loadFailed => loadFailed # TRUE) BY <2>1
  <2>3. RunningIsSaved BY <2>2 DEF HooksIInv, PutsInOrder, RunningIsSaved
  <2> QED BY <2>3 DEF HooksIInv, WebhooksSound
<1> QED BY <1>1, <1>2, HooksStart, PTL DEF HooksSpec

================================================================================
