--------------------------- MODULE InvitationStore ---------------------------
(***************************************************************************)
(* The session_invitations table and the predicates the code evaluates on  *)
(* a row: internal/sharing/sqlite_store.go and invitations.go.             *)
(*                                                                         *)
(* Every statement is one SQLite statement, hence one action.  A row keeps *)
(* the columns somebody branches on.  max_uses NULL is 0 (a cap is at      *)
(* least 1: parseLinkMaxUses).  Wall-clock time is kept per row as its     *)
(* distance to expires_at: the SQL accepts a row strictly before it, the   *)
(* Go predicate up to and including it, so the instant itself is a value.  *)
(* Tokens are numbered; the row holds the number of the current one.       *)
(***************************************************************************)
EXTENDS Sharing, Naturals

CONSTANTS
  MaxLinkUses,   \* the largest link_max_uses an owner asks for
  MaxTokens      \* bound: tokens issued per invitation

ASSUME MaxLinkUsesIsPositive == MaxLinkUses \in Nat \ {0}
ASSUME MaxTokensIsPositive == MaxTokens \in Nat \ {0}

VARIABLES
  created,       \* the row exists
  invitee,       \* invitee_user_id, NoUser when NULL
  maxUses,       \* max_uses, 0 when NULL
  useCount,      \* use_count
  used,          \* used_at is set
  revoked,       \* revoked_at is set
  clock,         \* where now stands against expires_at
  token,         \* the number of the token whose hash is stored
  consumers,     \* session_invitation_consumers
  issuedTo       \* history: whom the owner addressed the invitation to

rows == <<created, invitee, maxUses, useCount, used, revoked, clock, token, consumers, issuedTo>>

Clock == {"before", "at", "after"}

StoreInit ==
  /\ created = [i \in Invitations |-> FALSE]
  /\ invitee = [i \in Invitations |-> NoUser]
  /\ maxUses = [i \in Invitations |-> 0]
  /\ useCount = [i \in Invitations |-> 0]
  /\ used = [i \in Invitations |-> FALSE]
  /\ revoked = [i \in Invitations |-> FALSE]
  /\ clock = [i \in Invitations |-> "before"]
  /\ token = [i \in Invitations |-> 1]
  /\ consumers = [i \in Invitations |-> {}]
  /\ issuedTo = [i \in Invitations |-> NoUser]

------------------------------------------------------------------------------
(* What scanInvitation returns, and the predicates on it (invitations.go).  *)

Row(i) == [invitee |-> invitee[i], maxUses |-> maxUses[i], useCount |-> useCount[i],
           used |-> used[i], revoked |-> revoked[i]]

IsLink(row) == row.invitee = NoUser
LinkUnlimited(row) == IsLink(row) /\ row.maxUses = 0
Exhausted(row) ==
  IF IsLink(row) THEN ~LinkUnlimited(row) /\ row.useCount >= row.maxUses ELSE row.used
Expired(i) == clock[i] = "after"
Active(row, i) == ~Exhausted(row) /\ ~row.revoked /\ ~Expired(i)

------------------------------------------------------------------------------
(* The statements of SQLiteStore.                                           *)

Create(i, to, cap) ==
  /\ ~created[i]
  /\ created' = [created EXCEPT ![i] = TRUE]
  /\ invitee' = [invitee EXCEPT ![i] = to]
  /\ maxUses' = [maxUses EXCEPT ![i] = cap]
  /\ issuedTo' = [issuedTo EXCEPT ![i] = to]
  /\ UNCHANGED <<useCount, used, revoked, clock, token, consumers>>

\* The WHERE clause of RecordUse.
AdmitsUseFault(i) == created[i] /\ ~revoked[i] /\ clock[i] = "before"
AdmitsUse(i) ==
  /\ created[i]
  /\ ~revoked[i]
  /\ clock[i] = "before"
  /\ IF invitee[i] # NoUser THEN ~used[i]
     ELSE maxUses[i] = 0 \/ useCount[i] < maxUses[i]

\* The row is updated without the conditions that make it TOCTOU safe.
RecordUseFault(i, u, inserted) ==
  /\ created[i]
  /\ useCount' = [useCount EXCEPT ![i] = @ + 1]
  /\ invitee' = [invitee EXCEPT ![i] = IF @ = NoUser THEN u ELSE @]
  /\ used' = [used EXCEPT ![i] = TRUE]
  /\ consumers' = [consumers EXCEPT ![i] = IF inserted THEN @ \cup {u} ELSE @]
  /\ UNCHANGED <<created, maxUses, revoked, clock, token, issuedTo>>

\* SET reads the old row: used_at is set for a row that was named already, and
\* for a link whose cap this use reaches; a link's first user becomes its invitee.
\* The consumer is inserted by a second statement outside any transaction: when
\* that one fails the use stays recorded and RecordUse returns the error.
RecordUse(i, u, inserted) ==
  /\ AdmitsUse(i)
  /\ useCount' = [useCount EXCEPT ![i] = @ + 1]
  /\ invitee' = [invitee EXCEPT ![i] = IF @ = NoUser THEN u ELSE @]
  /\ used' = [used EXCEPT ![i] = \/ @
                                 \/ invitee[i] # NoUser
                                 \/ maxUses[i] # 0 /\ useCount[i] + 1 >= maxUses[i]]
  /\ consumers' = [consumers EXCEPT ![i] = IF inserted THEN @ \cup {u} ELSE @]
  /\ UNCHANGED <<created, maxUses, revoked, clock, token, issuedTo>>

\* revoked_at is written whatever the row's state.
MarkRevoked(i) ==
  /\ created[i]
  /\ revoked' = [revoked EXCEPT ![i] = TRUE]
  /\ UNCHANGED <<created, invitee, maxUses, useCount, used, clock, token, consumers, issuedTo>>

UpdateTokenHash(i) ==
  /\ created[i]
  /\ token[i] < MaxTokens
  /\ token' = [token EXCEPT ![i] = @ + 1]
  /\ UNCHANGED <<created, invitee, maxUses, useCount, used, revoked, clock, consumers, issuedTo>>

\* Time passes: environment.
PassExpiry(i) ==
  /\ created[i]
  /\ clock' = [clock EXCEPT ![i] = IF @ = "before" THEN "at" ELSE "after"]
  /\ UNCHANGED <<created, invitee, maxUses, useCount, used, revoked, token, consumers, issuedTo>>

------------------------------------------------------------------------------
(* The store under any caller, with no check made before RecordUse.         *)

StoreNext ==
  \E i \in Invitations :
    \/ \E to \in Users \ {Owner} : Create(i, to, 0)
    \/ \E cap \in 0..MaxLinkUses : Create(i, NoUser, cap)
    \/ \E u \in Users \ {Owner}, inserted \in BOOLEAN : RecordUse(i, u, inserted)
    \/ MarkRevoked(i)
    \/ UpdateTokenHash(i)
    \/ PassExpiry(i)

StoreSpec == StoreInit /\ [][StoreNext]_rows

\* Column types.
StoreTypeOK ==
  /\ created \in [Invitations -> BOOLEAN]
  /\ invitee \in [Invitations -> Users \cup {NoUser}]
  /\ maxUses \in [Invitations -> 0..MaxLinkUses]
  /\ useCount \in [Invitations -> Nat]
  /\ used \in [Invitations -> BOOLEAN]
  /\ revoked \in [Invitations -> BOOLEAN]
  /\ clock \in [Invitations -> Clock]
  /\ token \in [Invitations -> 1..MaxTokens]
  /\ consumers \in [Invitations -> SUBSET Users]
  /\ issuedTo \in [Invitations -> Users \cup {NoUser}]

\* A row with a cap that is not marked used has room for one more use; this is
\* what lets RecordUse forget the cap once the link has an invitee.
CapHasRoom ==
  \A i \in Invitations : maxUses[i] # 0 /\ ~used[i] => useCount[i] < maxUses[i]

\* "Concurrent joins cannot exceed max_uses" (sqlite_store.go, RecordUse), and an
\* invitation addressed to one user is consumed at most once.
UsesWithinCap ==
  \A i \in Invitations :
    /\ maxUses[i] # 0 => useCount[i] <= maxUses[i]
    /\ issuedTo[i] # NoUser => useCount[i] <= 1

\* The database and the Go predicate agree: RecordUse accepts no row that
\* Active calls revoked, exhausted or expired.
AdmitsOnlyActive == \A i \in Invitations : AdmitsUse(i) => Active(Row(i), i)

\* A use leaves a trace that never goes away: what was consumed or revoked
\* is never again consumable by rolling a counter or a flag back.
GrowStep ==
  \A i \in Invitations :
    /\ useCount'[i] >= useCount[i]
    /\ used[i] => used'[i] /\ useCount'[i] = useCount[i]
    /\ revoked[i] => revoked'[i] /\ useCount'[i] = useCount[i]
    /\ consumers[i] \subseteq consumers'[i]
StoreMonotone == [][GrowStep]_rows
=============================================================================
