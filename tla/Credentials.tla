----------------------------- MODULE Credentials -----------------------------
(***************************************************************************)
(* The credential library: SSH keys, identities that hold a password or a   *)
(* key, and the links of targets to what their credentials were taken from. *)
(* A link is a plain column; an identity's key is a foreign key that turns  *)
(* NULL when the key goes.  Every deletion counts the uses first, in a      *)
(* statement of its own.  Labels and the secrets themselves are left out.   *)
(***************************************************************************)
EXTENDS FiniteSets

CONSTANTS
  SSHKeys,     \* ids of ssh_keys
  Identities,  \* ids of credential_identities
  LinkTargets, \* ids of targets
  CredCalls,   \* requests in flight at a time
  NoRef        \* the empty id

\* Ids are not empty and none is the mark of a field left out.
ASSUME CredAssumption ==
  /\ NoRef \notin SSHKeys \cup Identities
  /\ "keep" \notin SSHKeys \cup {NoRef}
  /\ Identities \cap LinkTargets = {}

VARIABLES
  sshKeys,   \* the rows of ssh_keys
  identity,  \* the row of each identity
  link,      \* credential_identity_id or ssh_key_id of each target
  cred,      \* the requests
  late       \* history: identities and targets whose reference was written past
             \* the count of a deletion of what they refer to

credVars == <<sshKeys, identity, link, cred, late>>

Absent == [there |-> FALSE, password |-> FALSE, key |-> NoRef]
Free == [pc |-> "free", ref |-> NoRef, id |-> NoRef, row |-> Absent]

Present == {i \in Identities : identity[i].there}
Usable(row) == row.password \/ row.key # NoRef                 \* validateCredentialIdentityAuth
KeyFound(row) == row.key \in sshKeys \cup {NoRef}

CredInit ==
  /\ sshKeys = {}
  /\ identity = [i \in Identities |-> Absent]
  /\ link = [t \in LinkTargets |-> NoRef]
  /\ cred = [c \in CredCalls |-> Free]
  /\ late = {}

Proceed(c, pc) == cred' = [cred EXCEPT ![c].pc = pc]
Finish(c) == cred' = [cred EXCEPT ![c] = Free]
Mark(x, isLate) == late' = IF isLate THEN late \cup {x} ELSE late \ {x}

-------------------------------------------------------------------------------
(* SQLiteSSHKeyStore.                                                        *)

CreateKey(k) ==
  /\ k \notin sshKeys
  /\ sshKeys' = sshKeys \cup {k}
  /\ UNCHANGED <<identity, link, cred, late>>

\* The identities are not asked.
CountIdentitiesFault(c, k) ==
  /\ cred[c] = Free
  /\ cred' = [cred EXCEPT ![c] = [Free EXCEPT !.pc = "countTargets", !.ref = k]]
  /\ UNCHANGED <<sshKeys, identity, link, late>>

CountIdentities(c, k) ==
  /\ cred[c] = Free
  /\ \A i \in Identities : identity[i].key # k
  /\ cred' = [cred EXCEPT ![c] = [Free EXCEPT !.pc = "countTargets", !.ref = k]]
  /\ UNCHANGED <<sshKeys, identity, link, late>>

\* The targets are not asked.
CountTargetsFault(c) ==
  /\ cred[c].pc = "countTargets"
  /\ Proceed(c, "deleteKey")
  /\ UNCHANGED <<sshKeys, identity, link, late>>

CountTargets(c) ==
  /\ cred[c].pc = "countTargets"
  /\ IF \E t \in LinkTargets : link[t] = cred[c].ref THEN Finish(c) ELSE Proceed(c, "deleteKey")
  /\ UNCHANGED <<sshKeys, identity, link, late>>

DeleteKey(c) ==
  /\ cred[c].pc = "deleteKey"
  /\ sshKeys' = sshKeys \ {cred[c].ref}
  /\ identity' = [i \in Identities |->
       IF identity[i].key = cred[c].ref THEN [identity[i] EXCEPT !.key = NoRef] ELSE identity[i]]
  /\ Finish(c)
  /\ UNCHANGED <<link, late>>

-------------------------------------------------------------------------------
(* SQLiteCredentialIdentityStore.                                            *)

\* The row of a write; the foreign key refuses one whose key is gone.
WriteRow(c, allowed) ==
  /\ IF allowed /\ KeyFound(cred[c].row)
     THEN /\ identity' = [identity EXCEPT ![cred[c].id] = cred[c].row]
          /\ Mark(cred[c].id, \E d \in CredCalls :
               cred[d].pc \in {"countTargets", "deleteKey"} /\ cred[d].ref = cred[c].row.key)
     ELSE UNCHANGED <<identity, late>>
  /\ Finish(c)
  /\ UNCHANGED <<sshKeys, link>>

ReadCreate(c, i, password, key) ==
  LET row == [there |-> TRUE, password |-> password, key |-> key] IN
  /\ cred[c] = Free
  /\ Usable(row) /\ KeyFound(row)
  /\ cred' = [cred EXCEPT ![c] = [Free EXCEPT !.pc = "insert", !.id = i, !.row = row]]
  /\ UNCHANGED <<sshKeys, identity, link, late>>

InsertIdentity(c) == cred[c].pc = "insert" /\ WriteRow(c, cred[c].id \notin Present)

ReadIdentity(c, i) ==
  /\ cred[c] = Free
  /\ i \in Present
  /\ cred' = [cred EXCEPT ![c] = [Free EXCEPT !.pc = "edit", !.id = i, !.row = identity[i]]]
  /\ UNCHANGED <<sshKeys, identity, link, late>>

\* The request's password and key, "keep" being a field left out: only a key it
\* names is looked up, and the row as it will be is judged.
EditIdentity(c, password, key) ==
  LET row == [cred[c].row EXCEPT !.password = IF password = "keep" THEN @ ELSE password = "set",
                                 !.key = IF key = "keep" THEN @ ELSE key]
  IN /\ cred[c].pc = "edit"
     /\ IF Usable(row) /\ (key = "keep" \/ KeyFound(row))
        THEN cred' = [cred EXCEPT ![c].pc = "update", ![c].row = row]
        ELSE Finish(c)
     /\ UNCHANGED <<sshKeys, identity, link, late>>

UpdateIdentity(c) == cred[c].pc = "update" /\ WriteRow(c, cred[c].id \in Present)

CountLinks(c, i) ==
  /\ cred[c] = Free
  /\ \A t \in LinkTargets : link[t] # i
  /\ cred' = [cred EXCEPT ![c] = [Free EXCEPT !.pc = "deleteIdentity", !.ref = i]]
  /\ UNCHANGED <<sshKeys, identity, link, late>>

DeleteIdentity(c) ==
  /\ cred[c].pc = "deleteIdentity"
  /\ identity' = [identity EXCEPT ![cred[c].ref] = Absent]
  /\ Finish(c)
  /\ UNCHANGED <<sshKeys, link, late>>

-------------------------------------------------------------------------------
(* Targets: applyStoredCredentials, the target's row, SetCredentialSource.   *)

\* An identity's key is read by a second statement.
ReadSource(c, t, ref) ==
  /\ cred[c] = Free
  /\ ref \in sshKeys \cup Present \cup {NoRef}
  /\ cred' = [cred EXCEPT ![c] = [Free EXCEPT
       !.pc = IF ref \in Present /\ identity[ref].key # NoRef THEN "readKey" ELSE "setLink",
       !.ref = ref, !.id = t, !.row = IF ref \in Present THEN identity[ref] ELSE Absent]]
  /\ UNCHANGED <<sshKeys, identity, link, late>>

ReadIdentityKey(c) ==
  /\ cred[c].pc = "readKey"
  /\ IF KeyFound(cred[c].row) THEN Proceed(c, "setLink") ELSE Finish(c)
  /\ UNCHANGED <<sshKeys, identity, link, late>>

SetCredentialSource(c) ==
  LET ref == cred[c].ref IN
  /\ cred[c].pc = "setLink"
  /\ link' = [link EXCEPT ![cred[c].id] = ref]
  /\ Mark(cred[c].id, \/ ref \notin sshKeys \cup Present \cup {NoRef}
                      \/ \E d \in CredCalls : cred[d].pc \in {"deleteKey", "deleteIdentity"}
                                              /\ cred[d].ref = ref /\ ref # NoRef)
  /\ Finish(c)
  /\ UNCHANGED <<sshKeys, identity>>

\* A query fails or times out: the request ends where it is.
CredFails(c) ==
  /\ cred[c] # Free
  /\ Finish(c)
  /\ UNCHANGED <<sshKeys, identity, link, late>>

CredNext ==
  \/ \E k \in SSHKeys : CreateKey(k)
  \/ \E c \in CredCalls :
       \/ \E k \in SSHKeys : CountIdentities(c, k)
       \/ CountTargets(c)
       \/ DeleteKey(c)
       \/ \E i \in Identities :
            \/ \E password \in BOOLEAN, key \in SSHKeys \cup {NoRef} : ReadCreate(c, i, password, key)
            \/ ReadIdentity(c, i)
            \/ CountLinks(c, i)
       \/ InsertIdentity(c)
       \/ \E password \in {"set", "clear", "keep"}, key \in SSHKeys \cup {NoRef, "keep"} :
            EditIdentity(c, password, key)
       \/ UpdateIdentity(c)
       \/ DeleteIdentity(c)
       \/ \E t \in LinkTargets, ref \in SSHKeys \cup Identities \cup {NoRef} : ReadSource(c, t, ref)
       \/ ReadIdentityKey(c)
       \/ SetCredentialSource(c)
       \/ CredFails(c)

CredSpec == CredInit /\ [][CredNext]_credVars

-------------------------------------------------------------------------------
\* A target's link dangles only when it was written past the count of the deletion
\* that took its source away.
LinksResolve ==
  \A t \in LinkTargets : link[t] \in sshKeys \cup Present \cup {NoRef} \/ t \in late

\* An identity always has a password or a key, however updates and deletions of
\* keys overlap, unless its key was given past the count of the key's deletion.
IdentitiesUsable == \A i \in Present : Usable(identity[i]) \/ i \in late

\* The references of the credential library as a whole.
LibrarySound == LinksResolve /\ IdentitiesUsable

===============================================================================
