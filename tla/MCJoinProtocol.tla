--------------------------- MODULE MCJoinProtocol ---------------------------
(***************************************************************************)
(* JoinProtocol on small instances.  Two joins, two viewers and two         *)
(* invitations at once are too many, so `focus` picks what is contested: in *)
(* "cap" one invitation, by two joins in flight of either viewer; in "kick" *)
(* two invitations of one viewer, an admin, who joins once at a time before *)
(* either expires.                                                          *)
(* Invitations and requests are interchangeable among themselves.           *)
(***************************************************************************)
EXTENDS JoinProtocol, FiniteSets, TLC

CONSTANT Focuses   \* the focuses of this run

VARIABLE focus

CapOnly ==
  /\ Cardinality({i \in Invitations : created[i]}) <= 1
  /\ \A j \in Joins : join[j].inv # AdminWatch

KickOnly ==
  /\ \A i \in Invitations : maxUses[i] <= 1 /\ issuedTo[i] \in Admins \cup {NoUser} /\ clock[i] = "before"
  /\ \A j \in Joins : join[j].user \in Admins \cup {Owner}
  /\ Cardinality({j \in Joins : join[j] # IdleJoin}) <= 1

JoinsInit == focus \in Focuses /\ JoinInit

JoinsNext ==
  /\ JoinNext
  /\ UNCHANGED focus
  /\ \/ focus = "cap" /\ CapOnly'
     \/ focus = "kick" /\ KickOnly'

JoinsSpec == JoinsInit /\ [][JoinsNext]_<<joinVars, focus>>

Symmetry ==
  Permutations(Admins) \cup Permutations(Users \ (Admins \cup {Owner}))
  \cup Permutations(Invitations) \cup Permutations(Joins)
=============================================================================
