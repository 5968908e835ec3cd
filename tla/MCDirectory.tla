------------------------------ MODULE MCDirectory ------------------------------
(***************************************************************************)
(* What there is and who may see it: memberships, groups and targets, the  *)
(* event streams that tell browsers of a change, the TFTP server the       *)
(* targets need, and the webhooks that report what happens.  They share no *)
(* state here, so `focus` picks one of them and the others stay as they    *)
(* started.                                                                *)
(***************************************************************************)
EXTENDS Membership, Catalogue, EventBroker, TftpServer, Webhooks, TLC

CONSTANTS
  Pair, OtherPair,           \* the interchangeable values of the cfg
  SpareTarget, SpareViewer   \* the ones that only a cut answer needs

VARIABLE focus

GroupPaths == {<<"net">>, <<"net", "tokyo">>}
HooksFromEnv == [e \in Endpoints |-> "s1"]

\* The catalogue is checked three times over: with two requests, with two targets
\* so that TargetIDsForUser is cut, and with two viewers so that UserIDsForTarget is.
CatalogueFoci == {"catalogue", "targets", "viewers"}

InScope ==
  /\ focus # "targets" => \A e \in Edits : edit[e].target # SpareTarget
  /\ focus # "viewers" => \A p \in Paths : userGroups[SpareViewer][p] = "none"
  /\ focus # "catalogue" => Cardinality({e \in Edits : edit[e] # NoEdit}) =< 1

\* A channel is full only while no other stream is on.
EventScope ==
  \A c, d \in Streams : c # d /\ Len(channel[c].queue) = Capacity => stream[d].pc = "off"

DirectoryInit ==
  /\ focus \in {"membership", "events", "tftp", "hooks"} \cup CatalogueFoci
  /\ MembershipInit /\ CatalogueInit /\ BrokerInit /\ TftpInit /\ HooksInit
  /\ IF focus \in CatalogueFoci THEN \A u \in Viewers \ {SpareViewer} : TagsOf(u) = Tags ELSE userTags = {}
  /\ focus # "viewers" => TagsOf(SpareViewer) = {}

DirectoryNext ==
  /\ UNCHANGED focus
  /\ \/ focus = "membership" /\ MembershipNext /\ UNCHANGED <<catalogueVars, brokerVars, tftpVars, hookVars>>
     \/ focus \in CatalogueFoci /\ CatalogueNext /\ InScope'
        /\ UNCHANGED <<membershipVars, brokerVars, tftpVars, hookVars>>
     \/ focus = "events" /\ BrokerNext /\ EventScope'
        /\ UNCHANGED <<membershipVars, catalogueVars, tftpVars, hookVars>>
     \/ focus = "tftp" /\ TftpNext /\ UNCHANGED <<membershipVars, catalogueVars, brokerVars, hookVars>>
     \/ focus = "hooks" /\ HooksNext
        /\ UNCHANGED <<membershipVars, catalogueVars, brokerVars, tftpVars>>

DirectorySpec ==
  DirectoryInit
  /\ [][DirectoryNext]_<<focus, membershipVars, catalogueVars, brokerVars, tftpVars, hookVars>>

Symmetry == Permutations(Pair) \cup Permutations(OtherPair)

===============================================================================
