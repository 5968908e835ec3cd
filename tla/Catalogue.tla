------------------------------- MODULE Catalogue ------------------------------
(***************************************************************************)
(* Groups, targets and tags, the handlers that edit them call by call, and *)
(* the queries that decide who may see and use what.  A group id is a      *)
(* path; a grant on a group covers the groups below it.                    *)
(***************************************************************************)
EXTENDS Integers, Sequences, FiniteSets, SequencesExt

CONSTANTS
  Viewers,     \* users that are not administrators
  TargetIds,   \* target ids
  Tags,        \* tags
  Paths,       \* group ids, as the sequence of their segments
  Edits,       \* requests of administrators in flight at a time
  ListLimit,   \* DefaultListLimit: the rows of an answer asked for without options
  InviteLimit  \* the rows that the list of people to invite asks for

ASSUME CatalogueAssumption ==
  /\ \A S \in {Viewers, TargetIds, Tags, Paths, Edits} : IsFiniteSet(S)
  /\ ListLimit \in Nat \ {0} /\ InviteLimit \in Nat \ {0}
  /\ \A p \in Paths : p # <<>>

VARIABLES
  groups,       \* the rows of access_groups
  targets,      \* the rows of targets
  groupTargets, \* the rows of group_targets
  groupTags,    \* the rows of group_tags
  targetTags,   \* the rows of target_tags
  userTags,     \* the rows of user_tags
  userGroups,   \* the rows of user_groups and whether they are active or expired
  edit,         \* the requests
  lost          \* history: targets whose group was deleted from under a request,
                \* whose request gave up after it had taken or left them groupless,
                \* or whose import failed and could not take its row back either

catalogueVars == <<groups, targets, groupTargets, groupTags, targetTags, userTags,
                   userGroups, edit, lost>>

NoEdit == [pc |-> "idle", group |-> <<>>, target |-> "none", tags |-> {}, from |-> {}, how |-> "none"]

AtEdit(e, pc) == edit[e].pc = pc
NextEdit(e, pc) == edit' = [edit EXCEPT ![e].pc = pc]
EndEdit(e) == edit' = [edit EXCEPT ![e] = NoEdit]

CatalogueInit ==
  /\ groups = Paths /\ targets = {} /\ groupTargets = {} /\ lost = {}
  /\ groupTags = {} /\ targetTags = {}
  /\ userTags \in SUBSET (Viewers \X Tags)
  /\ userGroups = [u \in Viewers |-> [p \in Paths |-> "none"]]
  /\ edit = [e \in Edits |-> NoEdit]

-------------------------------------------------------------------------------
\* descendantOrSelf of the queries: an equal id, or one that starts with parent/.
\* Delete finds the children by LIKE 'id/%', the same prefix.
Under(child, parent) == IsPrefix(parent, child)
Children(p) == {g \in groups : g # p /\ Under(g, p)}

TargetIDsForGroup(p) == {t \in TargetIds : <<p, t>> \in groupTargets}
GroupIDsForTarget(t) == {p \in Paths : <<p, t>> \in groupTargets}
Held(u) == {p \in Paths : userGroups[u][p] = "active"}
TagsOf(u) == {x \in Tags : <<u, x>> \in userTags}
Tagged(u) == {p \in Paths : \E x \in TagsOf(u) : <<p, x>> \in groupTags}
Reach(ps) == {g \in Paths : \E p \in ps : Under(g, p)}

\* The three branches of TargetIDsForUser: groups held, tags of the target, tags
\* of its groups.
Usable(u) ==
  (UNION {TargetIDsForGroup(p) : p \in Reach(Held(u))})
  \cup {t \in TargetIds : \E x \in TagsOf(u) : <<t, x>> \in targetTags}
  \cup (UNION {TargetIDsForGroup(p) : p \in Reach(Tagged(u))})

\* The three branches of GroupIDsForUser.
VisibleFault(u) == (groups \cap Reach(Held(u))) \cup (groups \cap Reach(Tagged(u)))

Visible(u) ==
  (groups \cap Reach(Held(u)))
  \cup {p \in Paths : \E t \in TargetIDsForGroup(p), x \in TagsOf(u) : <<t, x>> \in targetTags}
  \cup (groups \cap Reach(Tagged(u)))

\* TagsGrantingTargetAccess and UserIDsForTarget ask from the side of the target.
TagsGrantingTargetAccess(t) ==
  {x \in Tags : <<t, x>> \in targetTags
                \/ \E p \in GroupIDsForTarget(t), g \in Paths : <<g, x>> \in groupTags /\ Under(p, g)}

InvitableFault(t) ==
  {u \in Viewers : \/ \E p \in GroupIDsForTarget(t) : p \in Held(u)
                   \/ TagsOf(u) \cap TagsGrantingTargetAccess(t) # {}}

Invitable(t) ==
  {u \in Viewers : \/ \E p \in GroupIDsForTarget(t), g \in Held(u) : Under(p, g)
                   \/ TagsOf(u) \cap TagsGrantingTargetAccess(t) # {}}

\* The answers that a limit of n allows.  Which rows a cut answer keeps depends on
\* the order of the ids (and past maxFanoutRowsPerQuery on the order SQLite reads
\* in), so it may be any n of them.
Page(S, n) == {A \in SUBSET S : Cardinality(A) = IF Cardinality(S) =< n THEN Cardinality(S) ELSE n}

\* What the queries answer as the code asks them: requireTargetAccess and the other
\* checks ask without options, invitableUserIDsForTarget for a thousand.
TargetIDsForUser(u) == Page(Usable(u), ListLimit)
GroupIDsForUser(u) == Page(Visible(u), ListLimit)
UserIDsForTarget(t) == Page(Invitable(t), InviteLimit)

-------------------------------------------------------------------------------
\* handleCreateGroup: the row under the first id that is free, the membership of
\* the administrator (who is no Viewer), and the default tag.
CreateGroup(e, p) ==
  /\ AtEdit(e, "idle") /\ p \notin groups
  /\ groups' = groups \cup {p}
  /\ edit' = [edit EXCEPT ![e].pc = "groupTag", ![e].group = p]
  /\ UNCHANGED <<targets, groupTargets, groupTags, targetTags, userTags, userGroups, lost>>

\* SetGroupTags replaces the tags; on a group that has gone it does nothing.
TagsReplaced(rel, key, tags) == {r \in rel : r[1] # key} \cup {<<key, x>> : x \in tags}

DefaultTag(e, x) ==
  /\ AtEdit(e, "groupTag")
  /\ groupTags' = IF edit[e].group \in groups THEN TagsReplaced(groupTags, edit[e].group, {x}) ELSE groupTags
  /\ EndEdit(e)
  /\ UNCHANGED <<groups, targets, groupTargets, targetTags, userTags, userGroups, lost>>

\* Delete: the targets are counted, the children are counted, the row is deleted.
DeleteGroup(e, p) ==
  /\ AtEdit(e, "idle") /\ p \in groups /\ TargetIDsForGroup(p) = {}
  /\ edit' = [edit EXCEPT ![e].pc = "children", ![e].group = p]
  /\ UNCHANGED <<groups, targets, groupTargets, groupTags, targetTags, userTags, userGroups, lost>>

CountChildren(e) ==
  /\ AtEdit(e, "children")
  /\ IF Children(edit[e].group) = {} THEN NextEdit(e, "deleteGroup") ELSE EndEdit(e)
  /\ UNCHANGED <<groups, targets, groupTargets, groupTags, targetTags, userTags, userGroups, lost>>

DeleteGroupRow(e) ==
  /\ AtEdit(e, "deleteGroup")
  /\ LET p == edit[e].group
     IN /\ groups' = groups \ {p}
        /\ groupTargets' = {r \in groupTargets : r[1] # p}
        /\ groupTags' = {r \in groupTags : r[1] # p}
        /\ userGroups' = [u \in Viewers |-> [userGroups[u] EXCEPT ![p] = "none"]]
        /\ lost' = lost \cup {t \in TargetIDsForGroup(p) : GroupIDsForTarget(t) = {p}}
  /\ EndEdit(e)
  /\ UNCHANGED <<targets, targetTags, userTags>>

\* handleCreateTarget and createTargetFromImport: the group is looked up, the row
\* inserted, the target put into the group, the group's tags read and set.
BeginTarget(e, t, p, how) ==
  /\ AtEdit(e, "idle") /\ p \in groups /\ t \notin targets
  /\ edit' = [edit EXCEPT ![e] = [NoEdit EXCEPT !.pc = "insert", !.group = p, !.target = t, !.how = how]]
  /\ UNCHANGED <<groups, targets, groupTargets, groupTags, targetTags, userTags, userGroups, lost>>

\* CreateWithPath.  An id that has been taken meanwhile makes the loop try another.
InsertTarget(e, t) ==
  /\ AtEdit(e, "insert") /\ t \notin targets
  /\ targets' = targets \cup {t}
  /\ edit' = [edit EXCEPT ![e].pc = "assign", ![e].target = t]
  /\ UNCHANGED <<groups, groupTargets, groupTags, targetTags, userTags, userGroups, lost>>

\* AddTargetToGroup: the group and the target must both be there.
AssignTarget(e) ==
  /\ AtEdit(e, "assign") /\ edit[e].group \in groups /\ edit[e].target \in targets
  /\ groupTargets' = groupTargets \cup {<<edit[e].group, edit[e].target>>}
  /\ lost' = lost \ {edit[e].target}
  /\ IF edit[e].how = "move" THEN EndEdit(e) ELSE NextEdit(e, "readTags")
  /\ UNCHANGED <<groups, targets, groupTags, targetTags, userTags, userGroups>>

\* It fails where one of them has gone, and whenever the store does: an import goes
\* to take its row back, a create and a move leave the target as it is.
AssignFails(e) ==
  /\ AtEdit(e, "assign")
  /\ IF edit[e].how = "import"
       THEN NextEdit(e, "undo") /\ UNCHANGED lost
       ELSE EndEdit(e) /\ lost' = lost \cup ({edit[e].target} \cap targets)
  /\ UNCHANGED <<groups, targets, groupTargets, groupTags, targetTags, userTags, userGroups>>

\* The tags of an import are its row's and the group's; a create has the group's
\* only.  A failing read of the group's counts as none.
InheritTags(e, own, read) ==
  /\ AtEdit(e, "readTags") /\ (edit[e].how = "import" \/ own = {})
  /\ edit' = [edit EXCEPT ![e].pc = "setTags",
                          ![e].tags = own \cup {x \in Tags : read /\ <<edit[e].group, x>> \in groupTags}]
  /\ UNCHANGED <<groups, targets, groupTargets, groupTags, targetTags, userTags, userGroups, lost>>

SetInherited(e) ==
  /\ AtEdit(e, "setTags")
  /\ LET t == edit[e].target
     IN targetTags' = IF t \in targets /\ edit[e].tags # {}
                        THEN TagsReplaced(targetTags, t, edit[e].tags) ELSE targetTags
  /\ EndEdit(e)
  /\ UNCHANGED <<groups, targets, groupTargets, groupTags, userTags, userGroups, lost>>

\* A later call of finish fails: an import goes to take its row back.
ImportFails(e) ==
  /\ edit[e].pc \in {"readTags", "setTags"} /\ edit[e].how = "import"
  /\ NextEdit(e, "undo")
  /\ UNCHANGED <<groups, targets, groupTargets, groupTags, targetTags, userTags, userGroups, lost>>

\* The Delete of a failed import, whose own error is ignored: often the request is
\* cancelled, and then it fails as the call before it did.
UndoImportFault(e) ==
  /\ AtEdit(e, "undo")
  /\ EndEdit(e)
  /\ UNCHANGED <<groups, targets, groupTargets, groupTags, targetTags, userTags, userGroups, lost>>

UndoImport(e) ==
  /\ AtEdit(e, "undo")
  /\ targets' = targets \ {edit[e].target}
  /\ groupTargets' = {r \in groupTargets : r[2] # edit[e].target}
  /\ targetTags' = {r \in targetTags : r[1] # edit[e].target}
  /\ lost' = lost \ {edit[e].target}
  /\ EndEdit(e)
  /\ UNCHANGED <<groups, groupTags, userTags, userGroups>>

UndoFails(e) ==
  /\ AtEdit(e, "undo")
  /\ EndEdit(e)
  /\ lost' = lost \cup {t \in {edit[e].target} \cap targets : GroupIDsForTarget(t) = {}}
  /\ UNCHANGED <<groups, targets, groupTargets, groupTags, targetTags, userTags, userGroups>>

\* handleUpdateTarget with another group: the destination is looked up, the groups
\* of the target are read, it leaves each of the others and enters the new one.
MoveTarget(e, t, p) ==
  /\ AtEdit(e, "idle") /\ t \in targets /\ p \in groups
  /\ edit' = [edit EXCEPT ![e] = [NoEdit EXCEPT !.pc = "readGroups", !.group = p, !.target = t, !.how = "move"]]
  /\ UNCHANGED <<groups, targets, groupTargets, groupTags, targetTags, userTags, userGroups, lost>>

ReadGroups(e) ==
  /\ AtEdit(e, "readGroups")
  /\ LET from == GroupIDsForTarget(edit[e].target)
     IN edit' = [edit EXCEPT ![e].from = from \ {edit[e].group},
                   ![e].pc = IF edit[e].target \notin targets THEN "over" ELSE
                             IF edit[e].group \in from THEN "leaveOnly" ELSE "leave"]
  /\ UNCHANGED <<groups, targets, groupTargets, groupTags, targetTags, userTags, userGroups, lost>>

\* RemoveTargetFromGroup fails for a group that has gone, and the request with it.
LeaveGroup(e, p) ==
  /\ edit[e].pc \in {"leave", "leaveOnly"} /\ p \in edit[e].from
  /\ IF p \in groups
       THEN /\ groupTargets' = groupTargets \ {<<p, edit[e].target>>}
            /\ edit' = [edit EXCEPT ![e].from = @ \ {p}]
            /\ lost' = lost \cup ({edit[e].target} \cap targets)
       ELSE EndEdit(e) /\ UNCHANGED <<groupTargets, lost>>
  /\ UNCHANGED <<groups, targets, groupTags, targetTags, userTags, userGroups>>

HasLeft(e) ==
  /\ edit[e].pc \in {"leave", "leaveOnly", "over"} /\ edit[e].from = {}
  /\ IF AtEdit(e, "leave") THEN NextEdit(e, "assign") ELSE EndEdit(e)
  /\ lost' = {t \in lost : AtEdit(e, "leave") \/ t # edit[e].target \/ GroupIDsForTarget(t) = {}}
  /\ UNCHANGED <<groups, targets, groupTargets, groupTags, targetTags, userTags, userGroups>>

\* A store error at any other call ends the request where it stands.
EditFails(e) ==
  /\ edit[e].pc \in {"groupTag", "children", "deleteGroup", "insert", "readGroups", "leave", "leaveOnly"}
  /\ EndEdit(e)
  /\ lost' = {t \in lost : t # edit[e].target \/ GroupIDsForTarget(t) = {}}
  /\ UNCHANGED <<groups, targets, groupTargets, groupTags, targetTags, userTags, userGroups>>

DeleteTarget(t) ==
  /\ t \in targets
  /\ targets' = targets \ {t}
  /\ groupTargets' = {r \in groupTargets : r[2] # t}
  /\ targetTags' = {r \in targetTags : r[1] # t}
  /\ lost' = lost \ {t}
  /\ UNCHANGED <<groups, groupTags, userTags, userGroups, edit>>

-------------------------------------------------------------------------------
\* Each of these is one transaction: handleSetTargetTags, handleSetGroupTags, and
\* the memberships, whose own protocol is in Membership.
SetTargetTags(t, tags) ==
  /\ t \in targets
  /\ targetTags' = TagsReplaced(targetTags, t, tags)
  /\ UNCHANGED <<groups, targets, groupTargets, groupTags, userTags, userGroups, edit, lost>>

SetGroupTags(p, tags) ==
  /\ p \in groups
  /\ groupTags' = TagsReplaced(groupTags, p, tags)
  /\ UNCHANGED <<groups, targets, groupTargets, targetTags, userTags, userGroups, edit, lost>>

SetMembership(u, p, state) ==
  /\ p \in groups
  /\ userGroups' = [userGroups EXCEPT ![u][p] = state]
  /\ UNCHANGED <<groups, targets, groupTargets, groupTags, targetTags, userTags, edit, lost>>

CatalogueNext ==
  \/ \E e \in Edits :
       \/ \E p \in Paths : CreateGroup(e, p) \/ DeleteGroup(e, p) \/ LeaveGroup(e, p)
       \/ \E x \in Tags : DefaultTag(e, x)
       \/ \E own \in SUBSET Tags, read \in BOOLEAN : InheritTags(e, own, read)
       \/ CountChildren(e) \/ DeleteGroupRow(e) \/ AssignTarget(e) \/ AssignFails(e)
       \/ SetInherited(e) \/ ImportFails(e) \/ UndoImport(e) \/ UndoFails(e)
       \/ ReadGroups(e) \/ HasLeft(e) \/ EditFails(e)
       \/ \E t \in TargetIds :
            \/ InsertTarget(e, t)
            \/ \E p \in Paths : MoveTarget(e, t, p)
            \/ \E p \in Paths, how \in {"create", "import"} : BeginTarget(e, t, p, how)
  \/ \E t \in TargetIds : DeleteTarget(t) \/ \E tags \in SUBSET Tags : SetTargetTags(t, tags)
  \/ \E p \in Paths, tags \in SUBSET Tags : SetGroupTags(p, tags)
  \/ \E u \in Viewers, p \in Paths, state \in {"none", "active", "expired"} : SetMembership(u, p, state)

CatalogueSpec == CatalogueInit /\ [][CatalogueNext]_catalogueVars

-------------------------------------------------------------------------------
\* UserIDsForTarget "mirrors TargetIDsForUser paths": whichever side asks, through
\* groups above, tags of the target or tags of a group above, the rows are the same.
\* The answers are cut at different limits, so one contradicts the other only where
\* there was more to list than its limit lets through.
AccessMirrors ==
  \A u \in Viewers, t \in targets :
    /\ u \in Invitable(t) <=> t \in Usable(u)
    /\ \A A \in TargetIDsForUser(u), B \in UserIDsForTarget(t) :
         /\ t \in A /\ Cardinality(Invitable(t)) =< InviteLimit => u \in B
         /\ u \in B /\ Cardinality(Usable(u)) =< ListLimit => t \in A

\* The tree of handleGroups leaves out nothing: a target that the user may use and
\* that is in a group is listed under a group of one of the tree's pages, and where
\* everything fits on one page, on that page.
AccessibleShown ==
  \A u \in Viewers : \A t \in Usable(u) :
    GroupIDsForTarget(t) # {} =>
      /\ GroupIDsForTarget(t) \cap Visible(u) # {}
      /\ Cardinality(Visible(u)) =< ListLimit =>
           \A G \in GroupIDsForUser(u) : GroupIDsForTarget(t) \cap G # {}

\* A target without a group is in no tree.  One comes about only where a create or
\* a move stopped halfway or a group was deleted under it; a failed import takes
\* its row back, unless that Delete fails too.  A request accounts for it only
\* between the insert and the end of the assignment or of the undoing.
GrouplessExplained ==
  \A t \in targets :
    GroupIDsForTarget(t) = {} =>
      t \in lost \/ \E e \in Edits : edit[e].pc \in {"assign", "undo"} /\ edit[e].target = t

\* Who may reach which target is the same from either side, what is shown is what
\* is reachable, and a target without a group is one that was left so.
AccessAgrees == AccessMirrors /\ AccessibleShown /\ GrouplessExplained

===============================================================================
