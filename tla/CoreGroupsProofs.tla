--------------------------- MODULE CoreGroupsProofs ---------------------------
(***************************************************************************)
(* Proofs about CoreGroups, for any users, groups and callers.             *)
(*                                                                         *)
(* OneOwner is not inductive: UpdateMemberRole trusts a role it read       *)
(* earlier.  What saves it is that "owner" is never gained or lost after   *)
(* creation, so the one thing the stale read must get right, whether the   *)
(* target is the owner, cannot have changed.  SnapshotHolds says so.       *)
(***************************************************************************)
EXTENDS CoreGroups, SequenceTheorems, TLAPS

\* A group that does not exist has no members and no history.
Unborn ==
  \A g \in Groups : status[g] = "none" => \A u \in Users : role[g][u] = "none"

\* What a waiting role change has read is still true where it matters.
SnapshotHolds ==
  \A c \in GroupClients :
    LET call == groupCall[c]
    IN  call.op = "role" =>
          /\ role[call.group][call.target] # "none"
          /\ role[call.group][call.target] = "owner" => call.targetRole = "owner"

\* A call was looked up in a group that existed.
CallsGrounded ==
  \A c \in GroupClients :
    groupCall[c].op # "none" => status[groupCall[c].group] # "none"

GroupInv == GroupTypeOK /\ OneOwner /\ Unborn /\ SnapshotHolds /\ CallsGrounded

-----------------------------------------------------------------------------
LEMMA InitTypes == GroupInit => GroupTypeOK
BY DEF GroupInit, GroupTypeOK, Status, Role, GroupCall, NoGroupCall

\* What the calls of each kind carry.
LEMMA CallShapes ==
  ASSUME GroupTypeOK, NEW c \in GroupClients
  PROVE  /\ groupCall[c].op \in {"none", "add", "role", "archive"}
         /\ groupCall[c].op = "none" => groupCall[c] = NoGroupCall
         /\ groupCall[c].op # "none" =>
              groupCall[c].group \in Groups /\ groupCall[c].actorRole \in Role
         /\ groupCall[c].op = "add" => groupCall[c].users \in SUBSET Users
         /\ groupCall[c].op = "role" =>
              /\ groupCall[c].target \in Users
              /\ groupCall[c].desired \in {"admin", "member"}
              /\ groupCall[c].targetRole \in Role
BY DEF GroupTypeOK, GroupCall, NoGroupCall

-----------------------------------------------------------------------------
(* Type correctness *)

\* Enrolling adds members and entries of the right type.
LEMMA EnrolTypes ==
  ASSUME GroupTypeOK, NEW g \in Groups, NEW users \in SUBSET Users,
         NEW action \in {"member_added", "member_joined"}, Enrol(g, users, action)
  PROVE  /\ role' \in [Groups -> [Users -> Role]]
         /\ memberTrail' \in [Groups -> [Users -> Seq(MemberEntry)]]
<1> DEFINE added == {u \in users : role[g][u] = "none"}
           entry == [action |-> action, role |-> "member"]
<1>1. entry \in MemberEntry
  BY DEF MemberEntry
<1>2. [u \in Users |-> IF u \in added THEN "member" ELSE role[g][u]] \in [Users -> Role]
  BY DEF GroupTypeOK, Role
<1>3. [u \in Users |-> IF u \in added THEN Append(memberTrail[g][u], entry)
                       ELSE memberTrail[g][u]] \in [Users -> Seq(MemberEntry)]
  BY <1>1 DEF GroupTypeOK
<1> QED
  BY <1>2, <1>3 DEF Enrol, GroupTypeOK

LEMMA StepTypes == GroupTypeOK /\ [GroupNext]_groupVars => GroupTypeOK'
<1> SUFFICES ASSUME GroupTypeOK, [GroupNext]_groupVars PROVE GroupTypeOK'
  OBVIOUS
<1> USE DEF GroupTypeOK
<1>1. CASE UNCHANGED groupVars
  BY <1>1 DEF groupVars
<1>2. ASSUME NEW actor \in Users, NEW g \in Groups, CreateGroup(actor, g)
      PROVE  GroupTypeOK'
  <2>1. role' \in [Groups -> [Users -> Role]]
    BY <1>2 DEF CreateGroup, Role
  <2>2. groupTrail' \in [Groups -> Seq({"created", "archived"})]
    BY <1>2 DEF CreateGroup
  <2> QED
    BY <1>2, <2>1, <2>2 DEF CreateGroup, Status
<1>3. ASSUME NEW actor \in Users, NEW g \in Groups, JoinGroup(actor, g)
      PROVE  GroupTypeOK'
  BY <1>3, EnrolTypes DEF JoinGroup
<1>4. ASSUME NEW c \in GroupClients, NEW actor \in Users, NEW g \in Groups,
             NEW users \in SUBSET Users, LookupAdd(c, actor, g, users)
      PROVE  GroupTypeOK'
  BY <1>4 DEF LookupAdd, GroupCall
<1>5. ASSUME NEW c \in GroupClients, NEW actor \in Users, NEW g \in Groups,
             NEW target \in Users, NEW desired \in {"admin", "member"},
             LookupRole(c, actor, g, target, desired)
      PROVE  GroupTypeOK'
  BY <1>5 DEF LookupRole, GroupCall
<1>6. ASSUME NEW c \in GroupClients, NEW actor \in Users, NEW g \in Groups,
             LookupArchive(c, actor, g)
      PROVE  GroupTypeOK'
  BY <1>6 DEF LookupArchive, GroupCall
<1>7. ASSUME NEW c \in GroupClients, GroupCallStep(c)
      PROVE  GroupTypeOK'
  <2> Finish(c) => groupCall' \in [GroupClients -> GroupCall]
    BY DEF Finish, GroupCall, NoGroupCall
  <2>1. CASE AddGroupMembers(c)
    BY <2>1, CallShapes, EnrolTypes DEF AddGroupMembers
  <2>2. CASE UpdateMemberRole(c)
    <3> DEFINE call == groupCall[c]
               entry == [action |-> "member_role_updated", role |-> call.desired]
    <3>1. call.group \in Groups /\ call.target \in Users /\ call.desired \in {"admin", "member"}
      BY <2>2, CallShapes DEF UpdateMemberRole
    <3>2. role' \in [Groups -> [Users -> Role]]
      BY <2>2, <3>1 DEF UpdateMemberRole, Role
    <3>3. entry \in MemberEntry
      BY <3>1 DEF MemberEntry
    <3>4. memberTrail' \in [Groups -> [Users -> Seq(MemberEntry)]]
      BY <2>2, <3>1, <3>3 DEF UpdateMemberRole
    <3> QED
      BY <2>2, <3>2, <3>4 DEF UpdateMemberRole
  <2>3. CASE ArchiveGroup(c)
    <3>1. groupCall[c].group \in Groups
      BY <2>3, CallShapes DEF ArchiveGroup
    <3> QED
      BY <2>3, <3>1 DEF ArchiveGroup, Status
  <2>4. CASE EndGroupCall(c)
    BY <2>4 DEF EndGroupCall
  <2> QED
    BY <1>7, <2>1, <2>2, <2>3, <2>4 DEF GroupCallStep
<1> QED
  BY <1>1, <1>2, <1>3, <1>4, <1>5, <1>6, <1>7 DEF GroupNext

\* The variables of Core's groups always have their types.
THEOREM GroupTypeCorrect == GroupSpec => []GroupTypeOK
BY InitTypes, StepTypes, PTL DEF GroupSpec

-----------------------------------------------------------------------------
(* Roles only ever move the way the ratchet allows *)

\* What a step may do to one group: a new group gets its creator as the owner;
\* an existing one keeps its members and its owner, and gains no other owner.
Born(g) ==
  \E actor \in Users :
    /\ status[g] = "none" /\ status'[g] = "active"
    /\ role'[g] = [role[g] EXCEPT ![actor] = "owner"]
    /\ groupCall' = groupCall

Ratchet(g) ==
  /\ \A u \in Users :
       /\ role[g][u] # "none" => role'[g][u] # "none"
       /\ role'[g][u] = "owner" <=> role[g][u] = "owner"
  /\ status[g] # "none" => status'[g] # "none"
  /\ status[g] = "none" => status'[g] = "none" /\ role'[g] = role[g]
  /\ status[g] = "archived" => status'[g] = "archived" /\ role'[g] = role[g]

LEMMA EnrolRatchet ==
  ASSUME GroupTypeOK, NEW g \in Groups, NEW users \in SUBSET Users, NEW action,
         Enrol(g, users, action), status' = status,
         status[g] = "active"
  PROVE  \A h \in Groups : Ratchet(h)
<1> USE DEF GroupTypeOK
<1>1. Ratchet(g)
  BY DEF Enrol, Ratchet
<1>2. \A h \in Groups : h # g => Ratchet(h)
  BY DEF Enrol, Ratchet
<1> QED
  BY <1>1, <1>2

LEMMA StepRatchet ==
  ASSUME GroupInv, [GroupNext]_groupVars, NEW h \in Groups
  PROVE  Born(h) \/ Ratchet(h)
<1> USE DEF GroupInv
<1>1. CASE UNCHANGED groupVars
  BY <1>1 DEF groupVars, Ratchet
<1>2. ASSUME NEW actor \in Users, NEW g \in Groups, CreateGroup(actor, g)
      PROVE  Born(h) \/ Ratchet(h)
  <2>1. CASE h = g
    BY <1>2, <2>1 DEF CreateGroup, Born, GroupTypeOK
  <2>2. CASE h # g
    BY <1>2, <2>2 DEF CreateGroup, Ratchet, GroupTypeOK
  <2> QED
    BY <2>1, <2>2
<1>3. ASSUME NEW actor \in Users, NEW g \in Groups, JoinGroup(actor, g)
      PROVE  Ratchet(h)
  BY <1>3, EnrolRatchet DEF JoinGroup
<1>4. ASSUME NEW c \in GroupClients, NEW actor \in Users, NEW g \in Groups,
             NEW users \in SUBSET Users, LookupAdd(c, actor, g, users)
      PROVE  Ratchet(h)
  BY <1>4 DEF LookupAdd, Ratchet
<1>5. ASSUME NEW c \in GroupClients, NEW actor \in Users, NEW g \in Groups,
             NEW target \in Users, NEW desired \in {"admin", "member"},
             LookupRole(c, actor, g, target, desired)
      PROVE  Ratchet(h)
  BY <1>5 DEF LookupRole, Ratchet
<1>6. ASSUME NEW c \in GroupClients, NEW actor \in Users, NEW g \in Groups,
             LookupArchive(c, actor, g)
      PROVE  Ratchet(h)
  BY <1>6 DEF LookupArchive, Ratchet
<1>7. ASSUME NEW c \in GroupClients, GroupCallStep(c)
      PROVE  Ratchet(h)
  <2>1. CASE AddGroupMembers(c)
    <3>1. /\ groupCall[c].group \in Groups
          /\ groupCall[c].users \in SUBSET Users
          /\ status[groupCall[c].group] = "active"
      BY <2>1, CallShapes DEF AddGroupMembers, ValidateMemberAdd, CallsGrounded,
                              GroupTypeOK, Status
    <3> QED
      BY <2>1, <3>1, EnrolRatchet DEF AddGroupMembers
  <2>2. CASE UpdateMemberRole(c)
    <3> DEFINE g == groupCall[c].group
               target == groupCall[c].target
    <3>1. /\ g \in Groups /\ target \in Users
          /\ groupCall[c].desired \in {"admin", "member"}
          /\ status[g] = "active"
          /\ role[g][target] # "none" /\ role[g][target] # "owner"
      BY <2>2, CallShapes DEF UpdateMemberRole, ValidateRoleChange, CallsGrounded,
                              SnapshotHolds, GroupTypeOK, Status
    <3>2. role' = [role EXCEPT ![g][target] = groupCall[c].desired] /\ status' = status
      BY <2>2 DEF UpdateMemberRole
    <3> QED
      BY <3>1, <3>2 DEF Ratchet, GroupTypeOK
  <2>3. CASE ArchiveGroup(c)
    BY <2>3, CallShapes DEF ArchiveGroup, Ratchet, GroupTypeOK
  <2>4. CASE EndGroupCall(c)
    BY <2>4 DEF EndGroupCall, Ratchet
  <2> QED
    BY <1>7, <2>1, <2>2, <2>3, <2>4 DEF GroupCallStep
<1> QED
  BY <1>1, <1>2, <1>3, <1>4, <1>5, <1>6, <1>7 DEF GroupNext

\* A call that is open after a step was open before it or was just looked up.
LEMMA StepCalls ==
  ASSUME GroupTypeOK, [GroupNext]_groupVars, NEW c \in GroupClients
  PROVE  \/ groupCall'[c] = groupCall[c]
         \/ groupCall'[c] = NoGroupCall
         \/ /\ status' = status /\ role' = role
            /\ role[groupCall'[c].group] \in [Users -> Role]
            /\ \E u \in Users : role[groupCall'[c].group][u] # "none"
            /\ groupCall'[c].group \in Groups
            /\ groupCall'[c].op = "role" =>
                 /\ role[groupCall'[c].group][groupCall'[c].target] # "none"
                 /\ groupCall'[c].targetRole = role[groupCall'[c].group][groupCall'[c].target]
<1> USE DEF GroupTypeOK
<1>1. CASE UNCHANGED groupVars
  BY <1>1 DEF groupVars
<1>2. ASSUME NEW actor \in Users, NEW g \in Groups,
             CreateGroup(actor, g) \/ JoinGroup(actor, g)
      PROVE  groupCall'[c] = groupCall[c]
  BY <1>2 DEF CreateGroup, JoinGroup
<1>3. ASSUME NEW d \in GroupClients, NEW actor \in Users, NEW g \in Groups,
             NEW users \in SUBSET Users, LookupAdd(d, actor, g, users),
             groupCall'[c] # groupCall[c]
      PROVE  /\ status' = status /\ role' = role /\ groupCall'[c].op = "add"
             /\ groupCall'[c].group = g /\ role[g][actor] # "none"
  BY <1>3 DEF LookupAdd, IsMember
<1>4. ASSUME NEW d \in GroupClients, NEW actor \in Users, NEW g \in Groups,
             NEW target \in Users, NEW desired \in {"admin", "member"},
             LookupRole(d, actor, g, target, desired), groupCall'[c] # groupCall[c]
      PROVE  /\ status' = status /\ role' = role /\ groupCall'[c].op = "role"
             /\ groupCall'[c].group = g /\ groupCall'[c].target = target
             /\ groupCall'[c].targetRole = role[g][target]
             /\ role[g][actor] # "none" /\ role[g][target] # "none"
  BY <1>4 DEF LookupRole, IsMember
<1>5. ASSUME NEW d \in GroupClients, NEW actor \in Users, NEW g \in Groups,
             LookupArchive(d, actor, g), groupCall'[c] # groupCall[c]
      PROVE  /\ status' = status /\ role' = role /\ groupCall'[c].op = "archive"
             /\ groupCall'[c].group = g /\ role[g][actor] # "none"
  BY <1>5 DEF LookupArchive, IsMember
<1>6. ASSUME NEW d \in GroupClients, GroupCallStep(d)
      PROVE  groupCall'[c] = groupCall[c] \/ groupCall'[c] = NoGroupCall
  BY <1>6 DEF GroupCallStep, AddGroupMembers, UpdateMemberRole, ArchiveGroup,
              EndGroupCall, Finish
<1> QED
  BY <1>1, <1>2, <1>3, <1>4, <1>5, <1>6 DEF GroupNext

-----------------------------------------------------------------------------
(* The inductive invariant *)

LEMMA InitInv == GroupInit => GroupInv
BY InitTypes DEF GroupInit, GroupInv, OneOwner, Unborn, SnapshotHolds,
                 CallsGrounded, NoGroupCall

LEMMA StepInv == GroupInv /\ [GroupNext]_groupVars => GroupInv'
<1> SUFFICES ASSUME GroupInv, [GroupNext]_groupVars PROVE GroupInv'
  OBVIOUS
<1>1. GroupTypeOK'
  BY StepTypes DEF GroupInv
<1>2. \A h \in Groups : Born(h) \/ Ratchet(h)
  BY StepRatchet
<1>3. OneOwner'
  <2> SUFFICES ASSUME NEW g \in Groups, status'[g] # "none"
               PROVE  \E u \in Users : \A v \in Users : role'[g][v] = "owner" <=> v = u
    BY DEF OneOwner
  <2>1. CASE Born(g)
    BY <2>1 DEF Born, GroupInv, Unborn, GroupTypeOK
  <2>2. CASE Ratchet(g)
    BY <2>2 DEF Ratchet, GroupInv, OneOwner
  <2> QED
    BY <1>2, <2>1, <2>2
<1>4. Unborn'
  <2> SUFFICES ASSUME NEW g \in Groups, status'[g] = "none", NEW u \in Users
               PROVE  role'[g][u] = "none"
    BY DEF Unborn
  <2>1. Ratchet(g)
    BY <1>2 DEF Born
  <2> QED
    BY <2>1 DEF Ratchet, GroupInv, Unborn
<1>5. SnapshotHolds'
  <2> SUFFICES ASSUME NEW c \in GroupClients, groupCall'[c].op = "role"
               PROVE  LET call == groupCall'[c]
                      IN  /\ role'[call.group][call.target] # "none"
                          /\ role'[call.group][call.target] = "owner" =>
                               call.targetRole = "owner"
    BY DEF SnapshotHolds
  <2>1. CASE groupCall'[c] = groupCall[c]
    <3>1. /\ groupCall[c].group \in Groups /\ groupCall[c].target \in Users
          /\ status[groupCall[c].group] # "none"
      BY <2>1, CallShapes DEF GroupInv, CallsGrounded
    <3>2. Ratchet(groupCall[c].group)
      BY <1>2, <3>1 DEF Born
    <3> QED
      BY <2>1, <3>1, <3>2 DEF GroupInv, SnapshotHolds, Ratchet
  <2>2. CASE groupCall'[c] # groupCall[c]
    BY <2>2, StepCalls DEF GroupInv, NoGroupCall
  <2> QED
    BY <2>1, <2>2
<1>6. CallsGrounded'
  <2> SUFFICES ASSUME NEW c \in GroupClients, groupCall'[c].op # "none"
               PROVE  status'[groupCall'[c].group] # "none"
    BY DEF CallsGrounded
  <2>1. CASE groupCall'[c] = groupCall[c]
    <3>1. groupCall[c].group \in Groups /\ status[groupCall[c].group] # "none"
      BY <2>1, CallShapes DEF GroupInv, CallsGrounded
    <3>2. Ratchet(groupCall[c].group)
      BY <1>2, <3>1 DEF Born
    <3> QED
      BY <2>1, <3>1, <3>2 DEF Ratchet
  <2>2. CASE groupCall'[c] # groupCall[c]
    BY <2>2, StepCalls DEF GroupInv, NoGroupCall, Unborn
  <2> QED
    BY <2>1, <2>2
<1> QED
  BY <1>1, <1>3, <1>4, <1>5, <1>6 DEF GroupInv

THEOREM GroupInvariant == GroupSpec => []GroupInv
BY InitInv, StepInv, PTL DEF GroupSpec

\* Every existing group has exactly one owner, whatever roles the callers read
\* before they got the lock.
THEOREM OneOwnerAlways == GroupSpec => []OneOwner
<1>1. GroupInv => OneOwner
  BY DEF GroupInv
<1> QED
  BY <1>1, GroupInvariant, PTL

\* Members and owners are for good; an archived group is frozen.
THEOREM GroupsRatchet == GroupSpec => GroupRatchet
<1> DEFINE Kept == \A g \in Groups :
       /\ \A u \in Users :
            /\ role[g][u] # "none" => role'[g][u] # "none"
            /\ role[g][u] = "owner" => role'[g][u] = "owner"
       /\ status[g] = "archived" =>
            status'[g] = "archived" /\ role'[g] = role[g]
<1>1. GroupInv /\ [GroupNext]_groupVars => Kept
  <2> SUFFICES ASSUME GroupInv, [GroupNext]_groupVars, NEW g \in Groups
               PROVE  /\ \A u \in Users :
                           /\ role[g][u] # "none" => role'[g][u] # "none"
                           /\ role[g][u] = "owner" => role'[g][u] = "owner"
                      /\ status[g] = "archived" =>
                           status'[g] = "archived" /\ role'[g] = role[g]
    OBVIOUS
  <2>1. CASE Born(g)
    BY <2>1 DEF Born, GroupInv, Unborn
  <2>2. CASE Ratchet(g)
    BY <2>2 DEF Ratchet
  <2> QED
    BY <2>1, <2>2, StepRatchet
<1> QED
  BY <1>1, GroupInvariant, PTL DEF GroupSpec, GroupRatchet

-----------------------------------------------------------------------------
(* The audit log explains the groups *)

\* AuditExplainsGroup says these two things of every group, member by member.
StatusStory(g) ==
  groupTrail[g] = CASE status[g] = "none"     -> <<>>
                    [] status[g] = "active"   -> <<"created">>
                    [] status[g] = "archived" -> <<"created", "archived">>

MemberStory(g, u) ==
  LET entries == memberTrail[g][u]
  IN  /\ role[g][u] \in {"none", "owner"} <=> entries = <<>>
      /\ entries # <<>> => entries[Len(entries)].role = role[g][u]
      /\ \A i \in DOMAIN entries :
           entries[i].action = "member_role_updated" <=> i > 1

LEMMA Stories ==
  AuditExplainsGroup <=>
    \A g \in Groups : StatusStory(g) /\ \A u \in Users : MemberStory(g, u)
BY DEF AuditExplainsGroup, StatusStory, MemberStory

LEMMA EnrolStory ==
  ASSUME GroupTypeOK, NEW g \in Groups, NEW users \in SUBSET Users,
         NEW action \in {"member_added", "member_joined"}, Enrol(g, users, action),
         NEW h \in Groups, NEW u \in Users, MemberStory(h, u)
  PROVE  MemberStory(h, u)'
<1> USE DEF GroupTypeOK
<1>1. CASE h # g \/ u \notin users \/ role[g][u] # "none"
  <2>1. role'[h][u] = role[h][u] /\ memberTrail'[h][u] = memberTrail[h][u]
    BY <1>1 DEF Enrol
  <2> QED
    BY <2>1 DEF MemberStory
<1>2. CASE h = g /\ u \in users /\ role[g][u] = "none"
  <2>1. memberTrail[g][u] = <<>>
    BY <1>2 DEF MemberStory
  <2> DEFINE entry == [action |-> action, role |-> "member"]
  <2>2. role'[g][u] = "member"
    BY <1>2 DEF Enrol
  <2>3. memberTrail'[g][u] = Append(memberTrail[g][u], entry)
    BY <1>2 DEF Enrol
  <2>4. memberTrail'[g][u] = <<entry>>
    BY <2>1, <2>3
  <2> QED
    BY <1>2, <2>2, <2>4 DEF MemberStory
<1> QED
  BY <1>1, <1>2

LEMMA StepMemberStory ==
  ASSUME GroupInv, [GroupNext]_groupVars, NEW h \in Groups, NEW u \in Users,
         MemberStory(h, u)
  PROVE  MemberStory(h, u)'
<1> USE DEF GroupInv
<1>1. CASE role'[h][u] = role[h][u] /\ memberTrail'[h][u] = memberTrail[h][u]
  BY <1>1 DEF MemberStory
<1>2. ASSUME NEW actor \in Users, NEW g \in Groups, CreateGroup(actor, g)
      PROVE  MemberStory(h, u)'
  <2>1. CASE h = g /\ u = actor
    <3>1. memberTrail'[h][u] = <<>>
      BY <1>2, <2>1 DEF CreateGroup, MemberStory, Unborn
    <3>2. role'[h][u] = "owner"
      BY <1>2, <2>1 DEF CreateGroup, GroupTypeOK
    <3> QED
      BY <3>1, <3>2 DEF MemberStory
  <2>2. CASE ~(h = g /\ u = actor)
    BY <1>1, <1>2, <2>2 DEF CreateGroup, GroupTypeOK
  <2> QED
    BY <2>1, <2>2
<1>3. ASSUME NEW actor \in Users, NEW g \in Groups, JoinGroup(actor, g)
      PROVE  MemberStory(h, u)'
  BY <1>3, EnrolStory DEF JoinGroup
<1>4. ASSUME NEW c \in GroupClients, AddGroupMembers(c)
      PROVE  MemberStory(h, u)'
  BY <1>4, CallShapes, EnrolStory DEF AddGroupMembers
<1>5. ASSUME NEW c \in GroupClients, UpdateMemberRole(c)
      PROVE  MemberStory(h, u)'
  <2> DEFINE call == groupCall[c]
             entries == memberTrail[h][u]
             entry == [action |-> "member_role_updated", role |-> call.desired]
  <2>1. CASE h = call.group /\ u = call.target
    <3>1. call.desired \in {"admin", "member"} /\ role[h][u] \notin {"none", "owner"}
      BY <1>5, <2>1, CallShapes DEF UpdateMemberRole, ValidateRoleChange, SnapshotHolds
    <3>2. entries \in Seq(MemberEntry) /\ entries # <<>>
      BY <3>1 DEF MemberStory, GroupTypeOK
    <3>3. entry \in MemberEntry
      BY <3>1 DEF MemberEntry
    <3>4. role'[h][u] = call.desired /\ memberTrail'[h][u] = Append(entries, entry)
      BY <1>5, <2>1 DEF UpdateMemberRole, GroupTypeOK
    <3>5. /\ Len(entries) \in Nat \ {0}
          /\ Len(memberTrail'[h][u]) = Len(entries) + 1
          /\ memberTrail'[h][u] # <<>>
          /\ memberTrail'[h][u][Len(entries) + 1] = entry
          /\ DOMAIN memberTrail'[h][u] = 1..(Len(entries) + 1)
          /\ \A i \in 1..Len(entries) : memberTrail'[h][u][i] = entries[i]
      BY <3>2, <3>3, <3>4
    <3> QED
      BY <3>1, <3>2, <3>4, <3>5 DEF MemberStory
  <2>2. CASE ~(h = call.group /\ u = call.target)
    BY <1>1, <1>5, <2>2 DEF UpdateMemberRole, GroupTypeOK
  <2> QED
    BY <2>1, <2>2
<1> QED
  BY <1>1, <1>2, <1>3, <1>4, <1>5
     DEF GroupNext, groupVars, GroupCallStep, LookupAdd, LookupRole, LookupArchive,
         ArchiveGroup, EndGroupCall

LEMMA AppendToOne ==
  ASSUME NEW S, NEW x \in S, NEW y \in S
  PROVE  Append(<<x>>, y) = <<x, y>>
<1> DEFINE s == Append(<<x>>, y)
           t == <<x, y>>
<1>1. <<x>> \in Seq(S) /\ t \in Seq(S)
  OBVIOUS
<1>2. s \in Seq(S) /\ Len(s) = 2 /\ Len(t) = 2
  BY <1>1
<1>3. s[1] = t[1] /\ s[2] = t[2]
  BY <1>1
<1> HIDE DEF s, t
<1>4. \A i \in 1..Len(s) : s[i] = t[i]
  BY <1>2, <1>3
<1>5. s = t
  BY <1>1, <1>2, <1>4, SeqEqual
<1> QED
  BY <1>5 DEF s, t

LEMMA StepStatusStory ==
  ASSUME GroupInv, [GroupNext]_groupVars, NEW h \in Groups, StatusStory(h)
  PROVE  StatusStory(h)'
<1> USE DEF GroupInv
<1>1. CASE status' = status /\ groupTrail' = groupTrail
  BY <1>1 DEF StatusStory
<1>2. ASSUME NEW actor \in Users, NEW g \in Groups, CreateGroup(actor, g)
      PROVE  StatusStory(h)'
  <2>1. CASE h = g
    <3>1. groupTrail[h] = <<>>
      BY <1>2, <2>1 DEF CreateGroup, StatusStory
    <3>2. status'[h] = "active" /\ groupTrail'[h] = <<"created">>
      BY <1>2, <2>1, <3>1 DEF CreateGroup, GroupTypeOK
    <3> QED
      BY <3>2 DEF StatusStory
  <2>2. CASE h # g
    BY <1>2, <2>2 DEF CreateGroup, StatusStory, GroupTypeOK
  <2> QED
    BY <2>1, <2>2
<1>3. ASSUME NEW c \in GroupClients, ArchiveGroup(c)
      PROVE  StatusStory(h)'
  <2>1. CASE h = groupCall[c].group
    <3>1. groupTrail[h] = <<"created">>
      BY <1>3, <2>1 DEF ArchiveGroup, StatusStory
    <3>2. Append(<<"created">>, "archived") = <<"created", "archived">>
      <4>1. "created" \in {"created", "archived"} /\ "archived" \in {"created", "archived"}
        OBVIOUS
      <4> QED
        BY <4>1, AppendToOne
    <3>3. status'[h] = "archived" /\ groupTrail'[h] = Append(groupTrail[h], "archived")
      BY <1>3, <2>1 DEF ArchiveGroup, GroupTypeOK
    <3>4. groupTrail'[h] = <<"created", "archived">>
      BY <3>1, <3>2, <3>3
    <3> QED
      BY <3>3, <3>4 DEF StatusStory
  <2>2. CASE h # groupCall[c].group
    BY <1>3, <2>2 DEF ArchiveGroup, StatusStory, GroupTypeOK
  <2> QED
    BY <2>1, <2>2
<1>4. ASSUME NEW c \in GroupClients, GroupCallStep(c)
      PROVE  StatusStory(h)'
  <2>1. CASE ArchiveGroup(c)
    BY <2>1, <1>3
  <2>2. CASE AddGroupMembers(c) \/ UpdateMemberRole(c) \/ EndGroupCall(c)
    <3>1. UNCHANGED <<status, groupTrail>>
      BY <2>2 DEF AddGroupMembers, UpdateMemberRole, EndGroupCall
    <3> QED
      BY <3>1, <1>1
  <2> QED
    BY <1>4, <2>1, <2>2 DEF GroupCallStep
<1>5. ASSUME NEW actor \in Users, NEW g \in Groups, JoinGroup(actor, g)
      PROVE  StatusStory(h)'
  BY <1>5, <1>1 DEF JoinGroup
<1>6. ASSUME NEW c \in GroupClients, NEW actor \in Users, NEW g \in Groups,
             \/ \E users \in SUBSET Users : LookupAdd(c, actor, g, users)
             \/ \E target \in Users, desired \in {"admin", "member"} :
                  LookupRole(c, actor, g, target, desired)
             \/ LookupArchive(c, actor, g)
      PROVE  StatusStory(h)'
  <2>1. UNCHANGED <<status, groupTrail>>
    BY <1>6 DEF LookupAdd, LookupRole, LookupArchive
  <2> QED
    BY <2>1, <1>1
<1>7. CASE UNCHANGED groupVars
  BY <1>7, <1>1 DEF groupVars
<1> QED
  BY <1>2, <1>4, <1>5, <1>6, <1>7 DEF GroupNext

\* Roles and statuses can always be recovered from the audit log.
THEOREM AuditExplains == GroupSpec => []AuditExplainsGroup
<1>1. GroupInit => AuditExplainsGroup
  BY DEF GroupInit, AuditExplainsGroup
<1>2. GroupInv /\ AuditExplainsGroup /\ [GroupNext]_groupVars => AuditExplainsGroup'
  <2> SUFFICES ASSUME GroupInv, AuditExplainsGroup, [GroupNext]_groupVars
               PROVE  AuditExplainsGroup'
    OBVIOUS
  <2>1. \A g \in Groups : StatusStory(g)' /\ \A u \in Users : MemberStory(g, u)'
    BY Stories, StepStatusStory, StepMemberStory
  <2> QED
    BY <2>1 DEF AuditExplainsGroup, StatusStory, MemberStory
<1> QED
  BY <1>1, <1>2, GroupInvariant, PTL DEF GroupSpec

-----------------------------------------------------------------------------
(* Once a manager, always a former manager *)

\* Entries of the audit log stay.
LEMMA TrailGrows ==
  ASSUME GroupInv, [GroupNext]_groupVars, NEW h \in Groups, NEW u \in Users,
         NEW k \in DOMAIN memberTrail[h][u]
  PROVE  k \in DOMAIN memberTrail'[h][u] /\ memberTrail'[h][u][k] = memberTrail[h][u][k]
<1> USE DEF GroupInv
<1> DEFINE entries == memberTrail[h][u]
<1>1. entries \in Seq(MemberEntry)
  BY DEF GroupTypeOK
<1>2. ASSUME NEW e \in MemberEntry
      PROVE  k \in DOMAIN Append(entries, e) /\ Append(entries, e)[k] = entries[k]
  BY <1>1
<1>3. ASSUME NEW g \in Groups, NEW users \in SUBSET Users,
             NEW action \in {"member_added", "member_joined"}, Enrol(g, users, action)
      PROVE  memberTrail'[h][u] = entries \/ \E e \in MemberEntry : memberTrail'[h][u] = Append(entries, e)
  <2>1. [action |-> action, role |-> "member"] \in MemberEntry
    BY DEF MemberEntry
  <2> QED
    BY <1>3, <2>1 DEF Enrol, GroupTypeOK
<1>4. ASSUME NEW c \in GroupClients, UpdateMemberRole(c)
      PROVE  memberTrail'[h][u] = entries \/ \E e \in MemberEntry : memberTrail'[h][u] = Append(entries, e)
  <2>1. [action |-> "member_role_updated", role |-> groupCall[c].desired] \in MemberEntry
    BY <1>4, CallShapes DEF UpdateMemberRole, MemberEntry
  <2>2. groupCall[c].group \in Groups /\ groupCall[c].target \in Users
    BY <1>4, CallShapes DEF UpdateMemberRole
  <2> QED
    BY <1>4, <2>1, <2>2 DEF UpdateMemberRole, GroupTypeOK
<1>5. ASSUME NEW c \in GroupClients, AddGroupMembers(c)
      PROVE  memberTrail'[h][u] = entries \/ \E e \in MemberEntry : memberTrail'[h][u] = Append(entries, e)
  BY <1>3, <1>5, CallShapes DEF AddGroupMembers
<1>6. ASSUME NEW actor \in Users, NEW g \in Groups, JoinGroup(actor, g)
      PROVE  memberTrail'[h][u] = entries \/ \E e \in MemberEntry : memberTrail'[h][u] = Append(entries, e)
  BY <1>3, <1>6 DEF JoinGroup
<1>7. memberTrail'[h][u] = entries \/ \E e \in MemberEntry : memberTrail'[h][u] = Append(entries, e)
  <2>1. CASE UNCHANGED memberTrail
    BY <2>1
  <2> QED
    BY <2>1, <1>4, <1>5, <1>6
       DEF GroupNext, groupVars, GroupCallStep, CreateGroup, LookupAdd, LookupRole,
           LookupArchive, ArchiveGroup, EndGroupCall
<1> QED
  BY <1>2, <1>7

LEMMA WasManagerStays ==
  ASSUME GroupInv, [GroupNext]_groupVars, NEW g \in Groups, NEW u \in Users, WasManager(g, u)
  PROVE  WasManager(g, u)'
<1>1. CASE role[g][u] = "owner"
  BY <1>1, StepRatchet DEF WasManager, Born, Ratchet, GroupInv, Unborn
<1>2. CASE \E k \in DOMAIN memberTrail[g][u] : memberTrail[g][u][k].role = "admin"
  BY <1>2, TrailGrows DEF WasManager
<1> QED
  BY <1>1, <1>2 DEF WasManager

\* A manager is one who was one: an admin's last entry says so.
LEMMA ManagerWas ==
  ASSUME GroupTypeOK, AuditExplainsGroup, NEW g \in Groups, NEW u \in Users,
         role[g][u] \in Managers
  PROVE  WasManager(g, u)
<1> DEFINE entries == memberTrail[g][u]
<1>1. CASE role[g][u] = "admin"
  <2>1. entries # <<>> /\ entries \in Seq(MemberEntry) /\ entries[Len(entries)].role = "admin"
    BY <1>1 DEF AuditExplainsGroup, GroupTypeOK
  <2>2. Len(entries) \in DOMAIN entries
    BY <2>1
  <2> QED
    BY <2>1, <2>2 DEF WasManager
<1> QED
  BY <1>1 DEF Managers, WasManager

===============================================================================
