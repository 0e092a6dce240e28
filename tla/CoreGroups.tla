------------------------------ MODULE CoreGroups ------------------------------
(***************************************************************************)
(* Groups, members and roles of Core                                       *)
(* (src/internal/core/repository/postgres/group.go).                       *)
(*                                                                         *)
(* Every write runs in one READ COMMITTED transaction that starts by       *)
(* locking the group row FOR UPDATE, so the writes of one group happen one *)
(* after another and each is one action here.  What is NOT one action is   *)
(* the first statement of AddGroupMembers, UpdateMemberRole and            *)
(* ArchiveGroup: it joins groups with group_members and locks only the     *)
(* group row (FOR UPDATE OF g).  The roles in its result come from the     *)
(* snapshot the statement started with; if the row lock is granted later,  *)
(* the group's columns are read again when the row has changed, the        *)
(* members' columns are not.  So these three calls take two steps: Lookup* *)
(* reads the roles, the step named after the method has the lock, sees the *)
(* current group status, and does everything else.                         *)
(***************************************************************************)
EXTENDS Naturals, Sequences

CONSTANTS
  Users,        \* registered users (rows of users; they are never deleted)
  Groups,       \* identities a new group row may get
  GroupClients, \* concurrent callers of the two-step group operations
  MaxTrail      \* bound: managers' calls name users with fewer audit entries

ASSUME MaxTrailAssumption == MaxTrail \in Nat

VARIABLES
  status,       \* status[g]: "none" until the row exists
  role,         \* role[g][u]: group_members.role, "none" without a row
  groupTrail,   \* audit_log entries about the group itself
  memberTrail,  \* audit_log entries about each member of each group
  groupCall     \* groupCall[c]: what the open transaction of c has read

groupVars == <<status, role, groupTrail, memberTrail, groupCall>>

Status   == {"none", "active", "archived"}
Role     == {"none", "owner", "admin", "member"}
Managers == {"owner", "admin"}

\* A member entry records the role the entry leaves the member with.
MemberEntry ==
  [action : {"member_added", "member_joined", "member_role_updated"},
   role   : {"admin", "member"}]

NoGroupCall == [op |-> "none"]

GroupCall ==
       {NoGroupCall}
  \cup [op : {"add"}, actor : Users, group : Groups, users : SUBSET Users,
        actorRole : Role]
  \cup [op : {"role"}, actor : Users, group : Groups, target : Users,
        desired : {"admin", "member"}, actorRole : Role, targetRole : Role]
  \cup [op : {"archive"}, actor : Users, group : Groups, actorRole : Role]

\* The rows of groups, group_members and audit_log keep the values their columns
\* allow (src/migrations/core/001_init.sql 11-27), and a waiting statement holds
\* only roles that exist.
GroupTypeOK ==
  /\ status \in [Groups -> Status]
  /\ role \in [Groups -> [Users -> Role]]
  /\ groupTrail \in [Groups -> Seq({"created", "archived"})]
  /\ memberTrail \in [Groups -> [Users -> Seq(MemberEntry)]]
  /\ groupCall \in [GroupClients -> GroupCall]

IsMember(g, u) == role[g][u] # "none"
Members(g)     == {u \in Users : IsMember(g, u)}

GroupInit ==
  /\ status = [g \in Groups |-> "none"]
  /\ role = [g \in Groups |-> [u \in Users |-> "none"]]
  /\ groupTrail = [g \in Groups |-> <<>>]
  /\ memberTrail = [g \in Groups |-> [u \in Users |-> <<>>]]
  /\ groupCall = [c \in GroupClients |-> NoGroupCall]

-----------------------------------------------------------------------------
(* domain/group.go: the permission matrix *)

\* Variants: members are added to an archived group, the owner is demoted.
MemberAddAnyStatus(groupStatus, actorRole) == actorRole \in Managers
RoleChangeAnyTarget(groupStatus, actorRole, targetRole, desiredRole) ==
  groupStatus # "archived" /\ actorRole = "owner"

ValidateMemberAdd(groupStatus, actorRole) ==
  groupStatus # "archived" /\ actorRole \in Managers

ValidateRoleChange(groupStatus, actorRole, targetRole, desiredRole) ==
  /\ groupStatus # "archived"
  /\ desiredRole \in {"admin", "member"}
  /\ actorRole = "owner"
  /\ targetRole # "owner"

-----------------------------------------------------------------------------
(* Operations *)

Idle(c) == groupCall[c] = NoGroupCall

CreateGroup(actor, g) ==
  /\ status[g] = "none"
  /\ status' = [status EXCEPT ![g] = "active"]
  /\ role' = [role EXCEPT ![g][actor] = "owner"]
  /\ groupTrail' = [groupTrail EXCEPT ![g] = Append(@, "created")]
  /\ UNCHANGED <<memberTrail, groupCall>>

\* Variant: an existing member is inserted (and audited) again.
EnrolAgain(g, users, action) ==
  /\ role' = [role EXCEPT ![g] = [u \in Users |-> IF u \in users THEN "member" ELSE @[u]]]
  /\ memberTrail' = [memberTrail EXCEPT ![g] =
       [u \in Users |-> IF u \in users
                        THEN Append(@[u], [action |-> action, role |-> "member"])
                        ELSE @[u]]]

\* The audit entries and the rows INSERT ... ON CONFLICT DO NOTHING really adds.
Enrol(g, users, action) ==
  LET added == {u \in users : role[g][u] = "none"}
  IN  /\ role' = [role EXCEPT ![g] =
           [u \in Users |-> IF u \in added THEN "member" ELSE @[u]]]
      /\ memberTrail' = [memberTrail EXCEPT ![g] =
           [u \in Users |-> IF u \in added
                            THEN Append(@[u], [action |-> action, role |-> "member"])
                            ELSE @[u]]]

JoinGroup(actor, g) ==
  /\ status[g] = "active"
  /\ Enrol(g, {actor}, "member_joined")
  /\ UNCHANGED <<status, groupTrail, groupCall>>

LookupAdd(c, actor, g, users) ==
  /\ Idle(c)
  /\ IsMember(g, actor)
  /\ \A u \in users : Len(memberTrail[g][u]) < MaxTrail
  /\ groupCall' = [groupCall EXCEPT ![c] =
       [op |-> "add", actor |-> actor, group |-> g, users |-> users,
        actorRole |-> role[g][actor]]]
  /\ UNCHANGED <<status, role, groupTrail, memberTrail>>

LookupRole(c, actor, g, target, desired) ==
  /\ Idle(c)
  /\ IsMember(g, actor) /\ IsMember(g, target)
  /\ Len(memberTrail[g][target]) < MaxTrail
  /\ groupCall' = [groupCall EXCEPT ![c] =
       [op |-> "role", actor |-> actor, group |-> g, target |-> target,
        desired |-> desired, actorRole |-> role[g][actor],
        targetRole |-> role[g][target]]]
  /\ UNCHANGED <<status, role, groupTrail, memberTrail>>

LookupArchive(c, actor, g) ==
  /\ Idle(c)
  /\ IsMember(g, actor)
  /\ groupCall' = [groupCall EXCEPT ![c] =
       [op |-> "archive", actor |-> actor, group |-> g,
        actorRole |-> role[g][actor]]]
  /\ UNCHANGED <<status, role, groupTrail, memberTrail>>

Finish(c) == groupCall' = [groupCall EXCEPT ![c] = NoGroupCall]

AddGroupMembers(c) ==
  LET call == groupCall[c]
  IN  /\ call.op = "add"
      /\ ValidateMemberAdd(status[call.group], call.actorRole)
      /\ Enrol(call.group, call.users, "member_added")
      /\ Finish(c)
      /\ UNCHANGED <<status, groupTrail>>

UpdateMemberRole(c) ==
  LET call == groupCall[c]
  IN  /\ call.op = "role"
      /\ ValidateRoleChange(status[call.group], call.actorRole,
                            call.targetRole, call.desired)
      /\ role' = [role EXCEPT ![call.group][call.target] = call.desired]
      /\ memberTrail' = [memberTrail EXCEPT ![call.group][call.target] =
           Append(@, [action |-> "member_role_updated", role |-> call.desired])]
      /\ Finish(c)
      /\ UNCHANGED <<status, groupTrail>>

ArchiveGroup(c) ==
  LET call == groupCall[c]
  IN  /\ call.op = "archive"
      /\ call.actorRole \in Managers
      /\ status[call.group] = "active"
      /\ status' = [status EXCEPT ![call.group] = "archived"]
      /\ groupTrail' = [groupTrail EXCEPT ![call.group] = Append(@, "archived")]
      /\ Finish(c)
      /\ UNCHANGED <<role, memberTrail>>

\* Archiving an archived group commits nothing; a refused call rolls back, and
\* so does a call that fails, is cancelled or loses its connection.
EndGroupCall(c) ==
  /\ ~Idle(c)
  /\ Finish(c)
  /\ UNCHANGED <<status, role, groupTrail, memberTrail>>

GroupCallStep(c) ==
  AddGroupMembers(c) \/ UpdateMemberRole(c) \/ ArchiveGroup(c) \/ EndGroupCall(c)

GroupNext ==
  \/ \E actor \in Users, g \in Groups : CreateGroup(actor, g) \/ JoinGroup(actor, g)
  \/ \E c \in GroupClients, actor \in Users, g \in Groups :
       \/ \E users \in SUBSET Users : LookupAdd(c, actor, g, users)
       \/ \E target \in Users, desired \in {"admin", "member"} :
            LookupRole(c, actor, g, target, desired)
       \/ LookupArchive(c, actor, g)
  \/ \E c \in GroupClients : GroupCallStep(c)

GroupSpec == GroupInit /\ [][GroupNext]_groupVars

-----------------------------------------------------------------------------
(* Properties *)

\* An existing group has exactly one owner, however stale the roles were that
\* a concurrent role change or member add decided on.
OneOwner ==
  \A g \in Groups :
    status[g] # "none" =>
      \E u \in Users : \A v \in Users : role[g][v] = "owner" <=> v = u

\* The audit log explains the present: the role of every member is the one the
\* last entry about that member granted, members other than the owner were
\* admitted by exactly one entry, and the group's own entries tell its status.
AuditExplainsGroup ==
  \A g \in Groups :
    /\ groupTrail[g] = CASE status[g] = "none"     -> <<>>
                         [] status[g] = "active"   -> <<"created">>
                         [] status[g] = "archived" -> <<"created", "archived">>
    /\ \A u \in Users :
         LET entries == memberTrail[g][u]
         IN  /\ role[g][u] \in {"none", "owner"} <=> entries = <<>>
             /\ entries # <<>> => entries[Len(entries)].role = role[g][u]
             /\ \A i \in DOMAIN entries :
                  entries[i].action = "member_role_updated" <=> i > 1

\* Whoever is, or has been, allowed to manage the group.
WasManager(g, u) ==
  \/ role[g][u] = "owner"
  \/ \E k \in DOMAIN memberTrail[g][u] : memberTrail[g][u][k].role = "admin"

\* Membership only grows and an owner stays the owner; once a group is archived
\* its members, roles and status are fixed, whatever was read before.
GroupRatchet ==
  [][\A g \in Groups :
       /\ \A u \in Users :
            /\ role[g][u] # "none" => role'[g][u] # "none"
            /\ role[g][u] = "owner" => role'[g][u] = "owner"
       /\ status[g] = "archived" =>
            status'[g] = "archived" /\ role'[g] = role[g]]_groupVars

=============================================================================
