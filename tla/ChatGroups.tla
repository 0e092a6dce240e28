------------------------------ MODULE ChatGroups ------------------------------
(***************************************************************************)
(* MAX chats and Core's groups: a chat is bound to a group, and the people *)
(* of a bound chat are taken into the group                                *)
(* (src/internal/gateway/delivery/http/maxchat.go,                         *)
(* src/internal/gateway/membersync/service.go, src/pkg/maxapi/chat.go and  *)
(* the bindings in src/internal/gateway/repository/postgres/store.go), on  *)
(* top of Core's groups (CoreGroups).                                      *)
(*                                                                         *)
(* A handler asks Core for the role of its user, the Gateway's tables for  *)
(* chats and bindings, MAX for the people of a chat page by page, and Core *)
(* again to take them in; everything may change between any two of these   *)
(* questions.  Each is a step of its own here.  The handlers are complete, *)
(* but router.go does not offer them yet.                                  *)
(***************************************************************************)
EXTENDS CoreGroups

CONSTANTS
  Chats,      \* MAX chats
  Workloads   \* bound: [users, groups, calls, named, chats, people, requests, changes]
              \* says who sends requests about which groups, which calls of Core they
              \* make directly and whom these name, which chats have the bot and what
              \* people to begin with, which requests about chats arrive, and how often
              \* people and the bot come and go

ASSUME WorkloadsAssumption ==
  \A w \in Workloads :
    /\ w.users \subseteq Users /\ w.groups \subseteq Groups /\ w.chats \subseteq Chats
    /\ w.calls \subseteq {"join", "add", "role", "archive"} /\ w.named \subseteq Users
    /\ w.people \subseteq [Chats -> SUBSET Users]
    /\ w.requests \subseteq {"bind", "unbind", "sync"}
    /\ w.changes \in Nat

VARIABLES
  load,      \* the workload (it never changes)
  people,    \* people[h]: who is in the chat, bots left out; MAX knows
  present,   \* chats that gateway_max_chats has as active
  binding,   \* binding[h]: the row of gateway_max_chat_groups
  handling,  \* handling[c]: what the handler of c's request has found out so far
  changes    \* how often people and the bot have come and gone

chatVars    == <<load, people, present, binding, handling, changes>>
chatSystem  == <<groupVars, chatVars>>

Unbound   == [status |-> "none"]
NotHandling == [op |-> "none", stage |-> "none"]

Binding == {Unbound} \cup [status : {"active", "unbound"}, group : Groups, by : Users]

\* "ahead" are the people MAX has not come to yet in its list, "found" those the
\* handler has.  "stayed" and "seen" are history: who has been in the chat all the
\* time since the list was begun, and at some time.
Listing == [ahead : SUBSET Users, found : SUBSET Users, stayed : SUBSET Users, seen : SUBSET Users]

Handling ==
       {NotHandling}
  \cup [op : {"unbind", "sync"}, stage : {"allowed"}, user : Users, group : Groups]
  \cup [op : {"bind", "unbind", "sync"}, stage : {"allowed", "found", "active"},
        user : Users, group : Groups, chat : Chats]
  \cup [op : {"sync"}, stage : {"pages", "listed", "adding"},
        user : Users, group : Groups, chat : Chats, list : Listing]

ChatTypeOK ==
  /\ load \in Workloads
  /\ people \in [Chats -> SUBSET Users]
  /\ present \subseteq Chats
  /\ binding \in [Chats -> Binding]
  /\ handling \in [GroupClients -> Handling]
  /\ changes \in Nat

ChatInit ==
  /\ GroupInit
  /\ load \in Workloads
  /\ people \in load.people
  /\ present = load.chats
  /\ binding = [h \in Chats |-> Unbound]
  /\ handling = [c \in GroupClients |-> NotHandling]
  /\ changes = 0

-----------------------------------------------------------------------------
(* Chats: MAX's side, and what the Gateway has heard of it (UpdateInbox) *)

\* The synchronisation r, come as far as the stage with the list.
Synced(r, stage, list) ==
  [op |-> "sync", stage |-> stage, user |-> r.user, group |-> r.group, chat |-> r.chat,
   list |-> list]

\* Whoever is listing the chat has a newcomer among those seen, and somebody who
\* leaves no longer among those who stayed.
Noticed(r, h, u) ==
  IF r.stage # "pages" \/ r.chat # h THEN r
  ELSE Synced(r, "pages", [ahead |-> r.list.ahead, found |-> r.list.found,
                           stayed |-> r.list.stayed \ {u}, seen |-> r.list.seen \cup {u}])

Changes ==
  /\ changes < load.changes
  /\ changes' = changes + 1
  /\ UNCHANGED <<groupVars, load, binding>>

ComeOrGo(h, u) ==
  /\ Changes
  /\ people' = [people EXCEPT ![h] = IF u \in @ THEN @ \ {u} ELSE @ \cup {u}]
  /\ handling' = [c \in GroupClients |-> Noticed(handling[c], h, u)]
  /\ UNCHANGED present

BotComesOrGoes(h) ==
  /\ Changes
  /\ present' = IF h \in present THEN present \ {h} ELSE present \cup {h}
  /\ UNCHANGED <<people, handling>>

-----------------------------------------------------------------------------
(* What the handlers ask *)

Reached(c, r) == handling' = [handling EXCEPT ![c] = r]
Handled(c)    == Reached(c, NotHandling)
Asking        == UNCHANGED <<groupVars, load, people, present, binding, changes>>
At(c, ops, stage) == handling[c].op \in ops /\ handling[c].stage = stage

MayBegin(c) == handling[c] = NotHandling /\ Idle(c)

\* Variant: any member may.
AnyMemberManages(actorRole) == actorRole # "none"

CanManageMaxChat(actorRole) == actorRole \in Managers

\* core.GetGroup tells a member the role.
MayManage(c, op, u, g) ==
  /\ op \in load.requests
  /\ MayBegin(c)
  /\ IsMember(g, u) /\ CanManageMaxChat(role[g][u])
  /\ Asking

\* The chat to bind is the one the session was opened in.
BindGroupMaxChat(c, u, g, h) ==
  /\ MayManage(c, "bind", u, g)
  /\ Reached(c, [op |-> "bind", stage |-> "allowed", user |-> u, group |-> g, chat |-> h])

UnbindGroupMaxChat(c, u, g) ==
  /\ MayManage(c, "unbind", u, g)
  /\ Reached(c, [op |-> "unbind", stage |-> "allowed", user |-> u, group |-> g])

SyncGroupMaxChat(c, u, g) ==
  /\ MayManage(c, "sync", u, g)
  /\ Reached(c, [op |-> "sync", stage |-> "allowed", user |-> u, group |-> g])

BoundTo(h, g) == binding[h].status = "active" /\ binding[h].group = g

GetChatByGroup(c, h) ==
  LET r == handling[c]
  IN  /\ At(c, {"unbind", "sync"}, "allowed")
      /\ BoundTo(h, r.group)
      /\ Reached(c, [op |-> r.op, stage |-> "found", user |-> r.user, group |-> r.group,
                     chat |-> h])
      /\ Asking

IsChatActive(c) ==
  /\ At(c, {"bind"}, "allowed") \/ At(c, {"sync"}, "found")
  /\ handling[c].chat \in present
  /\ Reached(c, [handling[c] EXCEPT !.stage = "active"])
  /\ Asking

-----------------------------------------------------------------------------
(* Binding *)

\* Variant: the rows of other chats do not matter.
FreeForAll(g, h) == TRUE

\* No row of another chat names the group: neither an active one, which the first
\* statement finds, nor any, active or not, which UNIQUE (group_id) refuses.
FreeFor(g, h) == \A other \in Chats \ {h} : binding[other] # Unbound => binding[other].group # g

\* SELECT and INSERT as one step: UNIQUE decides what comes between them.
BindChatGroup(c) ==
  LET r == handling[c]
  IN  /\ At(c, {"bind"}, "active")
      /\ FreeFor(r.group, r.chat)
      /\ binding' = [binding EXCEPT ![r.chat] =
           [status |-> "active", group |-> r.group, by |-> r.user]]
      /\ Handled(c)
      /\ UNCHANGED <<groupVars, load, people, present, changes>>

\* The statement names the chat alone, whatever group it is bound to by now.
UnbindChatGroup(c) ==
  LET h == handling[c].chat
  IN  /\ At(c, {"unbind"}, "found")
      /\ binding' = IF binding[h].status # "active" THEN binding
                    ELSE [binding EXCEPT ![h].status = "unbound"]
      /\ Handled(c)
      /\ UNCHANGED <<groupVars, load, people, present, changes>>

-----------------------------------------------------------------------------
(* Taking the people of a chat into the group *)

BeginList(h) == [ahead |-> Users, found |-> {}, stayed |-> people[h], seen |-> people[h]]

\* The bot is an administrator of the chat, so that MAX will list its people.
GetBotMembership(c) ==
  LET r == handling[c]
  IN  /\ At(c, {"sync"}, "active")
      /\ Reached(c, Synced(r, "pages", BeginList(r.chat)))
      /\ Asking

\* Variant: a page replaces those before it.
LastPage(found, page) == page

Appended(found, page) == found \cup page

\* MAX goes on to some of the people ahead and returns those in the chat now; a
\* page without a marker is the last one.
GetChatMembers(c, next) ==
  LET r    == handling[c]
      page == next \cap people[r.chat]
  IN  /\ At(c, {"sync"}, "pages")
      /\ next # {} /\ next \subseteq r.list.ahead
      /\ Reached(c, Synced(r, IF next = r.list.ahead THEN "listed" ELSE "pages",
           [ahead |-> r.list.ahead \ next, found |-> Appended(r.list.found, page),
            stayed |-> r.list.stayed, seen |-> r.list.seen]))
      /\ Asking

\* core.UpsertUser, one person after the other; who fails is left out and counted
\* as unavailable.
UpsertUsers(c, known) ==
  LET r == handling[c]
  IN  /\ At(c, {"sync"}, "listed")
      /\ known \subseteq r.list.found
      /\ Reached(c, IF known = {} THEN NotHandling
                    ELSE Synced(r, "adding",
                           [ahead |-> r.list.ahead, found |-> known, seen |-> r.list.seen,
                            stayed |-> r.list.stayed \ (r.list.found \ known)]))
      /\ Asking

LookupSynced(c) ==
  LET r == handling[c]
  IN  /\ At(c, {"sync"}, "adding")
      /\ LookupAdd(c, r.user, r.group, r.list.found)
      /\ UNCHANGED chatVars

\* The call of Core a request waits for ends, and the request with it.
CoreAnswers(c) ==
  /\ GroupCallStep(c)
  /\ Handled(c)
  /\ UNCHANGED <<load, people, present, binding, changes>>

\* Anything else is refused, fails or is given up before Core is called.
GiveUp(c) ==
  /\ handling[c] # NotHandling /\ Idle(c)
  /\ Handled(c)
  /\ Asking

-----------------------------------------------------------------------------
(* Requests about groups only, straight to Core *)

Manage(c) ==
  /\ MayBegin(c)
  /\ \E u \in load.users, g \in load.groups :
       \/ CreateGroup(u, g)
       \/ "join" \in load.calls /\ JoinGroup(u, g)
       \/ "add" \in load.calls /\ \E users \in SUBSET load.named : LookupAdd(c, u, g, users)
       \/ "role" \in load.calls /\ \E target \in load.named, desired \in {"admin", "member"} :
            LookupRole(c, u, g, target, desired)
       \/ "archive" \in load.calls /\ LookupArchive(c, u, g)
  /\ UNCHANGED chatVars

SyncStep(c) ==
  \/ GetBotMembership(c)
  \/ \E next \in SUBSET Users : GetChatMembers(c, next)
  \/ \E known \in SUBSET Users : UpsertUsers(c, known)
  \/ LookupSynced(c)

ChatNext ==
  \/ \E h \in load.chats : BotComesOrGoes(h) \/ \E u \in Users : ComeOrGo(h, u)
  \/ \E c \in GroupClients :
       \/ Manage(c) \/ CoreAnswers(c) \/ GiveUp(c)
       \/ \E u \in load.users, g \in load.groups :
            \/ \E h \in load.chats : BindGroupMaxChat(c, u, g, h)
            \/ UnbindGroupMaxChat(c, u, g) \/ SyncGroupMaxChat(c, u, g)
       \/ \E h \in Chats : GetChatByGroup(c, h)
       \/ IsChatActive(c) \/ BindChatGroup(c) \/ UnbindChatGroup(c) \/ SyncStep(c)

ChatSpec == ChatInit /\ [][ChatNext]_chatSystem

-----------------------------------------------------------------------------
(* Properties *)

\* However bindings and unbindings race, a group has one chat at most (the claim
\* of src/migrations/gateway/002_chat_group_bindings.sql 10), which a manager of the
\* group has bound, though the role is read calls before the row is written.
BindingsHold ==
  \A h \in Chats :
    binding[h] # Unbound =>
      /\ WasManager(binding[h].group, binding[h].by)
      /\ \A other \in Chats \ {h} :
           binding[other] # Unbound => binding[other].group # binding[h].group

\* When a synchronisation has succeeded, whoever stayed in the chat while its people
\* were listed is a member of the group (if Core could register the person), and
\* nobody has got in who was not seen in it, although people come and go between
\* two pages, and roles, bindings and the group change before Core is called.
SyncWhole ==
  [][\A c \in GroupClients :
       handling[c].stage = "adding" /\ AddGroupMembers(c) =>
         LET r == handling[c]
         IN  /\ r.list.stayed \subseteq {u \in Users : role'[r.group][u] # "none"}
             /\ \A u \in Users \ r.list.seen : role'[r.group][u] = role[r.group][u]]_chatSystem

===============================================================================
