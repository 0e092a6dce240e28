-------------------------- MODULE GatewayAccessProofs --------------------------
(***************************************************************************)
(* Proofs about GatewayAccess and ChatGroups, the two sides on which the   *)
(* Gateway meets Core's groups, for any users, groups, chats, callers,     *)
(* lifetimes and workloads.                                                *)
(*                                                                         *)
(* First, the Gateway changes groups only the way Core lets it             *)
(* (GatewayUsesCore, ChatsUseCore), so all that CoreGroupsProofs says of   *)
(* groups holds of them.  Second, none of the modules' own properties is   *)
(* inductive.  A statement outlives the request that made it: GoodRequest  *)
(* says what a request still owes to the statement it was checked against; *)
(* Holds ties the invite it carries to one that was issued, OnTime the     *)
(* time it may already be late.  And a list is read page by page while     *)
(* people come and go: GoodList says what is true between two pages        *)
(* (whoever stayed is found or still ahead, whoever is found was seen),    *)
(* GoodFor that Core is called with the list the request has.              *)
(***************************************************************************)
EXTENDS GatewayAccess, ChatGroups, CoreGroupsProofs

\* The longest time between initData and the end of a session made from it.
SessionEnd == InitDataTTL + 2 * Deadline + SessionTTL

\* The invite a request carries has been issued, and was live when it was checked.
Holds(r) ==
  /\ r.op \in {"login", "launch"} => r.invite = NoInvite
  /\ r.op = "joining" => r.invite # NoInvite
  /\ r.op \in {"joining", "session", "handler"} /\ r.invite # NoInvite => r.invite \in invites
  /\ r.op \in {"joining", "handler"} /\ r.invite # NoInvite => r.invite.left + r.waited > 0

\* How old the initData behind a request is at most.
OnTime(r) ==
  /\ r.op = "login" => r.age =< InitDataTTL + r.waited
  /\ r.op \in {"joining", "launch"} => r.age =< InitDataTTL + Deadline + r.waited
  /\ r.op = "session" => r.age =< InitDataTTL + 2 * Deadline
  /\ r.op = "handler" => r.age < SessionEnd + r.waited
  /\ r.op = "invite" => r.age < Lapse
  /\ r.op = "download" => r.age < Lapse + DownloadTTL + r.waited

GoodRequest(r) ==
  /\ r \in Request /\ Holds(r) /\ OnTime(r)
  /\ r.op = "invite" => WasManager(r.group, r.user)

GoodSession(s) ==
  /\ s \in Session
  /\ 0 =< s.left /\ s.left =< SessionTTL /\ s.age + s.left =< SessionEnd
  /\ s.invite # NoInvite => s.invite \in invites

GoodLink(l) ==
  /\ l \in Link
  /\ 0 =< l.left /\ l.left =< DownloadTTL /\ l.age + l.left < Lapse + DownloadTTL

GoodInvite(i) == i \in Invite /\ i.left =< InviteTTL /\ WasManager(i.group, i.by)

AccessInv ==
  /\ registered \subseteq Users
  /\ exports \subseteq [user : Users, group : Groups]
  /\ \A s \in sessions : GoodSession(s)
  /\ \A l \in links : GoodLink(l)
  /\ \A i \in invites : GoodInvite(i)
  /\ request \in [GroupClients -> Request]
  /\ \A c \in GroupClients : GoodRequest(request[c])

-----------------------------------------------------------------------------
(* What a request carries *)

LEMMA RequestShapes ==
  ASSUME NEW r \in Request
  PROVE  /\ r.op \in {"none", "login", "joining", "launch", "session", "handler",
                      "invite", "download"}
         /\ r.op = "none" <=> r = NoRequest
         /\ r.op \in {"login", "joining", "launch", "session", "handler"} =>
              /\ r \in [op : {"login", "joining", "launch", "session", "handler"},
                        user : Users, invite : Context, waited : 0 .. Deadline, age : Age]
              /\ "invite" \in DOMAIN r
         /\ r.op \in {"invite", "download"} =>
              /\ r \in [op : {"invite", "download"}, user : Users, group : Groups,
                        waited : 0 .. Deadline, age : Age]
              /\ "invite" \notin DOMAIN r
BY DEF Request, NoRequest

\* A request that goes on.
LEMMA Onward ==
  ASSUME NEW r \in [op : {"login", "joining", "launch", "session", "handler"},
                    user : Users, invite : Context, waited : 0 .. Deadline, age : Age]
  PROVE  /\ [r EXCEPT !.op = "session", !.waited = 0] =
              [op |-> "session", user |-> r.user, invite |-> r.invite, waited |-> 0, age |-> r.age]
         /\ [r EXCEPT !.op = "launch"] =
              [op |-> "launch", user |-> r.user, invite |-> r.invite, waited |-> r.waited, age |-> r.age]
         /\ \A i : [r EXCEPT !.op = "joining", !.invite = i] =
              [op |-> "joining", user |-> r.user, invite |-> i, waited |-> r.waited, age |-> r.age]
<1> DEFINE q(op) == [op |-> op, user |-> r.user, invite |-> r.invite, waited |-> r.waited,
                     age |-> r.age]
<1>1. \A op : [r EXCEPT !.op = op] = q(op)
  OBVIOUS
<1>2. [q("session") EXCEPT !.waited = 0] =
        [op |-> "session", user |-> r.user, invite |-> r.invite, waited |-> 0, age |-> r.age]
  OBVIOUS
<1>3. \A i : [q("joining") EXCEPT !.invite = i] =
        [op |-> "joining", user |-> r.user, invite |-> i, waited |-> r.waited, age |-> r.age]
  OBVIOUS
<1>4. /\ [r EXCEPT !.op = "session", !.waited = 0] = [[r EXCEPT !.op = "session"] EXCEPT !.waited = 0]
      /\ \A i : [r EXCEPT !.op = "joining", !.invite = i] =
                  [[r EXCEPT !.op = "joining"] EXCEPT !.invite = i]
  OBVIOUS
<1> QED
  BY <1>1, <1>2, <1>3, <1>4

LEMMA InviteShapes ==
  ASSUME NEW i \in Context, i # NoInvite
  PROVE  i \in Invite
BY DEF Context

\* Numbers the proofs add and compare.
LEMMA Numbers ==
  /\ Deadline \in Nat
  /\ InitDataTTL \in Nat /\ SessionTTL \in Nat /\ InviteTTL \in Nat /\ DownloadTTL \in Nat
  /\ InitDataTTL > 0 /\ SessionTTL > 0 /\ InviteTTL > 0 /\ DownloadTTL > 0
  /\ SessionEnd \in Nat /\ Lapse = SessionEnd + Deadline /\ Lapse \in Nat
  /\ \A n \in Int : n \in Age <=> 0 =< n /\ n =< Lapse + DownloadTTL + Deadline
  /\ \A n \in Int : n \in Left <=> -Deadline =< n /\ n =< SessionTTL + InviteTTL + DownloadTTL
BY AccessAssumption DEF SessionEnd, Lapse, Age, Left

-----------------------------------------------------------------------------
(* The Gateway as a client of Core *)

\* Every step leaves the groups alone or is a step of Core.
LEMMA StepOfCore ==
  ASSUME AccessInv, AccessNext
  PROVE  [GroupNext]_groupVars
<1>1. CASE Tick
  BY <1>1 DEF Tick, groupVars
<1>2. ASSUME NEW c \in GroupClients, LoginStep(c)
      PROVE  [GroupNext]_groupVars
  <2>1. CASE LoginJoins(c)
    <3>1. request[c].user \in Users /\ request[c].invite.group \in Groups
      BY <2>1, RequestShapes, InviteShapes DEF LoginJoins, AccessInv, GoodRequest, Holds, Invite
    <3> QED
      BY <2>1, <3>1 DEF LoginJoins, GroupNext
  <2> QED
    BY <1>2, <2>1 DEF LoginStep, UpsertUser, Launch, IssueSession, CoreStays
<1>3. ASSUME NEW c \in GroupClients, HandlerStep(c)
      PROVE  [GroupNext]_groupVars
  <2>1. Handles(c) => request[c].user \in Users
    BY RequestShapes DEF Handles, AccessInv
  <2>2. CASE IssueInvite(c)
    BY <2>2 DEF IssueInvite, CoreStays
  <2>3. ASSUME NEW g \in Groups,
               \/ HandleCreateGroup(c, g) \/ HandleArchiveGroup(c, g) \/ HandleJoinGroup(c, g)
        PROVE  GroupNext
    BY <2>1, <2>3 DEF HandleCreateGroup, HandleArchiveGroup, HandleJoinGroup, Forwards, GroupNext
  <2>4. ASSUME NEW g \in Groups,
               HandleCreateInvite(c, g) \/ HandleCreateExport(c, g) \/ HandleGetExport(c, g)
        PROVE  UNCHANGED groupVars
    BY <2>4 DEF HandleCreateInvite, HandleCreateExport, HandleGetExport, CoreStays
  <2>5. ASSUME NEW g \in Groups, NEW users \in SUBSET Users, HandleAddGroupMembers(c, g, users)
        PROVE  GroupNext
    BY <2>1, <2>5 DEF HandleAddGroupMembers, Forwards, GroupNext
  <2>6. ASSUME NEW g \in Groups, NEW u \in Users, NEW desired \in {"admin", "member"},
               HandleUpdateMemberRole(c, g, u, desired)
        PROVE  GroupNext
    BY <2>1, <2>6 DEF HandleUpdateMemberRole, Forwards, GroupNext
  <2> QED
    BY <1>3, <2>2, <2>3, <2>4, <2>5, <2>6 DEF HandlerStep
<1>4. ASSUME NEW c \in GroupClients, CoreStep(c)
      PROVE  GroupNext
  BY <1>4 DEF CoreStep, GroupNext
<1>5. ASSUME NEW c \in GroupClients,
             \/ \E u \in Users, age \in Age : MaxLogin(c, u, age)
             \/ \E s \in sessions : SessionAuth(c, s)
             \/ \E g \in Groups : DownloadActor(c, g)
             \/ EndRequest(c)
      PROVE  UNCHANGED groupVars
  BY <1>5 DEF MaxLogin, SessionAuth, DownloadActor, EndRequest, CoreStays
<1> QED
  BY <1>1, <1>2, <1>3, <1>4, <1>5 DEF AccessNext

-----------------------------------------------------------------------------
(* Statements and requests keep their promises *)

\* What is good stays good while nothing expires.
LEMMA GoodStays ==
  ASSUME GroupInv, [GroupNext]_groupVars, invites \subseteq invites'
  PROVE  /\ \A r \in Request : GoodRequest(r) => GoodRequest(r)'
         /\ \A s \in Session : GoodSession(s) => GoodSession(s)'
         /\ \A l \in Link : GoodLink(l) => GoodLink(l)'
         /\ \A i \in Invite : GoodInvite(i) => GoodInvite(i)'
<1>1. ASSUME NEW r \in Request, GoodRequest(r) PROVE GoodRequest(r)'
  <2>1. Holds(r)'
    BY <1>1 DEF GoodRequest, Holds
  <2>2. r.op = "invite" => WasManager(r.group, r.user)'
    BY <1>1, RequestShapes, WasManagerStays DEF GoodRequest
  <2> QED
    BY <1>1, <2>1, <2>2 DEF GoodRequest, OnTime
<1>2. ASSUME NEW i \in Invite, GoodInvite(i) PROVE GoodInvite(i)'
  BY <1>2, WasManagerStays DEF GoodInvite, Invite
<1> QED
  BY <1>1, <1>2 DEF GoodSession, GoodLink

\* A step of one request that issues nothing.
LEMMA RequestStep ==
  ASSUME GroupInv, [GroupNext]_groupVars, AccessInv, NEW c \in GroupClients,
         NEW r \in Request, GoodRequest(r), Checked(c, r), registered' \subseteq Users,
         exports' \subseteq [user : Users, group : Groups], UNCHANGED issuedVars
  PROVE  AccessInv'
<1> USE DEF AccessInv
<1>1. UNCHANGED <<sessions, invites, links>>
  BY DEF issuedVars
<1>2. /\ \A s \in sessions : GoodSession(s)'
      /\ \A l \in links : GoodLink(l)'
      /\ \A i \in invites : GoodInvite(i)'
  BY <1>1, GoodStays DEF GoodSession, GoodLink, GoodInvite
<1>3. request' = [request EXCEPT ![c] = r]
  BY DEF Checked
<1>4. \A q \in Request : GoodRequest(q) => GoodRequest(q)'
  BY <1>1, GoodStays
<1>5. ASSUME NEW d \in GroupClients PROVE GoodRequest(request[d])' /\ request'[d] \in Request
  <2>1. request'[d] \in Request /\ GoodRequest(request'[d])
    BY <1>3
  <2> QED
    BY <1>4, <2>1
<1> QED
  BY <1>1, <1>2, <1>3, <1>5

LEMMA NoneIsGood == NoRequest \in Request /\ GoodRequest(NoRequest)
BY DEF Request, NoRequest, GoodRequest, Holds, OnTime

\* A handler that is done.
LEMMA DoneStep ==
  ASSUME GroupInv, [GroupNext]_groupVars, AccessInv, NEW c \in GroupClients, Done(c),
         UNCHANGED <<registered, issuedVars>>, exports' \subseteq [user : Users, group : Groups]
  PROVE  AccessInv'
BY NoneIsGood, RequestStep DEF Done, AccessInv

LEMMA MaxLoginStep ==
  ASSUME GroupInv, [GroupNext]_groupVars, AccessInv, NEW c \in GroupClients,
         NEW u \in Users, NEW age \in Age, MaxLogin(c, u, age)
  PROVE  AccessInv'
<1> DEFINE r == [op |-> "login", user |-> u, invite |-> NoInvite, waited |-> 0, age |-> age]
<1>1. r \in Request /\ GoodRequest(r)
  BY Numbers DEF MaxLogin, FreshInitData, Request, Context, GoodRequest, Holds, OnTime, Age
<1>2. Checked(c, r) /\ UNCHANGED <<registered, issuedVars, exports>>
  BY DEF MaxLogin
<1> HIDE DEF r
<1> QED
  BY <1>1, <1>2, RequestStep DEF AccessInv

LEMMA UpsertUserStep ==
  ASSUME GroupInv, [GroupNext]_groupVars, AccessInv, NEW c \in GroupClients, UpsertUser(c)
  PROVE  AccessInv'
<1> DEFINE r == [request[c] EXCEPT !.op = "session", !.waited = 0]
<1>1. /\ request[c] \in [op : {"login", "joining", "launch", "session", "handler"},
                         user : Users, invite : Context, waited : 0 .. Deadline, age : Age]
      /\ request[c].op = "login" /\ request[c].invite = NoInvite
      /\ request[c].age =< InitDataTTL + Deadline
  BY RequestShapes, Numbers DEF UpsertUser, AccessInv, GoodRequest, Holds, OnTime, Age
<1>2. /\ r.op = "session" /\ r.waited = 0 /\ r.invite = NoInvite /\ r.user \in Users
      /\ r.age =< InitDataTTL + Deadline /\ r.age \in Age
      /\ r \in [op : {"login", "joining", "launch", "session", "handler"},
                user : Users, invite : Context, waited : 0 .. Deadline, age : Age]
  <2>1. r = [op |-> "session", user |-> request[c].user, invite |-> NoInvite, waited |-> 0,
             age |-> request[c].age]
    BY <1>1, Onward
  <2>2. 0 \in 0 .. Deadline
    BY Numbers
  <2> HIDE DEF r
  <2> QED
    BY <1>1, <2>1, <2>2
<1> HIDE DEF r
<1>3. ASSUME NEW q \in StartParam(r) PROVE q \in Request /\ GoodRequest(q)
  <2>1. CASE q = r
    BY <1>2, <2>1, Numbers DEF Request, GoodRequest, Holds, OnTime, Age
  <2>2. CASE q = LaunchParam(r)
    BY <1>2, <2>2, Numbers DEF LaunchParam, Request, GoodRequest, Holds, OnTime, Age
  <2>3. ASSUME NEW i \in invites, Live(i), q = [r EXCEPT !.op = "joining", !.invite = i]
        PROVE  q \in Request /\ GoodRequest(q)
    <3>1. i \in Context /\ i # NoInvite /\ i.left \in Int
      BY <2>3, Numbers DEF AccessInv, GoodInvite, Context, Invite, NoInvite, Left
    <3>2. q = [op |-> "joining", user |-> r.user, invite |-> i, waited |-> 0, age |-> r.age]
      BY <1>2, <2>3, Onward
    <3> QED
      BY <1>2, <2>3, <3>1, <3>2, Numbers DEF Live, Request, GoodRequest, Holds, OnTime, Age
  <2> QED
    BY <1>3, <2>1, <2>2, <2>3 DEF StartParam, InviteParam
<1>4. \E q \in StartParam(r) : Checked(c, q)
  BY DEF UpsertUser, r
<1>5. registered' \subseteq Users /\ UNCHANGED <<issuedVars, exports>>
  BY <1>2 DEF UpsertUser, AccessInv, r
<1> QED
  BY <1>3, <1>4, <1>5, RequestStep DEF AccessInv

LEMMA LoginJoinsStep ==
  ASSUME GroupInv, [GroupNext]_groupVars, AccessInv, NEW c \in GroupClients,
         LoginJoins(c) \/ Launch(c)
  PROVE  AccessInv'
<1> DEFINE r == [request[c] EXCEPT !.op = "session", !.waited = 0]
<1>1. /\ request[c] \in [op : {"login", "joining", "launch", "session", "handler"},
                         user : Users, invite : Context, waited : 0 .. Deadline, age : Age]
      /\ request[c].invite # NoInvite => request[c].invite \in invites
      /\ request[c].age =< InitDataTTL + 2 * Deadline
  BY RequestShapes, Numbers DEF LoginJoins, Launch, AccessInv, GoodRequest, Holds, OnTime, Age
<1>2. r \in Request /\ GoodRequest(r)
  <2>1. r = [op |-> "session", user |-> request[c].user, invite |-> request[c].invite,
             waited |-> 0, age |-> request[c].age]
    BY <1>1, Onward
  <2> QED
    BY <1>1, <2>1, Numbers DEF Request, GoodRequest, Holds, OnTime, Age
<1>3. Checked(c, r) /\ UNCHANGED <<registered, issuedVars, exports>>
  BY DEF LoginJoins, Launch
<1> HIDE DEF r
<1> QED
  BY <1>2, <1>3, RequestStep DEF AccessInv

LEMMA SessionAuthStep ==
  ASSUME GroupInv, [GroupNext]_groupVars, AccessInv, NEW c \in GroupClients,
         NEW s \in sessions, SessionAuth(c, s)
  PROVE  AccessInv'
<1> DEFINE r == [op |-> "handler", user |-> s.user, invite |-> VerifySession(s),
                 waited |-> 0, age |-> s.age]
<1>1. /\ s \in Session /\ s.left > 0 /\ s.age + s.left =< SessionEnd
      /\ s.invite # NoInvite => s.invite \in invites
      /\ s.user \in Users /\ s.age \in Age /\ s.left \in Int
  BY Numbers DEF SessionAuth, Live, AccessInv, GoodSession, Session, Left
<1>2. /\ VerifySession(s) \in Context
      /\ VerifySession(s) # NoInvite => VerifySession(s) \in invites /\ VerifySession(s).left > 0
  BY <1>1 DEF VerifySession, Live, Context, AccessInv, GoodInvite
<1>3. r \in Request /\ GoodRequest(r)
  <2>1. \A i \in invites : i.left \in Int
    BY DEF AccessInv, GoodInvite, Invite, Left
  <2>2. r \in Request
    BY <1>1, <1>2, Numbers DEF Request
  <2>3. Holds(r)
    BY <1>2, <2>1 DEF Holds
  <2>4. OnTime(r)
    BY <1>1, Numbers DEF OnTime, Age
  <2> QED
    BY <2>2, <2>3, <2>4 DEF GoodRequest
<1>4. Checked(c, r) /\ UNCHANGED <<registered, issuedVars, exports>>
  BY DEF SessionAuth
<1> HIDE DEF r
<1> QED
  BY <1>3, <1>4, RequestStep DEF AccessInv

LEMMA DownloadActorStep ==
  ASSUME GroupInv, [GroupNext]_groupVars, AccessInv, NEW c \in GroupClients,
         NEW g \in Groups, DownloadActor(c, g)
  PROVE  AccessInv'
<1>1. PICK s \in {t \in sessions : Live(t)} \cup {l \in links : VerifyLink(l, g)} :
        Checked(c, [op |-> "download", user |-> s.user, group |-> g, waited |-> 0, age |-> s.age])
  BY DEF DownloadActor
<1> DEFINE r == [op |-> "download", user |-> s.user, group |-> g, waited |-> 0, age |-> s.age]
<1>2. s.user \in Users /\ s.age \in Age /\ s.age < Lapse + DownloadTTL
  <2>1. CASE s \in sessions /\ Live(s)
    BY <2>1, Numbers DEF Live, AccessInv, GoodSession, Session, Left, Age
  <2>2. CASE s \in links /\ VerifyLink(s, g)
    BY <2>2, Numbers DEF VerifyLink, Live, AccessInv, GoodLink, Link, Left, Age
  <2> QED
    BY <2>1, <2>2
<1>3. r \in Request /\ GoodRequest(r)
  BY <1>2, Numbers DEF Request, GoodRequest, Holds, OnTime, Age
<1>4. Checked(c, r) /\ UNCHANGED <<registered, issuedVars, exports>>
  BY <1>1 DEF DownloadActor
<1> HIDE DEF r
<1> QED
  BY <1>3, <1>4, RequestStep DEF AccessInv

LEMMA HandleCreateInviteStep ==
  ASSUME GroupInv, AuditExplainsGroup, [GroupNext]_groupVars, AccessInv,
         NEW c \in GroupClients, NEW g \in Groups, HandleCreateInvite(c, g)
  PROVE  AccessInv'
<1> DEFINE r == [op |-> "invite", user |-> request[c].user, group |-> g, waited |-> 0,
                 age |-> request[c].age]
<1>1. /\ request[c].user \in Users /\ request[c].age \in Age /\ request[c].age < Lapse
      /\ role[g][request[c].user] \in Managers
  BY RequestShapes, Numbers DEF HandleCreateInvite, Handles, AccessInv, GoodRequest, OnTime, Age
<1>2. r \in Request /\ GoodRequest(r)
  BY <1>1, ManagerWas, Numbers DEF GroupInv, Request, GoodRequest, Holds, OnTime
<1>3. Checked(c, r) /\ UNCHANGED <<registered, issuedVars, exports>>
  BY DEF HandleCreateInvite
<1> HIDE DEF r
<1> QED
  BY <1>2, <1>3, RequestStep DEF AccessInv

\* A handler that has issued something.
LEMMA IssueStep ==
  ASSUME GroupInv, [GroupNext]_groupVars, AccessInv, NEW c \in GroupClients, Done(c),
         UNCHANGED <<registered, exports>>, invites \subseteq invites',
         \A s \in sessions' : s \in sessions \/ (s \in Session /\ GoodSession(s)),
         \A l \in links' : l \in links \/ (l \in Link /\ GoodLink(l)),
         \A i \in invites' : i \in invites \/ (i \in Invite /\ GoodInvite(i))
  PROVE  AccessInv'
<1> USE DEF AccessInv
<1>1. /\ \A s \in sessions' : GoodSession(s)'
      /\ \A l \in links' : GoodLink(l)'
      /\ \A i \in invites' : GoodInvite(i)'
  BY GoodStays DEF GoodSession, GoodLink, GoodInvite
<1>2. request' = [request EXCEPT ![c] = NoRequest]
  BY DEF Done, Checked
<1>3. \A q \in Request : GoodRequest(q) => GoodRequest(q)'
  BY GoodStays
<1>4. ASSUME NEW d \in GroupClients PROVE GoodRequest(request[d])' /\ request'[d] \in Request
  <2>1. request'[d] \in Request /\ GoodRequest(request'[d])
    BY <1>2, NoneIsGood
  <2> QED
    BY <1>3, <2>1
<1> QED
  BY <1>1, <1>2, <1>4, NoneIsGood

LEMMA IssueSessionStep ==
  ASSUME GroupInv, [GroupNext]_groupVars, AccessInv, NEW c \in GroupClients, IssueSession(c)
  PROVE  AccessInv'
<1>1. /\ request[c].op = "session" /\ request[c].user \in Users
      /\ request[c].invite \in Context /\ request[c].age \in Age
      /\ request[c].invite # NoInvite => request[c].invite \in invites
      /\ request[c].age =< InitDataTTL + 2 * Deadline
  BY RequestShapes DEF IssueSession, AccessInv, GoodRequest, Holds, OnTime
<1>2. SessionOf(request[c]) \in Session /\ GoodSession(SessionOf(request[c]))
  BY <1>1, Numbers DEF SessionOf, Session, GoodSession, SessionEnd, Left, Age
<1> QED
  BY <1>2, IssueStep DEF IssueSession

LEMMA IssueInviteStep ==
  ASSUME GroupInv, [GroupNext]_groupVars, AccessInv, NEW c \in GroupClients, IssueInvite(c)
  PROVE  AccessInv'
<1>1. /\ request[c].group \in Groups /\ request[c].user \in Users
      /\ WasManager(request[c].group, request[c].user)
  BY RequestShapes DEF IssueInvite, AccessInv, GoodRequest
<1>2. InviteOf(request[c]) \in Invite /\ GoodInvite(InviteOf(request[c]))
  BY <1>1, Numbers DEF InviteOf, Invite, GoodInvite, Left
<1> QED
  BY <1>2, IssueStep DEF IssueInvite

LEMMA HandleGetExportStep ==
  ASSUME GroupInv, [GroupNext]_groupVars, AccessInv, NEW c \in GroupClients, NEW g \in Groups,
         HandleGetExport(c, g)
  PROVE  AccessInv'
<1>1. request[c].user \in Users /\ request[c].age \in Age /\ request[c].age < Lapse
  BY RequestShapes, Numbers DEF HandleGetExport, Handles, AccessInv, GoodRequest, OnTime, Age
<1>2. LinkOf(request[c], g) \in Link /\ GoodLink(LinkOf(request[c], g))
  BY <1>1, Numbers DEF LinkOf, Link, GoodLink, Left, Age
<1> QED
  BY <1>2, IssueStep DEF HandleGetExport

\* An invite is left out of the state only when no request can carry it any more.
LEMMA TickStep ==
  ASSUME GroupInv, AccessInv, Tick
  PROVE  AccessInv'
<1> USE DEF AccessInv
<1>1. \A i \in invites : i.left \in Int /\ LaterInvite(i) = [group |-> i.group, by |-> i.by, left |-> i.left - 1]
  BY Numbers DEF GoodInvite, Invite, LaterInvite, NoInvite, Left
<1>2. ASSUME NEW i \in invites, i.left - 1 + Deadline >= 0
      PROVE  LaterInvite(i) \in invites' /\ LaterInvite(i).left = i.left - 1
             /\ LaterInvite(i) \in Invite /\ LaterInvite(i) # NoInvite
  <2>1. LaterInvite(i) = [i EXCEPT !.left = @ - 1]
    BY <1>1 DEF LaterInvite, GoodInvite, Invite, NoInvite
  <2>2. LaterInvite(i) \in invites'
    BY <1>1, <1>2, <2>1 DEF Tick, Later
  <2> QED
    BY <1>1, <1>2, <2>2, Numbers DEF GoodInvite, Invite, NoInvite, Left
<1>3. \A i \in invites' : GoodInvite(i)'
  <2> SUFFICES ASSUME NEW i \in invites' PROVE GoodInvite(i)'
    OBVIOUS
  <2>1. PICK j \in invites : i = [j EXCEPT !.left = @ - 1] /\ i.left + Deadline >= 0
    BY DEF Tick, Later
  <2>2. i \in Invite /\ i.left =< InviteTTL /\ i.group = j.group /\ i.by = j.by
    BY <1>1, <2>1, Numbers DEF GoodInvite, Invite, Left
  <2>3. WasManager(j.group, j.by)'
    BY DEF GoodInvite, WasManager, Tick, groupVars
  <2> QED
    BY <2>2, <2>3 DEF GoodInvite
<1>4. \A s \in sessions' : GoodSession(s)'
  <2> SUFFICES ASSUME NEW s \in sessions' PROVE GoodSession(s)'
    OBVIOUS
  <2>1. PICK t \in Later(Older(sessions), 0) :
          s = [t EXCEPT !.invite = VerifySession([t EXCEPT !.invite = LaterInvite(@)])]
    BY DEF Tick
  <2>2. PICK o \in sessions : t = [[o EXCEPT !.age = @ + 1] EXCEPT !.left = @ - 1] /\ t.left + 0 >= 0
    BY <2>1 DEF Later, Older
  <2>3. o \in [user : Users, invite : Context, left : Left, age : Age]
    BY DEF GoodSession, Session
  <2>4. t = [user |-> o.user, invite |-> o.invite, left |-> o.left - 1, age |-> o.age + 1]
    BY <2>2, <2>3
  <2> DEFINE held == VerifySession([t EXCEPT !.invite = LaterInvite(@)])
  <2>5. s = [user |-> o.user, invite |-> held, left |-> o.left - 1, age |-> o.age + 1]
    BY <2>1, <2>4
  <2>6. held \in Context /\ (held # NoInvite => held \in invites')
    <3>1. [t EXCEPT !.invite = LaterInvite(@)].invite = LaterInvite(o.invite)
      BY <2>4
    <3>2. CASE o.invite = NoInvite
      BY <3>1, <3>2 DEF VerifySession, LaterInvite, Context
    <3>3. CASE o.invite # NoInvite
      <4>1. o.invite \in invites
        BY <3>3 DEF GoodSession
      <4>2. CASE held = NoInvite
        BY <4>2 DEF Context
      <4>3. CASE held # NoInvite
        <5>1. held = LaterInvite(o.invite) /\ LaterInvite(o.invite).left > 0
          BY <3>1, <4>3 DEF VerifySession, Live
        <5> QED
          BY <1>1, <1>2, <4>1, <5>1, Numbers DEF Context
      <4> QED
        BY <4>2, <4>3
    <3> QED
      BY <3>2, <3>3
  <2> HIDE DEF held
  <2>7. o.left - 1 >= 0 /\ o.left =< SessionTTL /\ o.age + o.left =< SessionEnd
        /\ o.left \in Int /\ o.age \in Int /\ o.age >= 0
    BY <2>2, <2>3, <2>4, Numbers DEF GoodSession, Left, Age
  <2>8. o.left - 1 \in Left /\ o.age + 1 \in Age
    BY <2>7, Numbers
  <2>9. s \in Session
    BY <2>3, <2>5, <2>6, <2>8 DEF Session
  <2> QED
    BY <2>5, <2>6, <2>7, <2>9, Numbers DEF GoodSession
<1>5. \A l \in links' : GoodLink(l)'
  <2> SUFFICES ASSUME NEW l \in links' PROVE GoodLink(l)'
    OBVIOUS
  <2>1. PICK o \in links : l = [[o EXCEPT !.age = @ + 1] EXCEPT !.left = @ - 1] /\ l.left + 0 >= 0
    BY DEF Tick, Later, Older
  <2>2. o \in [user : Users, group : Groups, left : Left, age : Age]
    BY DEF GoodLink, Link
  <2>3. l = [user |-> o.user, group |-> o.group, left |-> o.left - 1, age |-> o.age + 1]
    BY <2>1, <2>2
  <2>4. o.left - 1 >= 0 /\ o.left =< DownloadTTL /\ o.age + o.left < Lapse + DownloadTTL
        /\ o.left \in Int /\ o.age \in Int /\ o.age >= 0
    BY <2>1, <2>2, <2>3, Numbers DEF GoodLink, Left, Age
  <2>5. o.left - 1 \in Left /\ o.age + 1 \in Age
    BY <2>4, Numbers
  <2> QED
    BY <2>2, <2>3, <2>4, <2>5, Numbers DEF GoodLink, Link
<1>6. ASSUME NEW c \in GroupClients
      PROVE  request'[c] \in Request /\ GoodRequest(request[c])'
  <2> DEFINE r == request[c]
  <2>1. CASE r = NoRequest
    <3>1. "invite" \notin DOMAIN r
      BY <2>1 DEF NoRequest
    <3>2. request'[c] = NoRequest
      BY <2>1, <3>1 DEF Tick
    <3> QED
      BY <3>2, NoneIsGood DEF GoodRequest, Holds, OnTime, NoRequest
  <2>2. CASE r.op \in {"login", "joining", "launch", "session", "handler"}
    <3>1. /\ r \in [op : {"login", "joining", "launch", "session", "handler"},
                    user : Users, invite : Context, waited : 0 .. Deadline, age : Age]
          /\ "invite" \in DOMAIN r /\ r # NoRequest
      BY <2>2, RequestShapes DEF NoRequest
    <3>2. r.op # "session" /\ r.waited + 1 \in 0 .. Deadline
      <4>1. r.waited < Patience(r)
        BY <3>1 DEF Tick
      <4> QED
        BY <3>1, <4>1, Numbers DEF Patience
    <3>3. request'[c] = [r EXCEPT !.waited = @ + 1, !.age = @ + 1, !.invite = LaterInvite(@)]
      BY <3>1 DEF Tick
    <3>4. request'[c] = [op |-> r.op, user |-> r.user, invite |-> LaterInvite(r.invite),
                         waited |-> r.waited + 1, age |-> r.age + 1]
      BY <3>1, <3>3
    <3>5. OnTime(request[c])' /\ r.age + 1 \in Age
      <4>1. OnTime(r) /\ r.age \in Nat /\ r.waited \in Nat /\ r.op \notin {"invite", "download"}
        BY <2>2, <3>1, Numbers DEF GoodRequest, Age
      <4>2. /\ r.op = "login" => r.age + 1 =< InitDataTTL + (r.waited + 1)
            /\ r.op \in {"joining", "launch"} => r.age + 1 =< InitDataTTL + Deadline + (r.waited + 1)
            /\ r.op = "handler" => r.age + 1 < SessionEnd + (r.waited + 1)
        BY <4>1, Numbers DEF OnTime
      <4>3. OnTime(request[c])'
        BY <2>2, <3>2, <3>4, <4>1, <4>2 DEF OnTime
      <4>4. r.age + 1 \in Age
        BY <2>2, <3>2, <4>1, <4>2, Numbers DEF SessionEnd
      <4> QED
        BY <4>3, <4>4
    <3>6. LaterInvite(r.invite) \in Context /\ Holds(request[c])'
      <4>1. CASE r.invite = NoInvite
        BY <3>4, <4>1 DEF LaterInvite, Context, GoodRequest, Holds
      <4>2. CASE r.invite # NoInvite
        <5>1. r.invite \in invites /\ r.invite.left + r.waited > 0 /\ r.op \in {"joining", "handler"}
          BY <2>2, <3>2, <4>2 DEF GoodRequest, Holds
        <5>2. r.invite.left - 1 + Deadline >= 0
          BY <1>1, <3>1, <3>2, <5>1, Numbers
        <5>3. /\ LaterInvite(r.invite) \in invites' /\ LaterInvite(r.invite).left = r.invite.left - 1
              /\ LaterInvite(r.invite) \in Invite /\ LaterInvite(r.invite) # NoInvite
          BY <1>2, <5>1, <5>2
        <5>4. LaterInvite(r.invite).left + (r.waited + 1) > 0
          BY <1>1, <3>1, <5>1, <5>3
        <5> QED
          BY <3>4, <5>1, <5>3, <5>4 DEF Holds, Context
      <4> QED
        BY <4>1, <4>2
    <3>7. request'[c] \in Request
      BY <3>1, <3>2, <3>4, <3>5, <3>6 DEF Request
    <3>8. request'[c].op # "invite"
      BY <2>2, <3>4
    <3> QED
      BY <3>5, <3>6, <3>7, <3>8 DEF GoodRequest
  <2>3. CASE r.op \in {"invite", "download"}
    <3>1. /\ r \in [op : {"invite", "download"}, user : Users, group : Groups,
                    waited : 0 .. Deadline, age : Age]
          /\ "invite" \notin DOMAIN r /\ r # NoRequest
      BY <2>3, RequestShapes DEF NoRequest
    <3>2. r.op = "download" /\ r.waited + 1 \in 0 .. Deadline
      <4>1. r.waited < Patience(r)
        BY <3>1 DEF Tick
      <4> QED
        BY <3>1, <4>1, Numbers DEF Patience
    <3>3. request'[c] = [r EXCEPT !.waited = @ + 1, !.age = @ + 1]
      BY <3>1 DEF Tick
    <3>4. request'[c] = [op |-> "download", user |-> r.user, group |-> r.group,
                         waited |-> r.waited + 1, age |-> r.age + 1]
      BY <3>1, <3>2, <3>3
    <3>5. OnTime(request[c])' /\ r.age + 1 \in Age
      BY <3>1, <3>2, <3>4, Numbers DEF GoodRequest, OnTime, Age
    <3> QED
      BY <3>1, <3>2, <3>4, <3>5 DEF GoodRequest, Request, Holds
  <2> QED
    BY <2>1, <2>2, <2>3, RequestShapes
<1>7. UNCHANGED <<registered, exports>> /\ request' \in [GroupClients -> Request]
  BY <1>6 DEF Tick
<1> QED
  BY <1>3, <1>4, <1>5, <1>6, <1>7

LEMMA AccessInitInv == AccessInit => AccessInv
BY NoneIsGood DEF AccessInit, AccessInv

LEMMA AccessStepInv ==
  ASSUME GroupInv, AuditExplainsGroup, AccessInv, [AccessNext]_gatewayVars
  PROVE  AccessInv'
<1>1. CASE UNCHANGED gatewayVars
  <2>1. UNCHANGED <<registered, sessions, invites, links, request, exports, role, memberTrail>>
    BY <1>1 DEF gatewayVars, accessVars, issuedVars, groupVars
  <2> QED
    BY <2>1 DEF AccessInv, GoodSession, GoodLink, GoodInvite, GoodRequest, Holds, OnTime, WasManager
<1>2. CASE AccessNext
  <2>1. [GroupNext]_groupVars
    BY <1>2, StepOfCore
  <2>2. CASE Tick
    BY <2>2, TickStep
  <2>3. ASSUME NEW c \in GroupClients, LoginStep(c)
        PROVE  AccessInv'
    BY <2>1, <2>3, UpsertUserStep, LoginJoinsStep, IssueSessionStep DEF LoginStep
  <2>4. ASSUME NEW c \in GroupClients, HandlerStep(c)
        PROVE  AccessInv'
    <3>1. CASE IssueInvite(c)
      BY <2>1, <3>1, IssueInviteStep
    <3>2. ASSUME NEW g \in Groups, HandleCreateInvite(c, g)
          PROVE  AccessInv'
      BY <2>1, <3>2, HandleCreateInviteStep
    <3>3. ASSUME NEW g \in Groups, HandleGetExport(c, g)
          PROVE  AccessInv'
      BY <2>1, <3>3, HandleGetExportStep
    <3>4. ASSUME NEW g \in Groups, HandleCreateExport(c, g)
          PROVE  AccessInv'
      <4>1. request[c].user \in Users
        BY <3>4, RequestShapes DEF HandleCreateExport, Handles, AccessInv
      <4>2. exports' \subseteq [user : Users, group : Groups]
        BY <3>4, <4>1 DEF HandleCreateExport, AccessInv
      <4> QED
        BY <2>1, <3>4, <4>2, DoneStep DEF HandleCreateExport
    <3>5. ASSUME NEW g \in Groups,
                 \/ HandleCreateGroup(c, g) \/ HandleArchiveGroup(c, g) \/ HandleJoinGroup(c, g)
                 \/ \E users \in SUBSET Users : HandleAddGroupMembers(c, g, users)
                 \/ \E u \in Users, desired \in {"admin", "member"} :
                      HandleUpdateMemberRole(c, g, u, desired)
          PROVE  AccessInv'
      <4>1. Done(c) /\ UNCHANGED <<registered, issuedVars, exports>>
        BY <3>5 DEF HandleCreateGroup, HandleArchiveGroup, HandleJoinGroup,
                    HandleAddGroupMembers, HandleUpdateMemberRole, Forwards
      <4> QED
        BY <2>1, <4>1, DoneStep DEF AccessInv
    <3> QED
      BY <2>4, <3>1, <3>2, <3>3, <3>4, <3>5 DEF HandlerStep
  <2>5. ASSUME NEW c \in GroupClients, CoreStep(c)
        PROVE  AccessInv'
    <3>1. Checked(c, request[c]) /\ UNCHANGED <<registered, issuedVars, exports>>
      BY <2>5 DEF CoreStep, accessVars, Checked, AccessInv
    <3> QED
      BY <2>1, <3>1, RequestStep DEF AccessInv
  <2>6. ASSUME NEW c \in GroupClients, EndRequest(c)
        PROVE  AccessInv'
    BY <2>1, <2>6, DoneStep DEF EndRequest, AccessInv
  <2>7. ASSUME NEW c \in GroupClients,
               \/ \E u \in Users, age \in Age : MaxLogin(c, u, age)
               \/ \E s \in sessions : SessionAuth(c, s)
               \/ \E g \in Groups : DownloadActor(c, g)
        PROVE  AccessInv'
    BY <2>1, <2>7, MaxLoginStep, SessionAuthStep, DownloadActorStep
  <2> QED
    BY <1>2, <2>2, <2>3, <2>4, <2>5, <2>6, <2>7 DEF AccessNext
<1> QED
  BY <1>1, <1>2

-----------------------------------------------------------------------------
(* What follows *)

LEMMA GroupStepInv ==
  ASSUME GroupInv, AccessInv, [AccessNext]_gatewayVars
  PROVE  [GroupNext]_groupVars
BY StepOfCore DEF gatewayVars

\* The Gateway implements the groups of Core: whatever it does with sessions,
\* invites and links, groups change only by Core's own operations.
THEOREM GatewayUsesCore == AccessSpec => GroupSpec
<1>1. AccessInit => GroupInit /\ GroupInv /\ AuditExplainsGroup /\ AccessInv
  BY InitInv, AccessInitInv DEF AccessInit, GroupInit, AuditExplainsGroup
<1>2. GroupInv /\ AuditExplainsGroup /\ AccessInv /\ [AccessNext]_gatewayVars =>
        /\ [GroupNext]_groupVars
        /\ GroupInv' /\ AuditExplainsGroup' /\ AccessInv'
  <2> SUFFICES ASSUME GroupInv, AuditExplainsGroup, AccessInv, [AccessNext]_gatewayVars
               PROVE  [GroupNext]_groupVars /\ GroupInv' /\ AuditExplainsGroup' /\ AccessInv'
    OBVIOUS
  <2>1. [GroupNext]_groupVars
    BY GroupStepInv
  <2>2. \A g \in Groups : StatusStory(g)' /\ \A u \in Users : MemberStory(g, u)'
    BY <2>1, Stories, StepStatusStory, StepMemberStory
  <2> QED
    BY <2>1, <2>2, StepInv, AccessStepInv DEF AuditExplainsGroup, StatusStory, MemberStory
<1> QED
  BY <1>1, <1>2, PTL DEF AccessSpec, GroupSpec

THEOREM AccessInvariant == AccessSpec => []AccessInv
<1>1. AccessInv /\ GroupInv /\ AuditExplainsGroup /\ [AccessNext]_gatewayVars => AccessInv'
  BY AccessStepInv
<1>2. AccessInit => AccessInv
  BY AccessInitInv
<1> QED
  BY <1>1, <1>2, GatewayUsesCore, GroupInvariant, AuditExplains, PTL DEF AccessSpec

\* Every group that people get at through the Gateway has one owner.
THEOREM GatewayKeepsOneOwner == AccessSpec => []OneOwner
BY GatewayUsesCore, OneOwnerAlways, PTL

\* Nothing that was handed out is worth more than the lifetimes it was made with.
THEOREM AccessLapsesAlways == AccessSpec => []AccessLapses
<1>1. AccessInv => AccessLapses
  <2> SUFFICES ASSUME AccessInv, NEW c \in GroupClients
               PROVE  /\ request[c].op \in {"handler", "invite"} => request[c].age < Lapse
                      /\ request[c].op = "download" =>
                           request[c].age < Lapse + DownloadTTL + Deadline
    BY DEF AccessLapses
  <2>1. OnTime(request[c])
    BY DEF AccessInv, GoodRequest
  <2>2. request[c].op \in {"handler", "invite", "download"} =>
          request[c].waited \in 0 .. Deadline /\ request[c].age \in Nat
    BY RequestShapes DEF AccessInv, Age
  <2> QED
    BY <2>1, <2>2, Numbers DEF OnTime
<1> QED
  BY <1>1, AccessInvariant, PTL

\* Only joining brings in a member whose first entry says "joined".
LEMMA JoinedByJoining ==
  ASSUME GroupInv, AuditExplainsGroup, AccessInv, AccessNext, NEW g \in Groups, NEW u \in Users,
         ~IsMember(g, u), memberTrail'[g][u] # <<>>,
         memberTrail'[g][u][1].action = "member_joined"
  PROVE  \E c \in GroupClients :
           \/ LoginJoins(c) /\ JoinGroup(request[c].user, request[c].invite.group)
           \/ HandleJoinGroup(c, request[c].invite.group)
<1>1. memberTrail[g][u] = <<>> /\ memberTrail \in [Groups -> [Users -> Seq(MemberEntry)]]
  BY DEF AuditExplainsGroup, IsMember, GroupInv, GroupTypeOK
<1>2. CASE UNCHANGED memberTrail
  BY <1>1, <1>2
<1>3. ASSUME NEW e, memberTrail'[g][u] = Append(<<>>, e)
      PROVE  e.action = "member_joined"
  BY <1>3
<1>4. ASSUME NEW c \in GroupClients, CoreStep(c)
      PROVE  UNCHANGED memberTrail
  <2>1. CASE AddGroupMembers(c)
    <3>1. memberTrail'[g][u] \in {memberTrail[g][u],
            Append(memberTrail[g][u], [action |-> "member_added", role |-> "member"])}
      BY <1>1, <2>1, CallShapes DEF AddGroupMembers, Enrol, GroupInv
    <3> QED
      BY <1>1, <1>3, <3>1
  <2>2. CASE UpdateMemberRole(c)
    <3>1. memberTrail'[g][u] \in {memberTrail[g][u],
            Append(memberTrail[g][u],
                   [action |-> "member_role_updated", role |-> groupCall[c].desired])}
      BY <1>1, <2>2, CallShapes DEF UpdateMemberRole, GroupInv
    <3> QED
      BY <1>1, <1>3, <3>1
  <2> QED
    BY <1>4, <2>1, <2>2 DEF CoreStep, GroupCallStep, ArchiveGroup, EndGroupCall
<1>5. CASE Tick
  BY <1>2, <1>5 DEF Tick, groupVars
<1>6. ASSUME NEW c \in GroupClients, LoginStep(c), memberTrail' # memberTrail
      PROVE  LoginJoins(c) /\ JoinGroup(request[c].user, request[c].invite.group)
  BY <1>6 DEF LoginStep, UpsertUser, Launch, IssueSession, LoginJoins, CoreStays, groupVars
<1>7. ASSUME NEW c \in GroupClients, HandlerStep(c), memberTrail' # memberTrail
      PROVE  HandleJoinGroup(c, request[c].invite.group)
  <2>1. UNCHANGED groupVars => UNCHANGED memberTrail
    BY DEF groupVars
  <2>2. ASSUME NEW h \in Groups, HandleJoinGroup(c, h) PROVE h = request[c].invite.group
    BY <2>2 DEF HandleJoinGroup
  <2>3. \A h \in Groups : ~HandleCreateGroup(c, h) /\ ~HandleArchiveGroup(c, h)
    BY <1>7 DEF HandleCreateGroup, HandleArchiveGroup, Forwards, CreateGroup, LookupArchive
  <2>4. \A h \in Groups, users \in SUBSET Users : ~HandleAddGroupMembers(c, h, users)
    BY <1>7 DEF HandleAddGroupMembers, Forwards, LookupAdd
  <2>5. \A h \in Groups, v \in Users, desired \in {"admin", "member"} :
          ~HandleUpdateMemberRole(c, h, v, desired)
    BY <1>7 DEF HandleUpdateMemberRole, Forwards, LookupRole
  <2>6. \A h \in Groups :
          ~HandleCreateInvite(c, h) /\ ~HandleCreateExport(c, h) /\ ~HandleGetExport(c, h)
    BY <1>7, <2>1 DEF HandleCreateInvite, HandleCreateExport, HandleGetExport, CoreStays
  <2>7. ~IssueInvite(c)
    BY <1>7, <2>1 DEF IssueInvite, CoreStays
  <2> QED
    BY <1>7, <2>2, <2>3, <2>4, <2>5, <2>6, <2>7 DEF HandlerStep
<1>8. ASSUME NEW c \in GroupClients,
             \/ \E v \in Users, age \in Age : MaxLogin(c, v, age)
             \/ \E s \in sessions : SessionAuth(c, s)
             \/ \E h \in Groups : DownloadActor(c, h)
             \/ EndRequest(c)
      PROVE  UNCHANGED memberTrail
  BY <1>8 DEF MaxLogin, SessionAuth, DownloadActor, EndRequest, CoreStays, groupVars
<1> QED
  BY <1>2, <1>4, <1>5, <1>6, <1>7, <1>8 DEF AccessNext

\* Nobody joins without an invite that a manager of the group has issued.
THEOREM JoinedOnInviteAlways == AccessSpec => JoinedOnInvite
<1>1. GroupInv /\ AuditExplainsGroup /\ AccessInv /\ [AccessNext]_gatewayVars =>
        [\A g \in Groups, u \in Users :
           LET entries == memberTrail'[g][u]
           IN  (~IsMember(g, u) /\ entries # <<>> /\ entries[1].action = "member_joined") =>
                 \E i \in invites :
                   i.group = g /\ i.left + Deadline > 0 /\ WasManager(g, i.by)]_gatewayVars
  <2> SUFFICES ASSUME GroupInv, AuditExplainsGroup, AccessInv, AccessNext,
                      NEW g \in Groups, NEW u \in Users, ~IsMember(g, u),
                      memberTrail'[g][u] # <<>>, memberTrail'[g][u][1].action = "member_joined"
               PROVE  \E i \in invites :
                        i.group = g /\ i.left + Deadline > 0 /\ WasManager(g, i.by)
    BY DEF gatewayVars
  <2>1. PICK c \in GroupClients :
          \/ LoginJoins(c) /\ JoinGroup(request[c].user, request[c].invite.group)
          \/ HandleJoinGroup(c, request[c].invite.group)
    BY JoinedByJoining
  <2> DEFINE i == request[c].invite
  <2>2. i \in invites /\ i.left + request[c].waited > 0 /\ request[c].waited \in 0 .. Deadline
        /\ request[c].user \in Users
    BY <2>1, RequestShapes
       DEF LoginJoins, HandleJoinGroup, Handles, AccessInv, GoodRequest, Holds
  <2>3. JoinGroup(request[c].user, i.group) /\ i.group \in Groups
    BY <2>1, <2>2 DEF HandleJoinGroup, AccessInv, GoodInvite, Invite
  <2>4. g = i.group
    <3>1. CASE g # i.group
      <4>1. memberTrail'[g][u] = memberTrail[g][u]
        BY <2>3, <3>1 DEF JoinGroup, Enrol, GroupInv, GroupTypeOK
      <4> QED
        BY <4>1 DEF AuditExplainsGroup, IsMember
    <3> QED
      BY <3>1
  <2>5. i.left \in Int /\ WasManager(i.group, i.by)
    BY <2>2, Numbers DEF AccessInv, GoodInvite, Invite, Left
  <2> QED
    BY <2>2, <2>4, <2>5, Numbers
<1> QED
  BY <1>1, AccessInvariant, GatewayUsesCore, GroupInvariant, AuditExplains, PTL
     DEF AccessSpec, JoinedOnInvite

-----------------------------------------------------------------------------
(* ChatGroups *)

GoodList(r) ==
  /\ r.list.found \subseteq r.list.seen
  /\ r.list.stayed \subseteq r.list.found \cup r.list.ahead
  /\ r.stage = "pages" => r.list.stayed \subseteq people[r.chat] /\ people[r.chat] \subseteq r.list.seen
  /\ r.stage # "pages" => r.list.ahead = {}

Listed(r) == r.stage \in {"pages", "listed", "adding"}

\* What is true of c when its request has come as far as r.
GoodFor(c, r) ==
  /\ r # NotHandling => WasManager(r.group, r.user)
  /\ Listed(r) => GoodList(r)
  /\ r # NotHandling /\ ~Idle(c) =>
       /\ r.stage = "adding" /\ groupCall[c].op = "add"
       /\ groupCall[c].group = r.group /\ groupCall[c].users = r.list.found

ChatInv ==
  /\ ChatTypeOK
  /\ BindingsHold
  /\ \A c \in GroupClients : GoodFor(c, handling[c])

-----------------------------------------------------------------------------
(* Shapes *)

LEMMA Shapes ==
  ASSUME NEW r \in Handling
  PROVE  /\ r.stage = "none" <=> r = NotHandling
         /\ r.op = "none" <=> r = NotHandling
         /\ r # NotHandling => r.user \in Users /\ r.group \in Groups
         /\ r.op = "bind" \/ r.stage \in {"found", "active"} =>
              r \in [op : {"bind", "unbind", "sync"}, stage : {"allowed", "found", "active"},
                     user : Users, group : Groups, chat : Chats]
         /\ Listed(r) =>
              r \in [op : {"sync"}, stage : {"pages", "listed", "adding"},
                     user : Users, group : Groups, chat : Chats, list : Listing]
BY DEF Handling, NotHandling, Listed

LEMMA Loads ==
  ASSUME ChatTypeOK
  PROVE  /\ load.users \subseteq Users /\ load.groups \subseteq Groups
         /\ load.named \subseteq Users /\ load.chats \subseteq Chats
         /\ load.people \subseteq [Chats -> SUBSET Users]
BY WorkloadsAssumption DEF ChatTypeOK

\* Nothing waits for Core but a list that is being added.
LEMMA NotAdding ==
  ASSUME ChatInv, NEW c \in GroupClients, handling[c] # NotHandling, handling[c].stage # "adding"
  PROVE  Idle(c)
BY DEF ChatInv, GoodFor

-----------------------------------------------------------------------------
(* The handlers as clients of Core *)

\* A direct request, or the last call of a synchronisation, is one of Core's.
LEMMA ManageIsCore ==
  ASSUME ChatInv, NEW c \in GroupClients, Manage(c)
  PROVE  GroupNext
<1>1. PICK u \in load.users, g \in load.groups :
        \/ CreateGroup(u, g)
        \/ JoinGroup(u, g)
        \/ \E users \in SUBSET load.named : LookupAdd(c, u, g, users)
        \/ \E target \in load.named, desired \in {"admin", "member"} :
             LookupRole(c, u, g, target, desired)
        \/ LookupArchive(c, u, g)
  BY DEF Manage
<1>2. u \in Users /\ g \in Groups /\ load.named \subseteq Users
  BY <1>1, Loads DEF ChatInv
<1> QED
  BY <1>1, <1>2 DEF GroupNext

LEMMA SyncedIsCore ==
  ASSUME ChatInv, NEW c \in GroupClients, LookupSynced(c)
  PROVE  /\ GroupNext
         /\ handling[c].list.found \in SUBSET Users
         /\ handling[c].user \in Users /\ handling[c].group \in Groups
<1>1. handling[c].user \in Users /\ handling[c].group \in Groups
      /\ handling[c].list.found \in SUBSET Users
  BY Shapes DEF LookupSynced, At, ChatInv, ChatTypeOK, Listed, Listing
<1> QED
  BY <1>1 DEF LookupSynced, GroupNext

LEMMA StepOfChats ==
  ASSUME ChatInv, ChatNext
  PROVE  [GroupNext]_groupVars
<1>1. ASSUME NEW h \in load.chats, BotComesOrGoes(h) \/ \E u \in Users : ComeOrGo(h, u)
      PROVE  UNCHANGED groupVars
  BY <1>1 DEF BotComesOrGoes, ComeOrGo, Changes
<1>2. ASSUME NEW c \in GroupClients, Manage(c) \/ CoreAnswers(c) \/ LookupSynced(c)
      PROVE  GroupNext
  BY <1>2, ManageIsCore, SyncedIsCore DEF CoreAnswers, GroupNext
<1>3. ASSUME NEW c \in GroupClients,
             \/ GiveUp(c)
             \/ \E u \in load.users, g \in load.groups :
                  \/ \E h \in load.chats : BindGroupMaxChat(c, u, g, h)
                  \/ UnbindGroupMaxChat(c, u, g) \/ SyncGroupMaxChat(c, u, g)
             \/ \E h \in Chats : GetChatByGroup(c, h)
             \/ IsChatActive(c) \/ BindChatGroup(c) \/ UnbindChatGroup(c)
             \/ GetBotMembership(c)
             \/ \E next \in SUBSET Users : GetChatMembers(c, next)
             \/ \E known \in SUBSET Users : UpsertUsers(c, known)
      PROVE  UNCHANGED groupVars
  BY <1>3 DEF GiveUp, BindGroupMaxChat, UnbindGroupMaxChat, SyncGroupMaxChat, MayManage,
              GetChatByGroup, IsChatActive, BindChatGroup, UnbindChatGroup, GetBotMembership,
              GetChatMembers, UpsertUsers, Asking
<1> QED
  BY <1>1, <1>2, <1>3 DEF ChatNext, SyncStep

\* A step of Core for one client leaves the calls of the others alone.
LEMMA OthersWait ==
  ASSUME GroupTypeOK, NEW c \in GroupClients, NEW d \in GroupClients, d # c,
         \/ GroupCallStep(c)
         \/ \E u \in Users, g \in Groups :
              \/ CreateGroup(u, g) \/ JoinGroup(u, g) \/ LookupArchive(c, u, g)
              \/ \E users \in SUBSET Users : LookupAdd(c, u, g, users)
              \/ \E target \in Users, desired \in {"admin", "member"} :
                   LookupRole(c, u, g, target, desired)
  PROVE  groupCall'[d] = groupCall[d]
BY DEF GroupTypeOK, GroupCallStep, AddGroupMembers, UpdateMemberRole, ArchiveGroup, EndGroupCall,
       Finish, CreateGroup, JoinGroup, LookupArchive, LookupAdd, LookupRole

-----------------------------------------------------------------------------
(* The invariant, step by step *)

LEMMA NothingIsGood ==
  ASSUME NEW c
  PROVE  NotHandling \in Handling /\ GoodFor(c, NotHandling)
BY DEF Handling, NotHandling, GoodFor, Listed

\* What the requests know stays true while Core's groups and the chats do.
LEMMA RequestsStay ==
  ASSUME ChatInv, NEW c \in GroupClients, NEW r \in Handling, GoodFor(c, r), Reached(c, r),
         UNCHANGED <<groupVars, people>>
  PROVE  /\ handling' \in [GroupClients -> Handling]
         /\ \A d \in GroupClients : GoodFor(d, handling[d])'
<1>1. handling' = [handling EXCEPT ![c] = r] /\ handling \in [GroupClients -> Handling]
  BY DEF Reached, ChatInv, ChatTypeOK
<1>2. ASSUME NEW d \in GroupClients PROVE GoodFor(d, handling[d])'
  <2>1. GoodFor(d, handling'[d])
    BY <1>1 DEF ChatInv
  <2> QED
    BY <2>1 DEF GoodFor, Listed, GoodList, WasManager, Idle, groupVars
<1> QED
  BY <1>1, <1>2

\* One more question answered, and nothing changed.
LEMMA AskStep ==
  ASSUME ChatInv, NEW c \in GroupClients, NEW r \in Handling, GoodFor(c, r), Reached(c, r), Asking
  PROVE  ChatInv'
<1>1. UNCHANGED <<groupVars, load, people, present, binding, changes>>
  BY DEF Asking
<1>2. ChatTypeOK'
  BY <1>1, RequestsStay DEF ChatTypeOK, ChatInv
<1>3. BindingsHold'
  BY <1>1 DEF BindingsHold, WasManager, groupVars, ChatInv
<1> QED
  BY <1>1, <1>2, <1>3, RequestsStay DEF ChatInv

LEMMA StartStep ==
  ASSUME ChatInv, GroupTypeOK, AuditExplainsGroup, NEW c \in GroupClients,
         NEW u \in load.users, NEW g \in load.groups,
         \/ \E h \in load.chats : BindGroupMaxChat(c, u, g, h)
         \/ UnbindGroupMaxChat(c, u, g)
         \/ SyncGroupMaxChat(c, u, g)
  PROVE  ChatInv'
<1>1. u \in Users /\ g \in Groups
  BY Loads DEF ChatInv
<1>2. WasManager(g, u) /\ Idle(c) /\ Asking
  BY <1>1, ManagerWas DEF BindGroupMaxChat, UnbindGroupMaxChat, SyncGroupMaxChat, MayManage, MayBegin,
                          CanManageMaxChat
<1>3. ASSUME NEW r \in Handling, r.group = g, r.user = u, r.stage = "allowed", Reached(c, r)
      PROVE  ChatInv'
  BY <1>2, <1>3, AskStep DEF GoodFor, Listed
<1>4. ASSUME NEW h \in load.chats, BindGroupMaxChat(c, u, g, h) PROVE ChatInv'
  <2> DEFINE r == [op |-> "bind", stage |-> "allowed", user |-> u, group |-> g, chat |-> h]
  <2>1. h \in Chats
    BY Loads DEF ChatInv
  <2>2. r \in Handling /\ r.group = g /\ r.user = u /\ r.stage = "allowed"
    BY <1>1, <2>1 DEF Handling
  <2>3. Reached(c, r)
    BY <1>4 DEF BindGroupMaxChat
  <2> HIDE DEF r
  <2> QED
    BY <2>2, <2>3, <1>3
<1>5. ASSUME NEW op \in {"unbind", "sync"},
             Reached(c, [op |-> op, stage |-> "allowed", user |-> u, group |-> g])
      PROVE  ChatInv'
  <2> DEFINE r == [op |-> op, stage |-> "allowed", user |-> u, group |-> g]
  <2>1. r \in Handling /\ r.group = g /\ r.user = u /\ r.stage = "allowed"
    BY <1>1 DEF Handling
  <2>2. Reached(c, r)
    BY <1>5
  <2> HIDE DEF r
  <2> QED
    BY <2>1, <2>2, <1>3
<1> QED
  BY <1>4, <1>5 DEF UnbindGroupMaxChat, SyncGroupMaxChat

LEMMA GetChatByGroupStep ==
  ASSUME ChatInv, NEW c \in GroupClients, NEW h \in Chats, GetChatByGroup(c, h)
  PROVE  ChatInv'
<1> DEFINE q == handling[c]
           r == [op |-> q.op, stage |-> "found", user |-> q.user, group |-> q.group, chat |-> h]
<1>1. q \in Handling /\ q # NotHandling /\ q.stage = "allowed" /\ q.op \in {"unbind", "sync"}
  BY Shapes DEF GetChatByGroup, At, ChatInv, ChatTypeOK
<1>2. r \in Handling /\ r.stage = "found" /\ r.group = q.group /\ r.user = q.user
  BY <1>1, Shapes DEF Handling
<1>3. Idle(c) /\ WasManager(q.group, q.user)
  BY <1>1, NotAdding DEF ChatInv, GoodFor
<1>4. Reached(c, r) /\ Asking
  BY DEF GetChatByGroup
<1> HIDE DEF r
<1> QED
  BY <1>2, <1>3, <1>4, AskStep DEF GoodFor, Listed

LEMMA IsChatActiveStep ==
  ASSUME ChatInv, NEW c \in GroupClients, IsChatActive(c)
  PROVE  ChatInv'
<1> DEFINE q == handling[c]
           r == [q EXCEPT !.stage = "active"]
<1>1. q \in Handling /\ q # NotHandling /\ q.stage \in {"allowed", "found"}
      /\ (q.op = "bind" \/ q.stage = "found")
  BY Shapes DEF IsChatActive, At, ChatInv, ChatTypeOK
<1>2. q \in [op : {"bind", "unbind", "sync"}, stage : {"allowed", "found", "active"},
             user : Users, group : Groups, chat : Chats]
  BY <1>1, Shapes
<1>3. r \in Handling /\ r.stage = "active" /\ r.group = q.group /\ r.user = q.user
  BY <1>2 DEF Handling
<1>4. Idle(c) /\ WasManager(q.group, q.user)
  BY <1>1, NotAdding DEF ChatInv, GoodFor
<1>5. Reached(c, r) /\ Asking
  BY DEF IsChatActive
<1> HIDE DEF r
<1> QED
  BY <1>3, <1>4, <1>5, AskStep DEF GoodFor, Listed

LEMMA EndRequestStep ==
  ASSUME ChatInv, NEW c \in GroupClients, GiveUp(c)
  PROVE  ChatInv'
BY NothingIsGood, AskStep DEF GiveUp, Handled
-----------------------------------------------------------------------------
(* Bindings *)

\* A manager's request that passed the check binds the chat.
LEMMA BindChatGroupStep ==
  ASSUME ChatInv, NEW c \in GroupClients, BindChatGroup(c)
  PROVE  ChatInv'
<1> DEFINE q == handling[c]
           row == [status |-> "active", group |-> q.group, by |-> q.user]
<1>1. q \in Handling /\ q # NotHandling /\ q.op = "bind"
  BY Shapes DEF BindChatGroup, At, ChatInv, ChatTypeOK
<1>2. q.user \in Users /\ q.group \in Groups /\ q.chat \in Chats
  BY <1>1, Shapes
<1>3. row \in Binding /\ row # Unbound /\ row.group = q.group /\ row.by = q.user
  BY <1>2 DEF Binding, Unbound
<1>4. WasManager(q.group, q.user)
  BY <1>1 DEF ChatInv, GoodFor
<1>5. FreeFor(q.group, q.chat) /\ binding' = [binding EXCEPT ![q.chat] = row]
      /\ UNCHANGED <<groupVars, load, people, present, changes>> /\ Reached(c, NotHandling)
  BY DEF BindChatGroup, Handled
<1> HIDE DEF row
<1>6. binding \in [Chats -> Binding] /\ BindingsHold
  BY DEF ChatInv, ChatTypeOK
<1>7. ChatTypeOK'
  BY <1>2, <1>3, <1>5, <1>6, NothingIsGood, RequestsStay DEF ChatTypeOK, ChatInv
<1>8. BindingsHold'
  <2> SUFFICES ASSUME NEW h \in Chats, binding'[h] # Unbound
               PROVE  /\ WasManager(binding'[h].group, binding'[h].by)
                      /\ \A other \in Chats \ {h} :
                           binding'[other] # Unbound => binding'[other].group # binding'[h].group
    BY <1>5 DEF BindingsHold, WasManager, groupVars
  <2>1. CASE h = q.chat
    BY <2>1, <1>3, <1>4, <1>5, <1>6 DEF FreeFor
  <2>2. CASE h # q.chat
    <3>1. binding'[h] = binding[h] /\ binding[h] # Unbound
      BY <2>2, <1>5, <1>6
    <3> QED
      BY <3>1, <2>2, <1>2, <1>3, <1>5, <1>6 DEF FreeFor, BindingsHold
  <2> QED
    BY <2>1, <2>2
<1> QED
  BY <1>5, <1>7, <1>8, NothingIsGood, RequestsStay DEF ChatInv

\* The row of an unbound chat keeps its group and who bound it.
LEMMA UnbindChatGroupStep ==
  ASSUME ChatInv, NEW c \in GroupClients, UnbindChatGroup(c)
  PROVE  ChatInv'
<1> DEFINE h == handling[c].chat
<1>1. UNCHANGED <<groupVars, load, people, present, changes>> /\ Reached(c, NotHandling)
  BY DEF UnbindChatGroup, Handled
<1>2. binding \in [Chats -> Binding] /\ BindingsHold
  BY DEF ChatInv, ChatTypeOK
<1>3. ASSUME NEW k \in Chats
      PROVE  /\ binding'[k] \in Binding
             /\ binding'[k] # Unbound =>
                  /\ binding[k] # Unbound
                  /\ binding'[k].group = binding[k].group /\ binding'[k].by = binding[k].by
  <2>1. CASE binding'[k] = binding[k]
    BY <2>1, <1>2
  <2>2. CASE binding'[k] # binding[k]
    <3>1. k = h /\ binding[h].status = "active" /\ binding'[h] = [binding[h] EXCEPT !.status = "unbound"]
      BY <2>2, <1>2 DEF UnbindChatGroup
    <3>2. binding[h] # Unbound
          /\ binding[h] \in [status : {"active", "unbound"}, group : Groups, by : Users]
      BY <3>1, <1>2 DEF Binding, Unbound
    <3> QED
      BY <3>1, <3>2 DEF Binding
  <2> QED
    BY <2>1, <2>2
<1>4. binding' \in [Chats -> Binding]
  <2>1. binding' = [k \in Chats |-> binding'[k]]
    BY <1>2 DEF UnbindChatGroup
  <2> QED
    BY <2>1, <1>3
<1>5. ChatTypeOK'
  BY <1>1, <1>4, NothingIsGood, RequestsStay DEF ChatTypeOK, ChatInv
<1>6. BindingsHold'
  BY <1>1, <1>2, <1>3 DEF BindingsHold, WasManager, groupVars
<1> QED
  BY <1>1, <1>5, <1>6, NothingIsGood, RequestsStay DEF ChatInv

-----------------------------------------------------------------------------
(* Synchronisation *)

\* A synchronisation with a list of its own.
LEMMA SyncedShape ==
  ASSUME NEW r \in Handling, r # NotHandling, r.op = "sync", r.stage \notin {"allowed"},
         NEW stage \in {"pages", "listed", "adding"}, NEW list \in Listing
  PROVE  /\ Synced(r, stage, list) \in Handling
         /\ Synced(r, stage, list).stage = stage /\ Synced(r, stage, list).list = list
         /\ Synced(r, stage, list).group = r.group /\ Synced(r, stage, list).user = r.user
         /\ Synced(r, stage, list).chat = r.chat
BY DEF Handling, NotHandling, Synced

LEMMA GetBotMembershipStep ==
  ASSUME ChatInv, NEW c \in GroupClients, GetBotMembership(c)
  PROVE  ChatInv'
<1> DEFINE q == handling[c]
           list == BeginList(q.chat)
           r == Synced(q, "pages", list)
<1>1. q \in Handling /\ q # NotHandling /\ q.op = "sync" /\ q.stage = "active"
  BY Shapes DEF GetBotMembership, At, ChatInv, ChatTypeOK
<1>2. q.chat \in Chats /\ people[q.chat] \subseteq Users
  BY <1>1, Shapes DEF ChatInv, ChatTypeOK
<1>3. list \in Listing
  BY <1>2 DEF Listing, BeginList
<1>4. r \in Handling /\ r.stage = "pages" /\ r.list = list /\ r.group = q.group /\ r.user = q.user
      /\ r.chat = q.chat
  BY <1>1, <1>3, SyncedShape
<1>5. Idle(c) /\ WasManager(q.group, q.user)
  BY <1>1, NotAdding DEF ChatInv, GoodFor
<1>6. Reached(c, r) /\ Asking
  BY DEF GetBotMembership
<1> HIDE DEF r
<1>7. GoodList(r)
  BY <1>2, <1>4 DEF GoodList, BeginList
<1> HIDE DEF list
<1> QED
  BY <1>4, <1>5, <1>7, <1>6, AskStep DEF GoodFor

\* Whoever stayed is on the page that passes the person, and stays in the list.
LEMMA GetChatMembersStep ==
  ASSUME ChatInv, NEW c \in GroupClients, NEW next, GetChatMembers(c, next)
  PROVE  ChatInv'
<1> DEFINE q == handling[c]
           page == next \cap people[q.chat]
           list == [ahead |-> q.list.ahead \ next, found |-> Appended(q.list.found, page),
                    stayed |-> q.list.stayed, seen |-> q.list.seen]
           stage == IF next = q.list.ahead THEN "listed" ELSE "pages"
           r == Synced(q, stage, list)
<1>1. q \in Handling /\ q # NotHandling /\ q.op = "sync" /\ q.stage = "pages"
  BY Shapes DEF GetChatMembers, At, ChatInv, ChatTypeOK
<1>2. q.chat \in Chats /\ people[q.chat] \subseteq Users /\ q.list \in Listing
  BY <1>1, Shapes DEF ChatInv, ChatTypeOK, Listed
<1>3. list \in Listing /\ stage \in {"pages", "listed", "adding"}
  BY <1>2 DEF Listing, Appended
<1>4. r \in Handling /\ r.stage = stage /\ r.list = list /\ r.group = q.group /\ r.user = q.user
      /\ r.chat = q.chat
  BY <1>1, <1>3, SyncedShape
<1>5. Idle(c) /\ WasManager(q.group, q.user) /\ GoodList(q)
  BY <1>1, NotAdding DEF ChatInv, GoodFor, Listed
<1>6. Reached(c, r) /\ Asking
  BY DEF GetChatMembers
<1> HIDE DEF r
<1>7. GoodList(r)
  BY <1>1, <1>4, <1>5 DEF GoodList, Appended
<1> HIDE DEF list, stage
<1> QED
  BY <1>4, <1>5, <1>7, <1>6, AskStep DEF GoodFor

LEMMA UpsertUsersStep ==
  ASSUME ChatInv, NEW c \in GroupClients, NEW known, UpsertUsers(c, known)
  PROVE  ChatInv'
<1> DEFINE q == handling[c]
           list == [ahead |-> q.list.ahead, found |-> known, seen |-> q.list.seen,
                    stayed |-> q.list.stayed \ (q.list.found \ known)]
           r == Synced(q, "adding", list)
<1>1. q \in Handling /\ q # NotHandling /\ q.op = "sync" /\ q.stage = "listed"
  BY Shapes DEF UpsertUsers, At, ChatInv, ChatTypeOK
<1>2. q.list \in Listing /\ known \subseteq q.list.found
  BY <1>1, Shapes DEF Listed, UpsertUsers
<1>3. list \in Listing
  BY <1>2 DEF Listing
<1>4. r \in Handling /\ r.stage = "adding" /\ r.list = list /\ r.group = q.group /\ r.user = q.user
      /\ r.chat = q.chat
  BY <1>1, <1>3, SyncedShape
<1>5. Idle(c) /\ WasManager(q.group, q.user) /\ GoodList(q)
  BY <1>1, NotAdding DEF ChatInv, GoodFor, Listed
<1>6. Asking /\ Reached(c, IF known = {} THEN NotHandling ELSE r)
  BY DEF UpsertUsers
<1> HIDE DEF r
<1>7. GoodList(r)
  BY <1>1, <1>2, <1>4, <1>5 DEF GoodList
<1>8. CASE known = {}
  BY <1>6, <1>8, NothingIsGood, AskStep
<1>9. CASE known # {}
  <2>1. Reached(c, r)
    BY <1>6, <1>9
  <2> HIDE DEF list
  <2> QED
    BY <1>4, <1>5, <1>7, <1>6, <2>1, AskStep DEF GoodFor
<1> QED
  BY <1>8, <1>9

\* Somebody comes into a chat or leaves it while the people of chats are listed.
LEMMA NoticedGood ==
  ASSUME NEW r \in Handling, Listed(r) => GoodList(r), NEW h \in Chats, NEW u \in Users,
         \A k \in Chats \ {h} : people'[k] = people[k],
         people'[h] \subseteq people[h] \cup {u}, people[h] \ {u} \subseteq people'[h],
         NEW q, q = Noticed(r, h, u)
  PROVE  /\ q \in Handling /\ (q = NotHandling <=> r = NotHandling) /\ q.stage = r.stage
         /\ r # NotHandling => q.group = r.group /\ q.user = r.user
         /\ Listed(r) => q.list.found = r.list.found
         /\ Listed(q) => GoodList(q)'
<1>1. CASE r.stage # "pages" \/ r.chat # h
  <2>1. q = r
    BY <1>1 DEF Noticed
  <2>2. r.stage = "pages" => people'[r.chat] = people[r.chat]
    BY <1>1, Shapes DEF Listed
  <2> QED
    BY <2>1, <2>2 DEF GoodList
<1>2. CASE r.stage = "pages" /\ r.chat = h
  <2> DEFINE list == [ahead |-> r.list.ahead, found |-> r.list.found,
                      stayed |-> r.list.stayed \ {u}, seen |-> r.list.seen \cup {u}]
  <2>1. r # NotHandling /\ r.op = "sync" /\ r.list \in Listing /\ Listed(r)
    BY <1>2, Shapes DEF Listed, NotHandling
  <2>2. list \in Listing
    BY <2>1 DEF Listing
  <2>3. /\ q \in Handling /\ q.stage = "pages" /\ q.list = list /\ q.group = r.group
        /\ q.user = r.user /\ q.chat = h /\ q # NotHandling
    BY <1>2, <2>1, <2>2, SyncedShape, Shapes DEF Noticed
  <2>4. GoodList(r)
    BY <2>1
  <2>5. GoodList(q)'
    BY <1>2, <2>3, <2>4 DEF GoodList
  <2> QED
    BY <1>2, <2>1, <2>3, <2>5
<1> QED
  BY <1>1, <1>2

LEMMA ComeOrGoStep ==
  ASSUME ChatInv, NEW h \in load.chats, NEW u \in Users, ComeOrGo(h, u)
  PROVE  ChatInv'
<1>1. h \in Chats /\ UNCHANGED <<groupVars, load, binding, present>> /\ changes' \in Nat
  BY Loads DEF ChatInv, ChatTypeOK, ComeOrGo, Changes
<1>2. people' = [people EXCEPT ![h] = IF u \in @ THEN @ \ {u} ELSE @ \cup {u}]
      /\ people \in [Chats -> SUBSET Users] /\ handling \in [GroupClients -> Handling]
      /\ handling' = [c \in GroupClients |-> Noticed(handling[c], h, u)]
  BY DEF ChatInv, ChatTypeOK, ComeOrGo
<1>3. /\ \A k \in Chats \ {h} : people'[k] = people[k]
      /\ people'[h] \subseteq people[h] \cup {u} /\ people[h] \ {u} \subseteq people'[h]
  BY <1>1, <1>2
<1>4. ASSUME NEW c \in GroupClients
      PROVE  handling'[c] \in Handling /\ GoodFor(c, handling[c])'
  <2>1. PICK r : r = handling[c]
    OBVIOUS
  <2>2. PICK q : q = handling'[c]
    OBVIOUS
  <2>3. GoodFor(c, r) /\ r \in Handling /\ q = Noticed(r, h, u)
    BY <1>2, <2>1, <2>2 DEF ChatInv
  <2>4. /\ q \in Handling /\ (q = NotHandling <=> r = NotHandling) /\ q.stage = r.stage
        /\ r # NotHandling => q.group = r.group /\ q.user = r.user
        /\ Listed(r) => q.list.found = r.list.found
        /\ Listed(q) => GoodList(q)'
    BY <1>1, <1>3, <2>3, NoticedGood DEF GoodFor
  <2>5. GoodFor(c, q)'
    <3>1. (q # NotHandling => WasManager(q.group, q.user))'
      BY <1>1, <2>3, <2>4 DEF GoodFor, WasManager, groupVars
    <3>2. (q # NotHandling /\ ~Idle(c) =>
             /\ q.stage = "adding" /\ groupCall[c].op = "add"
             /\ groupCall[c].group = q.group /\ groupCall[c].users = q.list.found)'
      BY <1>1, <2>3, <2>4 DEF GoodFor, Idle, groupVars, Listed
    <3> QED
      BY <2>4, <3>1, <3>2 DEF GoodFor, Listed
  <2> QED
    BY <2>2, <2>4, <2>5
<1>5. ChatTypeOK'
  <2>1. handling' \in [GroupClients -> Handling]
    BY <1>2, <1>4
  <2>2. people' \in [Chats -> SUBSET Users]
    BY <1>1, <1>2
  <2> QED
    BY <1>1, <2>1, <2>2 DEF ChatTypeOK, ChatInv
<1>6. BindingsHold'
  BY <1>1 DEF BindingsHold, WasManager, groupVars, ChatInv
<1> QED
  BY <1>4, <1>5, <1>6 DEF ChatInv

LEMMA BotComesOrGoesStep ==
  ASSUME ChatInv, NEW h \in load.chats, BotComesOrGoes(h)
  PROVE  ChatInv'
<1>1. h \in Chats /\ UNCHANGED <<groupVars, load, binding, people, handling>> /\ changes' \in Nat
      /\ present' \subseteq Chats
  BY Loads DEF ChatInv, ChatTypeOK, BotComesOrGoes, Changes
<1>2. ChatTypeOK'
  BY <1>1 DEF ChatTypeOK, ChatInv
<1>3. BindingsHold'
  BY <1>1 DEF BindingsHold, WasManager, groupVars, ChatInv
<1>4. ASSUME NEW c \in GroupClients PROVE GoodFor(c, handling[c])'
  BY <1>1 DEF ChatInv, GoodFor, Listed, GoodList, WasManager, Idle, groupVars
<1> QED
  BY <1>2, <1>3, <1>4 DEF ChatInv

-----------------------------------------------------------------------------
(* Core's own steps *)

\* A former manager stays one, so what a request knows outlives any step of Core
\* but one for its own call.
LEMMA GoodRemains ==
  ASSUME GroupInv, [GroupNext]_groupVars, NEW d \in GroupClients, NEW r \in Handling,
         GoodFor(d, r), people' = people, groupCall'[d] = groupCall[d] \/ r = NotHandling
  PROVE  GoodFor(d, r)'
<1>1. r # NotHandling => WasManager(r.group, r.user)'
  BY Shapes, WasManagerStays DEF GoodFor
<1>2. Listed(r) => GoodList(r)'
  BY DEF GoodFor, GoodList
<1> QED
  BY <1>1, <1>2 DEF GoodFor, Listed, Idle

LEMMA BindingsStay ==
  ASSUME ChatInv, GroupInv, [GroupNext]_groupVars, binding' = binding
  PROVE  BindingsHold'
<1>1. ASSUME NEW h \in Chats, binding[h] # Unbound
      PROVE  WasManager(binding[h].group, binding[h].by)'
  <2>1. binding[h].group \in Groups /\ binding[h].by \in Users
    BY <1>1 DEF ChatInv, ChatTypeOK, Binding, Unbound
  <2> QED
    BY <1>1, <2>1, WasManagerStays DEF ChatInv, BindingsHold
<1> QED
  BY <1>1 DEF BindingsHold, ChatInv

LEMMA ManageStep ==
  ASSUME ChatInv, GroupInv, NEW c \in GroupClients, Manage(c)
  PROVE  ChatInv'
<1>1. GroupNext /\ UNCHANGED chatVars /\ handling[c] = NotHandling
  BY ManageIsCore DEF Manage, MayBegin
<1>2. ASSUME NEW d \in GroupClients PROVE GoodFor(d, handling[d])'
  <2>1. PICK u \in load.users, g \in load.groups :
          \/ CreateGroup(u, g)
          \/ JoinGroup(u, g)
          \/ \E users \in SUBSET load.named : LookupAdd(c, u, g, users)
          \/ \E target \in load.named, desired \in {"admin", "member"} :
               LookupRole(c, u, g, target, desired)
          \/ LookupArchive(c, u, g)
    BY DEF Manage
  <2>2. u \in Users /\ g \in Groups /\ load.named \subseteq Users
    BY <2>1, Loads DEF ChatInv
  <2>3. d # c => groupCall'[d] = groupCall[d]
    BY <2>1, <2>2, OthersWait DEF GroupInv
  <2>4. PICK r : r = handling[d]
    OBVIOUS
  <2>5. r \in Handling /\ GoodFor(d, r) /\ (groupCall'[d] = groupCall[d] \/ r = NotHandling)
    BY <1>1, <2>3, <2>4 DEF ChatInv, ChatTypeOK
  <2>6. GoodFor(d, r)'
    BY <1>1, <2>5, GoodRemains DEF chatVars
  <2> QED
    BY <1>1, <2>4, <2>6 DEF chatVars
<1>3. ChatTypeOK'
  BY <1>1 DEF ChatInv, ChatTypeOK, chatVars
<1>4. BindingsHold'
  BY <1>1, BindingsStay DEF chatVars
<1> QED
  BY <1>2, <1>3, <1>4 DEF ChatInv

LEMMA CoreStepStep ==
  ASSUME ChatInv, GroupInv, NEW c \in GroupClients, CoreAnswers(c)
  PROVE  ChatInv'
<1>1. GroupNext /\ UNCHANGED <<load, people, present, binding, changes>> /\ GroupCallStep(c)
      /\ handling' = [handling EXCEPT ![c] = NotHandling] /\ handling \in [GroupClients -> Handling]
  BY DEF CoreAnswers, GroupNext, Handled, Reached, ChatInv, ChatTypeOK
<1>2. ASSUME NEW d \in GroupClients PROVE GoodFor(d, handling[d])'
  <2>1. d # c => groupCall'[d] = groupCall[d]
    BY <1>1, OthersWait DEF GroupInv
  <2>2. PICK r : r = handling'[d]
    OBVIOUS
  <2>3. r \in Handling /\ GoodFor(d, r) /\ (groupCall'[d] = groupCall[d] \/ r = NotHandling)
    BY <1>1, <2>1, <2>2, NothingIsGood DEF ChatInv
  <2>4. GoodFor(d, r)'
    BY <1>1, <2>3, GoodRemains
  <2> QED
    BY <2>2, <2>4
<1>3. ChatTypeOK'
  BY <1>1, NothingIsGood DEF ChatInv, ChatTypeOK
<1>4. BindingsHold'
  BY <1>1, BindingsStay
<1> QED
  BY <1>2, <1>3, <1>4 DEF ChatInv

LEMMA LookupSyncedStep ==
  ASSUME ChatInv, GroupInv, NEW c \in GroupClients, LookupSynced(c)
  PROVE  ChatInv'
<1>1. GroupNext /\ UNCHANGED chatVars
  BY SyncedIsCore DEF LookupSynced
<1>2. ASSUME NEW d \in GroupClients PROVE GoodFor(d, handling[d])'
  <2>1. PICK r : r = handling[d]
    OBVIOUS
  <2>2. r \in Handling /\ GoodFor(d, r)
    BY <2>1 DEF ChatInv, ChatTypeOK
  <2>3. CASE d # c
    <3>1. groupCall'[d] = groupCall[d]
      BY <2>3, SyncedIsCore, OthersWait DEF GroupInv, LookupSynced
    <3> QED
      BY <1>1, <2>1, <2>2, <3>1, GoodRemains DEF chatVars
  <2>4. CASE d = c
    <3>1. r # NotHandling /\ r.stage = "adding"
      BY <2>1, <2>2, <2>4, Shapes DEF LookupSynced, At
    <3>2. groupCall'[c] = [op |-> "add", actor |-> r.user, group |-> r.group,
                           users |-> r.list.found, actorRole |-> role[r.group][r.user]]
      BY <2>1, <2>4 DEF LookupSynced, LookupAdd, GroupInv, GroupTypeOK
    <3>3. WasManager(r.group, r.user)'
      BY <1>1, <2>2, <3>1, Shapes, WasManagerStays DEF GoodFor
    <3>4. (Listed(r) => GoodList(r))'
      BY <1>1, <2>2 DEF GoodFor, GoodList, Listed, chatVars
    <3>5. GoodFor(d, r)'
      BY <2>4, <3>1, <3>2, <3>3, <3>4 DEF GoodFor, Listed
    <3> QED
      BY <1>1, <2>1, <3>5 DEF chatVars
  <2> QED
    BY <2>3, <2>4
<1>3. ChatTypeOK'
  BY <1>1 DEF ChatInv, ChatTypeOK, chatVars
<1>4. BindingsHold'
  BY <1>1, BindingsStay DEF chatVars
<1> QED
  BY <1>2, <1>3, <1>4 DEF ChatInv

-----------------------------------------------------------------------------
(* The theorems *)

LEMMA InitChats == ChatInit => ChatInv
<1> SUFFICES ASSUME ChatInit PROVE ChatInv
  OBVIOUS
<1>1. ChatTypeOK
  BY WorkloadsAssumption, NothingIsGood DEF ChatInit, ChatTypeOK, Binding
<1>2. BindingsHold
  BY DEF ChatInit, BindingsHold
<1>3. ASSUME NEW c \in GroupClients PROVE GoodFor(c, handling[c])
  BY NothingIsGood DEF ChatInit
<1> QED
  BY <1>1, <1>2, <1>3 DEF ChatInv

LEMMA ChatStep ==
  ASSUME ChatInv, GroupInv, AuditExplainsGroup, [ChatNext]_chatSystem
  PROVE  ChatInv'
<1>1. CASE UNCHANGED chatSystem
  <2>1. UNCHANGED groupVars /\ UNCHANGED chatVars
    BY <1>1 DEF chatSystem
  <2>2. ChatTypeOK'
    BY <2>1 DEF chatVars, ChatTypeOK, ChatInv
  <2>3. BindingsHold'
    BY <2>1 DEF chatVars, groupVars, BindingsHold, WasManager, ChatInv
  <2>4. ASSUME NEW c \in GroupClients PROVE GoodFor(c, handling[c])'
    BY <2>1 DEF chatVars, groupVars, ChatInv, GoodFor, Listed, GoodList, WasManager, Idle
  <2> QED
    BY <2>2, <2>3, <2>4 DEF ChatInv
<1>2. ASSUME NEW h \in load.chats, BotComesOrGoes(h) \/ \E u \in Users : ComeOrGo(h, u)
      PROVE  ChatInv'
  BY <1>2, BotComesOrGoesStep, ComeOrGoStep
<1>3. ASSUME NEW c \in GroupClients, Manage(c) \/ CoreAnswers(c) \/ GiveUp(c)
      PROVE  ChatInv'
  BY <1>3, ManageStep, CoreStepStep, EndRequestStep
<1>4. ASSUME NEW c \in GroupClients, NEW u \in load.users, NEW g \in load.groups,
             \/ \E h \in load.chats : BindGroupMaxChat(c, u, g, h)
             \/ UnbindGroupMaxChat(c, u, g) \/ SyncGroupMaxChat(c, u, g)
      PROVE  ChatInv'
  BY <1>4, StartStep DEF GroupInv
<1>5. ASSUME NEW c \in GroupClients,
             \/ \E h \in Chats : GetChatByGroup(c, h)
             \/ IsChatActive(c) \/ BindChatGroup(c) \/ UnbindChatGroup(c) \/ SyncStep(c)
      PROVE  ChatInv'
  BY <1>5, GetChatByGroupStep, IsChatActiveStep, BindChatGroupStep, UnbindChatGroupStep,
     GetBotMembershipStep, GetChatMembersStep, UpsertUsersStep, LookupSyncedStep DEF SyncStep
<1> QED
  BY <1>1, <1>2, <1>3, <1>4, <1>5 DEF ChatNext

\* Requests about chats and synchronisations change Core's groups only by Core's own
\* operations: all that CoreGroupsProofs shows of groups holds beside them.
THEOREM ChatsUseCore == ChatSpec => GroupSpec
<1>1. ChatInit => GroupInit /\ GroupInv /\ AuditExplainsGroup /\ ChatInv
  BY InitInv, InitChats DEF ChatInit, GroupInit, AuditExplainsGroup
<1>2. GroupInv /\ AuditExplainsGroup /\ ChatInv /\ [ChatNext]_chatSystem =>
        /\ [GroupNext]_groupVars
        /\ GroupInv' /\ AuditExplainsGroup' /\ ChatInv'
  <2> SUFFICES ASSUME GroupInv, AuditExplainsGroup, ChatInv, [ChatNext]_chatSystem
               PROVE  [GroupNext]_groupVars /\ GroupInv' /\ AuditExplainsGroup' /\ ChatInv'
    OBVIOUS
  <2>1. [GroupNext]_groupVars
    BY StepOfChats DEF chatSystem
  <2>2. \A g \in Groups : StatusStory(g)' /\ \A u \in Users : MemberStory(g, u)'
    BY <2>1, Stories, StepStatusStory, StepMemberStory
  <2> QED
    BY <2>1, <2>2, StepInv, ChatStep DEF AuditExplainsGroup, StatusStory, MemberStory
<1> QED
  BY <1>1, <1>2, PTL DEF ChatSpec, GroupSpec

THEOREM ChatInvariant == ChatSpec => []ChatInv
<1>1. ChatInit => ChatInv
  BY InitChats
<1>2. ChatInv /\ GroupInv /\ AuditExplainsGroup /\ [ChatNext]_chatSystem => ChatInv'
  BY ChatStep
<1> QED
  BY <1>1, <1>2, ChatsUseCore, GroupInvariant, AuditExplains, PTL DEF ChatSpec

\* Every group has one owner, whatever is synchronised into it.
THEOREM ChatsKeepOneOwner == ChatSpec => []OneOwner
BY ChatsUseCore, OneOwnerAlways, PTL

\* A group never has two chats, and a manager of it has bound the one it has.
THEOREM BindingsAlwaysHold == ChatSpec => []BindingsHold
BY ChatInvariant, PTL DEF ChatInv

\* A synchronisation that succeeds takes in whoever stayed in the chat, and nobody
\* who was not seen there.
THEOREM SyncsAlwaysWhole == ChatSpec => SyncWhole
<1> DEFINE Whole(c) ==
      handling[c].stage = "adding" /\ AddGroupMembers(c) =>
        LET r == handling[c]
        IN  /\ r.list.stayed \subseteq {u \in Users : role'[r.group][u] # "none"}
            /\ \A u \in Users \ r.list.seen : role'[r.group][u] = role[r.group][u]
<1>1. ASSUME ChatInv, GroupInv, NEW c \in GroupClients PROVE Whole(c)
  <2> SUFFICES ASSUME handling[c].stage = "adding", AddGroupMembers(c)
               PROVE  /\ handling[c].list.stayed \subseteq
                           {u \in Users : role'[handling[c].group][u] # "none"}
                      /\ \A u \in Users \ handling[c].list.seen :
                           role'[handling[c].group][u] = role[handling[c].group][u]
    OBVIOUS
  <2>1. PICK r : r = handling[c]
    OBVIOUS
  <2>2. r \in Handling /\ GoodFor(c, r) /\ r.stage = "adding"
    BY <1>1, <2>1 DEF ChatInv, ChatTypeOK
  <2>3. r # NotHandling /\ r.group \in Groups /\ r.list \in Listing /\ Listed(r)
    BY <2>2, Shapes DEF Listed
  <2>4. ~Idle(c)
    BY DEF AddGroupMembers, Idle, NoGroupCall
  <2>5. Enrol(r.group, r.list.found, "member_added")
    BY <2>2, <2>3, <2>4 DEF AddGroupMembers, GoodFor
  <2>6. r.list.found \subseteq r.list.seen /\ r.list.stayed \subseteq r.list.found
    BY <2>2, <2>3 DEF GoodFor, GoodList
  <2>7. \A u \in Users : role'[r.group][u] =
          IF u \in r.list.found /\ role[r.group][u] = "none" THEN "member" ELSE role[r.group][u]
    BY <1>1, <2>3, <2>5 DEF Enrol, GroupInv, GroupTypeOK
  <2>8. r.list.stayed \subseteq Users
    BY <2>3 DEF Listing
  <2> QED
    BY <2>1, <2>6, <2>7, <2>8
<1>2. ChatInv /\ GroupInv => \A c \in GroupClients : Whole(c)
  BY <1>1
<1> HIDE DEF Whole
<1> QED
  BY <1>2, ChatInvariant, ChatsUseCore, GroupInvariant, PTL DEF SyncWhole, Whole

===============================================================================
