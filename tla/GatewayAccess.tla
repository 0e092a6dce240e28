----------------------------- MODULE GatewayAccess -----------------------------
(***************************************************************************)
(* How a person gets at a group: the Gateway's sessions, invites, launches *)
(* and download links (src/internal/gateway/auth, invite, launch,          *)
(* exportcap, src/pkg/maxauth/initdata.go) and the handlers of auth.go,    *)
(* invites.go, groups.go and exports.go under                              *)
(* src/internal/gateway/delivery/http, on top of Core's groups             *)
(* (CoreGroups).                                                           *)
(*                                                                         *)
(* The Gateway keeps no table of what it hands out: a session or an invite *)
(* is a signed statement that whoever holds it presents again, any number  *)
(* of times, until it expires, and nothing revokes it.  So the sets below  *)
(* only grow, and a signature that verifies is membership of the set (that *)
(* nobody else can sign is taken for granted).  Left out of the sets is    *)
(* what makes no difference: a statement that expired a while ago, or one  *)
(* that a newer statement is as good as.  A handler checks a               *)
(* statement first and calls Core afterwards; meanwhile time passes, roles *)
(* change and the group may be archived.                                   *)
(***************************************************************************)
EXTENDS CoreGroups, Integers, FiniteSets

CONSTANTS
  Deadline,    \* how long the calls between two checks of a request last (10 s each)
  InitDataTTL, \* MAX_INIT_DATA_TTL
  SessionTTL,  \* SESSION_TTL
  InviteTTL,   \* INVITE_TTL
  DownloadTTL, \* exportDownloadTTL
  MaxSessions, \* bound: sessions issued
  MaxInvites   \* bound: invites issued

ASSUME AccessAssumption ==
  /\ {Deadline, MaxSessions, MaxInvites} \subseteq Nat
  /\ {InitDataTTL, SessionTTL, InviteTTL, DownloadTTL} \subseteq Nat \ {0}

VARIABLES
  registered,  \* users with a row in users
  sessions,    \* sessions issued: [user, invite, left, age]
  invites,     \* invites issued: [group, by, left]
  request,     \* request[c]: what the handler of c's request has checked so far
  exports,     \* finished reports: [user, group], user being the one who ordered it
  links        \* download links signed: [user, group, left, age]
\* "left" is the time until a statement expires.  "by" and "age" are history, which
\* no statement carries: who issued an invite, and the age of the initData that a
\* session or a link goes back to.

issuedVars  == <<sessions, invites, links>>
accessVars  == <<registered, issuedVars, request, exports>>
gatewayVars == <<groupVars, accessVars>>

NoInvite  == [group |-> "none"]
NoRequest == [op |-> "none"]

Left    == -Deadline .. SessionTTL + InviteTTL + DownloadTTL
Lapse   == InitDataTTL + 2 * Deadline + SessionTTL + Deadline
Age     == 0 .. Lapse + DownloadTTL + Deadline
Invite  == [group : Groups, by : Users, left : Left]
Context == {NoInvite} \cup Invite
Session == [user : Users, invite : Context, left : Left, age : Age]
Link    == [user : Users, group : Groups, left : Left, age : Age]

\* "waited" is how long the calls of a handler have taken since its last check.
Request ==
       {NoRequest}
  \cup [op : {"login", "joining", "launch", "session", "handler"}, user : Users, invite : Context,
        waited : 0 .. Deadline, age : Age]
  \cup [op : {"invite", "download"}, user : Users, group : Groups,
        waited : 0 .. Deadline, age : Age]

AccessTypeOK ==
  /\ registered \subseteq Users
  /\ sessions \subseteq Session
  /\ invites \subseteq Invite
  /\ request \in [GroupClients -> Request]
  /\ exports \subseteq [user : Users, group : Groups]
  /\ links \subseteq Link

AccessInit ==
  /\ GroupInit
  /\ registered = {}
  /\ sessions = {}
  /\ invites = {}
  /\ links = {}
  /\ exports = {}
  /\ request = [c \in GroupClients |-> NoRequest]

-----------------------------------------------------------------------------
(* Statements *)

\* Variant: a statement is good for one more unit of time.
LiveTooLong(statement) == statement.left >= 0

\* All of them expire the same way: !time.Now().Before(expiresAt) is too late.
Live(statement) == statement.left > 0

\* Variant: the session's invite stays.
KeepsInvite(s) == s.invite

\* A session's invite is dropped when the invite has expired.
VerifySession(s) == IF s.invite # NoInvite /\ Live(s.invite) THEN s.invite ELSE NoInvite

Free(c)       == request[c] = NoRequest /\ Idle(c)
Checked(c, r) == request' = [request EXCEPT ![c] = r]
Done(c)       == Checked(c, NoRequest)
CoreStays     == UNCHANGED groupVars

-----------------------------------------------------------------------------
(* maxLogin *)

\* initData says when MAX signed it; a copy can be presented again.
FreshInitData(age) == age =< InitDataTTL

\* A login starts with initData.
MaxLogin(c, u, age) ==
  /\ Free(c)
  /\ FreshInitData(age)
  /\ Checked(c, [op |-> "login", user |-> u, invite |-> NoInvite, waited |-> 0, age |-> age])
  /\ UNCHANGED <<registered, issuedVars, exports>>
  /\ CoreStays

\* The Mini App may have been opened with an invite, with a launch (a link to a
\* place in it), or with neither.  One that has expired counts for neither.
InviteParam(r) == {[r EXCEPT !.op = "joining", !.invite = i] : i \in {j \in invites : Live(j)}}
LaunchParam(r) == [r EXCEPT !.op = "launch"]
StartParam(r)  == InviteParam(r) \cup {LaunchParam(r), r}

\* The user is registered, and then the start parameter verified.
UpsertUser(c) ==
  LET r == [request[c] EXCEPT !.op = "session", !.waited = 0]
  IN  /\ request[c].op = "login"
      /\ registered' = registered \cup {r.user}
      /\ \E next \in StartParam(r) : Checked(c, next)
      /\ UNCHANGED <<issuedVars, exports>>
      /\ CoreStays

\* An invite is used at once, and carried by the session whether Core has taken
\* the user in ("joined") or not ("join_failed").
LoginJoins(c) ==
  /\ request[c].op = "joining"
  /\ JoinGroup(request[c].user, request[c].invite.group) \/ UNCHANGED groupVars
  /\ Checked(c, [request[c] EXCEPT !.op = "session", !.waited = 0])
  /\ UNCHANGED <<registered, issuedVars, exports>>

\* core.GetGroup tells whether an intent that needs a group goes into the answer;
\* nothing else depends on it.
Launch(c) ==
  /\ request[c].op = "launch"
  /\ Checked(c, [request[c] EXCEPT !.op = "session", !.waited = 0])
  /\ UNCHANGED <<registered, issuedVars, exports>>
  /\ CoreStays

SessionOf(r) == [user |-> r.user, invite |-> r.invite, left |-> SessionTTL, age |-> r.age]

IssueSession(c) ==
  LET r == request[c]
  IN  /\ r.op = "session"
      /\ sessions' =
           {s \in sessions : s.user # r.user \/ s.invite \notin {NoInvite, r.invite}}
           \cup {SessionOf(r)}
      /\ Cardinality(sessions') =< MaxSessions
      /\ Done(c)
      /\ UNCHANGED <<registered, invites, links, exports>>
      /\ CoreStays

-----------------------------------------------------------------------------
(* Requests with a session *)

\* sessionAuth: the handler gets the user and the invite of a live session.
SessionAuth(c, s) ==
  /\ Free(c)
  /\ Live(s)
  /\ Checked(c, [op |-> "handler", user |-> s.user, invite |-> VerifySession(s),
                 waited |-> 0, age |-> s.age])
  /\ UNCHANGED <<registered, issuedVars, exports>>
  /\ CoreStays

\* core.GetGroup knows a group for its members only.
GetGroup(g, u) == IsMember(g, u)

Handles(c) == request[c].op = "handler" /\ Idle(c)

\* Handlers that pass the session's user on to one call of Core and have nothing
\* left to do but to tell its result; c is free again when Core has finished.
Forwards(c) ==
  /\ Handles(c)
  /\ Done(c)
  /\ UNCHANGED <<registered, issuedVars, exports>>

HandleCreateGroup(c, g)  == Forwards(c) /\ CreateGroup(request[c].user, g)
HandleArchiveGroup(c, g) == Forwards(c) /\ LookupArchive(c, request[c].user, g)

\* Every user to be added needs a row in users, or none is added.
HandleAddGroupMembers(c, g, users) ==
  /\ users # {} /\ users \subseteq registered
  /\ Forwards(c) /\ LookupAdd(c, request[c].user, g, users)

HandleUpdateMemberRole(c, g, u, desired) ==
  Forwards(c) /\ LookupRole(c, request[c].user, g, u, desired)

\* joinGroup: another attempt, with the invite of the session.
HandleJoinGroup(c, g) ==
  /\ Handles(c)
  /\ request[c].invite # NoInvite /\ request[c].invite.group = g
  /\ JoinGroup(request[c].user, g)
  /\ Done(c)
  /\ UNCHANGED <<registered, issuedVars, exports>>

\* createGroupInvite: core.GetGroup tells the role of the user, in a group of any
\* status, and the invite is signed afterwards.
HandleCreateInvite(c, g) ==
  /\ Handles(c)
  /\ GetGroup(g, request[c].user) /\ role[g][request[c].user] \in Managers
  /\ Checked(c, [op |-> "invite", user |-> request[c].user, group |-> g, waited |-> 0,
                 age |-> request[c].age])
  /\ UNCHANGED <<registered, issuedVars, exports>>
  /\ CoreStays

InviteOf(r) == [group |-> r.group, by |-> r.user, left |-> InviteTTL]

IssueInvite(c) ==
  LET r == request[c]
  IN  /\ r.op = "invite"
      /\ invites' = invites \cup {InviteOf(r)}
      /\ Cardinality(invites') =< MaxInvites
      /\ Done(c)
      /\ UNCHANGED <<registered, sessions, links, exports>>
      /\ CoreStays

-----------------------------------------------------------------------------
(* Reports: how they are made is module ReportExport's subject *)

HandleCreateExport(c, g) ==
  /\ Handles(c)
  /\ GetGroup(g, request[c].user)
  /\ exports' = exports \cup {[user |-> request[c].user, group |-> g]}
  /\ Done(c)
  /\ UNCHANGED <<registered, issuedVars>>
  /\ CoreStays

\* document.GetExport knows the export of its own user only; core.GetGroup follows.
AuthorizedExport(u, g) == [user |-> u, group |-> g] \in exports /\ GetGroup(g, u)

LinkOf(r, g) == [user |-> r.user, group |-> g, left |-> DownloadTTL, age |-> r.age]

\* getExport: with a finished report comes a link that works without a session.
HandleGetExport(c, g) ==
  /\ Handles(c)
  /\ AuthorizedExport(request[c].user, g)
  /\ links' =
       {l \in links : l.user # request[c].user \/ l.group # g}
       \cup {LinkOf(request[c], g)}
  /\ Done(c)
  /\ UNCHANGED <<registered, sessions, invites, exports>>
  /\ CoreStays

VerifyLink(l, g) == Live(l) /\ l.group = g

\* downloadActor: the user of a live session, or of a live link to this export.
DownloadActor(c, g) ==
  /\ Free(c)
  /\ \E s \in {t \in sessions : Live(t)} \cup {l \in links : VerifyLink(l, g)} :
       Checked(c, [op |-> "download", user |-> s.user, group |-> g, waited |-> 0,
                   age |-> s.age])
  /\ UNCHANGED <<registered, issuedVars, exports>>
  /\ CoreStays

\* Anything else ends a request: a refusal, an error of Core, the client going
\* away; and a download when it has been authorised again and streamed.
EndRequest(c) ==
  /\ request[c] # NoRequest
  /\ Done(c)
  /\ UNCHANGED <<registered, issuedVars, exports>>
  /\ CoreStays

CoreStep(c) == GroupCallStep(c) /\ UNCHANGED accessVars

-----------------------------------------------------------------------------

\* One unit of time later; what has been expired for longer than "slack" is left
\* out of the state, as presenting it changes nothing.
Later(statements, slack) ==
  {s \in {[t EXCEPT !.left = @ - 1] : t \in statements} : s.left + slack >= 0}
Older(statements) == {[s EXCEPT !.age = @ + 1] : s \in statements}
LaterInvite(i)    == IF i = NoInvite THEN i ELSE [i EXCEPT !.left = @ - 1]

\* A handler's calls do not outlast their deadline, and signing takes no time.
Patience(r) == IF r.op \in {"session", "invite"} THEN 0 ELSE Deadline

Tick ==
  /\ \A c \in GroupClients :
       request[c] # NoRequest => request[c].waited < Patience(request[c])
  /\ request' = [c \in GroupClients |->
       LET r == request[c]
       IN  CASE r = NoRequest -> r
             [] "invite" \in DOMAIN r ->
                  [r EXCEPT !.waited = @ + 1, !.age = @ + 1, !.invite = LaterInvite(@)]
             [] OTHER -> [r EXCEPT !.waited = @ + 1, !.age = @ + 1]]
  /\ sessions' = {[s EXCEPT !.invite = VerifySession([s EXCEPT !.invite = LaterInvite(@)])] :
                    s \in Later(Older(sessions), 0)}
  /\ invites' = Later(invites, Deadline)
  /\ links' = Later(Older(links), 0)
  /\ UNCHANGED <<groupVars, registered, exports>>

LoginStep(c)   == UpsertUser(c) \/ LoginJoins(c) \/ Launch(c) \/ IssueSession(c)
HandlerStep(c) ==
  \/ \E g \in Groups :
       \/ HandleCreateGroup(c, g) \/ HandleArchiveGroup(c, g)
       \/ HandleJoinGroup(c, g) \/ HandleCreateInvite(c, g)
       \/ HandleCreateExport(c, g) \/ HandleGetExport(c, g)
       \/ \E users \in SUBSET Users : HandleAddGroupMembers(c, g, users)
       \/ \E u \in Users, desired \in {"admin", "member"} : HandleUpdateMemberRole(c, g, u, desired)
  \/ IssueInvite(c)

AccessNext ==
  \/ Tick
  \/ \E c \in GroupClients :
       \/ \E u \in Users, age \in Age : MaxLogin(c, u, age)
       \/ \E s \in sessions : SessionAuth(c, s)
       \/ \E g \in Groups : DownloadActor(c, g)
       \/ LoginStep(c) \/ HandlerStep(c) \/ EndRequest(c) \/ CoreStep(c)

AccessSpec == AccessInit /\ [][AccessNext]_gatewayVars

-----------------------------------------------------------------------------
(* Properties *)

\* Whoever joins a group does so on an invite to THIS group that a manager of it
\* has issued, and within one deadline of its expiry, however often the invite and
\* the sessions made from it are presented again, and although neither is looked
\* up anywhere (auth.go 111, groups.go joinGroup).
JoinedOnInvite ==
  [][\A g \in Groups, u \in Users :
       LET entries == memberTrail'[g][u]
       IN  (~IsMember(g, u) /\ entries # <<>> /\ entries[1].action = "member_joined") =>
             \E i \in invites :
               i.group = g /\ i.left + Deadline > 0 /\ WasManager(g, i.by)]_gatewayVars

\* What is handed out is never worth more than the time since MAX last vouched for
\* the user: a handler serves nobody later than initData, a login, a session and
\* its own calls may last, and a download adds one link and its calls.  Each step
\* checks only its own statement.
AccessLapses ==
  \A c \in GroupClients :
    /\ request[c].op \in {"handler", "invite"} => request[c].age < Lapse
    /\ request[c].op = "download" => request[c].age < Lapse + DownloadTTL + Deadline

=============================================================================
