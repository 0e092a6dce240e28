---------------------------- MODULE GatewayRequests ----------------------------
(***************************************************************************)
(* Requests of the Mini App on their way through the Gateway, Core and     *)
(* back: the handlers of GatewayRoutes call Core, whose part is            *)
(* CoreRecords, over connections that fail, answer late or lose the        *)
(* answer; the client may be gone before its answer, and asks again.  The  *)
(* button of a settlement, in a chat of MAX, is a second way to confirm it.*)
(* What a handler does after its write, telling the group's members, is    *)
(* several steps that other requests and failures interrupt.               *)
(***************************************************************************)
EXTENDS CoreRecords, GatewayRoutes

CONSTANTS
  Slots,        \* requests under way at once
  Workloads,    \* bound: the requests [route, intent] that clients send to each
                \* slot in one behaviour, a function on Slots
  Subscribers   \* users with an active personal subscription

-----------------------------------------------------------------------------
(* What clients ask for *)

NoIntent == [op |-> "none"]

\* The requests that write records of money and members, with what they carry.
Intents ==
  [op : {"createExpense"}, actor : Users, input : ExpenseInputs]
    \cup [op : {"updateExpense"}, actor : Users, id : ExpenseIds, version : Nat,
          input : ExpenseInputs]
    \cup [op : {"confirmExpense", "cancelExpense"}, actor : Users, id : ExpenseIds]
    \cup [op : {"createAdjustment"}, actor : Users, id : ExpenseIds, input : AdjustmentInputs]
    \cup [op : {"createSettlement"}, actor : Users, input : SettlementInputs]
    \cup [op : {"confirmSettlement"}, actor : Users, id : SettlementIds]
    \cup [op : {"createGroup", "joinGroup", "archiveGroup"}, actor : Users, group : Groups]
    \cup [op : {"addGroupMembers"}, actor : Users, group : Groups, users : SUBSET Users]

Writing ==
  {"createExpense", "updateExpense", "confirmExpense", "cancelExpense", "createAdjustment",
   "createSettlement", "confirmSettlement", "createGroup", "joinGroup", "addGroupMembers",
   "archiveGroup"}

Requests ==
  {request \in [route : DOMAIN Route, intent : Intents \cup {NoIntent}] :
     IF request.intent = NoIntent THEN request.route \notin Writing
                                  ELSE request.route = request.intent.op}

ASSUME RequestsAssumption ==
  /\ Workloads \subseteq [Slots -> SUBSET Requests]
  /\ \A input \in ExpenseInputs \cup SettlementInputs : input.group \in Groups

VARIABLES
  load,       \* the workload of this behaviour
  work,       \* work[s]: how far the request in slot s is
  outbox,     \* notifications: dedupe key -> the event it tells
  committed   \* history: the events of requests that Core has committed

vars == <<records, load, work, outbox, committed>>

-----------------------------------------------------------------------------
(* Statuses *)

\* The error of a use case as a gRPC code.
ToGRPCError ==
  [ErrInvalidArgument |-> "InvalidArgument", ErrNotFound |-> "NotFound",
   ErrForbidden |-> "PermissionDenied", ErrConflict |-> "Aborted",
   ErrInvalidState |-> "FailedPrecondition", ErrArchivedGroup |-> "FailedPrecondition"]

\* What the connection says of a call whose outcome it does not know, and Core
\* of any other error.
Unknown == {"Unavailable", "DeadlineExceeded", "Canceled", "Internal"}

\* Variant: a timeout counts as a conflict with another request.
TimeoutConflicts(code) ==
  CASE code = "InvalidArgument" -> 400
    [] code = "PermissionDenied" -> 403
    [] code = "NotFound" -> 404
    [] code \in {"Aborted", "FailedPrecondition", "DeadlineExceeded"} -> 409
    [] OTHER -> 500

\* writeDownstreamError, without the codes that no answer to these requests has:
\* Unauthenticated, AlreadyExists and ResourceExhausted.
HTTPStatus(code) ==
  CASE code = "InvalidArgument" -> 400
    [] code = "PermissionDenied" -> 403
    [] code = "NotFound" -> 404
    [] code \in {"Aborted", "FailedPrecondition"} -> 409
    [] code = "Unavailable" -> 503
    [] code = "DeadlineExceeded" -> 504
    [] OTHER -> 500

Refusals == {HTTPStatus(ToGRPCError[err]) : err \in DOMAIN ToGRPCError}
Errors   == Refusals \cup {HTTPStatus(code) : code \in Unknown}

\* A client tells apart success (2), refusal (4) and failure (5).
Kind(status) == status \div 100

-----------------------------------------------------------------------------
(* The request in a slot *)

NoEvent == [op |-> "none"]

Free == [todo |-> <<>>, intent |-> NoIntent, call |-> "none", event |-> NoEvent,
         to |-> {}, answer |-> 0]

Answered(job, status) ==
  [job EXCEPT !.todo = <<>>, !.to = {}, !.event = NoEvent, !.answer = Kind(status)]

\* The job with the steps that remain, or refused by one of the checks they begin with.
Onward(job, steps) ==
  LET Checked(n) == \A i \in 1..n : steps[i].step = "check"
  IN  {[job EXCEPT !.todo = SubSeq(steps, n, Len(steps))] :
         n \in {m \in DOMAIN steps : Checked(m - 1) /\ ~Checked(m)}}
        \cup {Answered(job, status) :
                status \in UNION {steps[n].statuses : n \in {m \in DOMAIN steps : Checked(m)}}}

Busy(s)     == work[s].todo # <<>> /\ work[s].to = {}
At(s, step) == Busy(s) /\ Head(work[s].todo).step = step

Continue(s, job) == \E next \in Onward(job, Tail(job.todo)) : work' = [work EXCEPT ![s] = next]

AnswerWith(s, status) == work' = [work EXCEPT ![s] = Answered(@, status)]

Receive(s) ==
  /\ work[s] = Free
  /\ \E request \in load[s] :
       \E job \in Onward([Free EXCEPT !.intent = request.intent], Route[request.route]) :
         work' = [work EXCEPT ![s] = job]
  /\ UNCHANGED <<records, load, outbox, committed>>

\* The button of a settlement in a chat: an update worker that dispatches the press,
\* for the first time or again, calls Core for the user who pressed it.  What it
\* answers, "confirmed" or after any error "cannot confirm", changes nothing, and
\* the latter is said as well when the answer of Core is lost.
Press(s) ==
  /\ work[s] = Free
  /\ \E i \in {request.intent : request \in load[s]} :
       /\ i.op = "confirmSettlement"
       /\ work' = [work EXCEPT ![s] = [Free EXCEPT !.intent = i, !.call = "sent"]]
  /\ UNCHANGED <<records, load, outbox, committed>>

\* A write that leaves the records of money and members alone (Document's, a role,
\* see ReceiptProcessing, ReportExport and CoreGroups) answers like a call that asks.
Asks(s) == At(s, "ask") \/ (At(s, "write") /\ work[s].intent = NoIntent)

Asked(s) ==
  /\ Asks(s)
  /\ Continue(s, work[s])
  /\ UNCHANGED <<records, load, outbox, committed>>

AskFailed(s) ==
  /\ Asks(s)
  /\ \E status \in Errors : AnswerWith(s, status)
  /\ UNCHANGED <<records, load, outbox, committed>>

Answer(s) ==
  /\ At(s, "respond")
  /\ AnswerWith(s, Head(work[s].todo).status)
  /\ UNCHANGED <<records, load, outbox, committed>>

-----------------------------------------------------------------------------
(* The call that writes: it is on its way ("sent") until Core has carried it *)
(* out ("done") or not ("refused"), whether anybody waits for it or not.     *)

Send(s) ==
  /\ At(s, "write") /\ work[s].intent # NoIntent /\ work[s].call = "none"
  /\ work' = [work EXCEPT ![s].call = "sent"]
  /\ UNCHANGED <<records, load, outbox, committed>>

\* The step of CoreRecords that an intent asks for; id is the row it writes.  A
\* repeated createGroup, which makes another group in the code, finds no id here.
Carry(i, id) ==
  \/ i.op = "createExpense" /\ id \in ExpenseIds /\ CreateExpense(id, i.actor, i.input)
  \/ /\ i.op = "createAdjustment" /\ id \in AdjustmentIds
     /\ CreateAdjustment(id, i.id, i.actor, i.input)
  \/ /\ i.op = "createSettlement" /\ i.actor = i.input.sender /\ id \in SettlementIds
     /\ CreateSettlement(id, i.input)
  \/ /\ i.op \in {"updateExpense", "confirmExpense", "cancelExpense", "confirmSettlement"}
     /\ id = i.id
     /\ \/ i.op = "updateExpense" /\ UpdateExpense(id, i.actor, i.version, i.input)
        \/ i.op = "confirmExpense" /\ SetStatus(id, i.actor, "confirmed")
        \/ i.op = "cancelExpense" /\ SetStatus(id, i.actor, "cancelled")
        \/ i.op = "confirmSettlement" /\ ConfirmSettlement(id, i.actor)
  \/ /\ i.op \in {"createGroup", "joinGroup", "addGroupMembers", "archiveGroup"}
     /\ id = i.group
     /\ \/ i.op = "createGroup" /\ members[id] = {} /\ Join(id, {i.actor})
        \/ i.op = "joinGroup" /\ members[id] # {} /\ Join(id, {i.actor})
        \/ i.op = "addGroupMembers" /\ i.actor \in members[id] /\ Join(id, i.users)
        \/ i.op = "archiveGroup" /\ i.actor \in members[id] /\ Archive(id)

Rows ==
  [createExpense |-> expenses, updateExpense |-> expenses, confirmExpense |-> expenses,
   cancelExpense |-> expenses, createAdjustment |-> adjustments,
   createSettlement |-> settlements, confirmSettlement |-> settlements,
   createGroup |-> members, joinGroup |-> members, addGroupMembers |-> members,
   archiveGroup |-> members]

Event(i, id) == [intent |-> i, id |-> id, row |-> Rows[i.op][id]]

Carried(s, event) == work' = [work EXCEPT ![s] = [@ EXCEPT !.call = "done", !.event = event]]

Commit(s) ==
  /\ work[s].call = "sent"
  /\ \E i \in {work[s].intent},
        id \in ExpenseIds \cup SettlementIds \cup AdjustmentIds \cup Groups :
       /\ Carry(i, id)
       /\ Carried(s, Event(i, id)')
       /\ committed' = committed \cup {Event(i, id)'}
  /\ UNCHANGED <<load, outbox>>

\* A confirmation or a cancelling that has been made already succeeds without effect.
AlreadyMade(i) ==
  \/ /\ i.op \in {"confirmExpense", "cancelExpense"} /\ i.id \in DOMAIN expenses
     /\ i.actor \in members[expenses[i.id].group]
     /\ expenses[i.id].status = (IF i.op = "confirmExpense" THEN "confirmed" ELSE "cancelled")
  \/ /\ i.op = "confirmSettlement" /\ i.id \in DOMAIN settlements
     /\ settlements[i.id].receiver = i.actor /\ settlements[i.id].status = "confirmed"

Repeat(s) ==
  /\ work[s].call = "sent"
  /\ AlreadyMade(work[s].intent)
  /\ Carried(s, Event(work[s].intent, work[s].intent.id))
  /\ UNCHANGED <<records, load, outbox, committed>>

\* Core turns the request down, or its transaction fails: also for roles and for
\* input that CoreRecords leaves out.
TurnDown(s) ==
  /\ work[s].call = "sent"
  /\ work' = [work EXCEPT ![s].call = "refused"]
  /\ UNCHANGED <<records, load, outbox, committed>>

\* ConfirmExpense and CancelExpense read the expense again for their answer.
Reread(event) ==
  IF event.intent.op \in {"confirmExpense", "cancelExpense"}
  THEN Event(event.intent, event.id) ELSE event

Reply(s) ==
  /\ At(s, "write") /\ work[s].call = "done"
  /\ Continue(s, [work[s] EXCEPT !.event = Reread(@)])
  /\ UNCHANGED <<records, load, outbox, committed>>

ReplyRefused(s) ==
  /\ At(s, "write") /\ work[s].call = "refused"
  /\ \E status \in Refusals : AnswerWith(s, status)
  /\ UNCHANGED <<records, load, outbox, committed>>

\* The deadline of the call passes, the connection breaks or Core fails before,
\* during or after its transaction.
ReplyLost(s) ==
  /\ At(s, "write") /\ work[s].call \in {"sent", "done", "refused"}
  /\ \E code \in Unknown : AnswerWith(s, HTTPStatus(code))
  /\ UNCHANGED <<records, load, outbox, committed>>

\* The client is gone, or the Gateway stops: nothing is done any more for this
\* request, except by Core.
CutOff(s) ==
  /\ work[s].todo # <<>>
  /\ work' = [work EXCEPT ![s] = [@ EXCEPT !.todo = <<>>, !.to = {}, !.event = NoEvent]]
  /\ UNCHANGED <<records, load, outbox, committed>>

End(s) ==
  /\ work[s].todo = <<>> /\ work[s] # Free /\ work[s].call # "sent"
  /\ work' = [work EXCEPT ![s] = Free]
  /\ UNCHANGED <<records, load, outbox, committed>>

-----------------------------------------------------------------------------
(* Telling the members *)

\* GetGroup for the name the notification begins with: without it there is none.
Named(s) ==
  /\ At(s, "name")
  /\ Continue(s, work[s])
  /\ UNCHANGED <<records, load, outbox, committed>>

Nameless(s) ==
  /\ At(s, "name")
  /\ Continue(s, [work[s] EXCEPT !.todo = Tail(@)])
  /\ UNCHANGED <<records, load, outbox, committed>>

\* ListGroupMembers, and who of them has an active subscription.
Listed(s) ==
  /\ At(s, "notify")
  /\ LET told == members[work[s].event.row.group] \cap Subscribers
         rest == Tail(work[s].todo)
     IN  work' = [work EXCEPT ![s] = [@ EXCEPT !.to = told, !.todo = rest]]
  /\ UNCHANGED <<records, load, outbox, committed>>

Unlisted(s) ==
  /\ At(s, "notify")
  /\ Continue(s, work[s])
  /\ UNCHANGED <<records, load, outbox, committed>>

\* Variant: one key for all updates of an expense.
UpdateKeyOfExpense(event) ==
  [kind |-> event.intent.op, id |-> event.id, version |-> 0]

DedupeKey(event) ==
  [kind |-> event.intent.op, id |-> event.id,
   version |-> IF event.intent.op = "updateExpense" THEN event.row.version ELSE 0]

\* INSERT ... ON CONFLICT DO NOTHING
Enqueue(s, u) ==
  /\ u \in work[s].to
  /\ LET key == <<DedupeKey(work[s].event), u>>
     IN  outbox' = IF key \in DOMAIN outbox THEN outbox ELSE Put(outbox, key, work[s].event.row)
  /\ work' = [work EXCEPT ![s].to = @ \ {u}]
  /\ UNCHANGED <<records, load, committed>>

EnqueueFails(s, u) ==
  /\ u \in work[s].to
  /\ work' = [work EXCEPT ![s].to = @ \ {u}]
  /\ UNCHANGED <<records, load, outbox, committed>>

-----------------------------------------------------------------------------
RequestsInit ==
  /\ Init
  /\ load \in Workloads
  /\ work = [s \in Slots |-> Free]
  /\ outbox = << >>
  /\ committed = {}

CallNext(s) ==
  Send(s) \/ Commit(s) \/ Repeat(s) \/ TurnDown(s) \/ Reply(s) \/ ReplyRefused(s) \/ ReplyLost(s)

NotifyNext(s) ==
  \/ Named(s) \/ Nameless(s) \/ Listed(s) \/ Unlisted(s)
  \/ \E u \in work[s].to : Enqueue(s, u) \/ EnqueueFails(s, u)

RequestsNext ==
  \E s \in Slots :
    \/ Receive(s) \/ Press(s) \/ Asked(s) \/ AskFailed(s) \/ Answer(s) \/ CutOff(s) \/ End(s)
    \/ CallNext(s) \/ NotifyNext(s)

RequestsSpec == RequestsInit /\ [][RequestsNext]_vars

-----------------------------------------------------------------------------
(* Properties *)

\* What a request asked for is in the records: as it was made, or under what
\* others made of it later.
Recorded(i) ==
  CASE i.op = "updateExpense"  -> expenses[i.id].version > i.version
    [] i.op = "confirmExpense" -> expenses[i.id].status = "confirmed"
    [] i.op = "cancelExpense"  -> expenses[i.id].status = "cancelled"
    [] i.op = "confirmSettlement" -> settlements[i.id].status = "confirmed"
    [] i.op = "archiveGroup"   -> i.group \in archived
    [] i.op \in {"createGroup", "joinGroup"} -> i.actor \in members[i.group]
    [] i.op = "addGroupMembers" -> i.users \subseteq members[i.group]
    [] OTHER -> \E event \in committed :
                  event.intent = i /\ event.id \in DOMAIN Rows[i.op]

\* An answer never deceives its client.  After a success what it asked for is
\* recorded; after a refusal (4xx) Core has not carried the request out and never
\* will, so that the client may correct it and ask again.  Only 5xx leaves it open:
\* every failure after the call has left, and the late commit of a call that was
\* given up, must end there (writeDownstreamError, toGRPCError and the order of the
\* steps of every handler).
AnswersTrue ==
  \A s \in Slots : work[s].intent # NoIntent =>
    /\ work[s].answer = 2 => work[s].call = "done" /\ Recorded(work[s].intent)
    /\ work[s].answer = 4 => work[s].call \in {"none", "refused"}

\* A notification tells its recipient, a member of the group, exactly the event that
\* Core committed under the notification's key, whatever requests repeat it, race it
\* or lose its notification first: no two events share a key (notifications/notifier.go,
\* the dedupe keys).
NotifiedAsCommitted ==
  \A key \in DOMAIN outbox :
    /\ \E event \in committed : DedupeKey(event) = key[1]
    /\ \A event \in committed : DedupeKey(event) = key[1] =>
         /\ outbox[key] = event.row
         /\ key[2] \in members[event.row.group]

\* A client that asks again because it lost the answer, or a second client with the
\* same version in hand, never makes the change twice: of all requests to replace one
\* version of an expense at most one takes effect, and an expense or a settlement is
\* settled once (repository/postgres/expense.go and settlement.go), also when the button
\* in the chat is pressed again, its press is dispatched again or by two workers at once,
\* and the Mini App confirms at the same time (maxupdate/callbacks.go).
RetryTakesEffectOnce ==
  \A one, other \in committed :
    /\ one.intent.op = other.intent.op /\ one.id = other.id
    /\ \/ one.intent.op = "updateExpense" /\ one.intent.version = other.intent.version
       \/ one.intent.op \in {"confirmExpense", "cancelExpense", "confirmSettlement"}
    => one = other

===============================================================================
