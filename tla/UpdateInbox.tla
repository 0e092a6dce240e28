------------------------------ MODULE UpdateInbox ------------------------------
(***************************************************************************)
(* MAX updates in the Gateway: the webhook stores them                     *)
(* (src/internal/gateway/delivery/http/webhook.go), workers claim,         *)
(* dispatch and finish them (src/internal/gateway/maxupdate/worker.go,     *)
(* dispatcher.go, callbacks.go) with the statements on gateway_max_updates *)
(* (src/internal/gateway/repository/postgres/store.go 32-151).             *)
(*                                                                         *)
(* An update is named by its event_key (the hash of its body).  Unlike the *)
(* notifications, updates whose lease has run out are claimed again, so    *)
(* two workers may have one update in hand and neither statement that      *)
(* finishes it names an owner.                                             *)
(***************************************************************************)
EXTENDS Naturals, FiniteSets

CONSTANTS
  Updates,      \* the updates MAX sends, records with a field type:
                \*   [type : "chat", chat, status, at]   bot_added, bot_removed
                \*   [type : "started", user]            bot_started
                \*   [type : "welcome", user]            /start
                \*   [type : "confirm", settlement]      the callback button
  Workers,      \* update workers (one per Gateway process)
  BatchSize,    \* workerBatchSize
  MaxAttempts,  \* maxAttempts
  MaxFaults     \* bound: stopped workers, lost statements, leases that run out early

ASSUME InboxAssumption ==
  BatchSize \in Nat \ {0} /\ MaxAttempts \in Nat \ {0} /\ MaxFaults \in Nat

ASSUME UpdatesAssumption ==
  \A e \in Updates :
    /\ e.type \in {"chat", "started", "welcome", "confirm"}
    /\ e.type = "chat" => e.at \in Nat /\ e.status \in {"active", "removed"}

OfType(t) == {e \in Updates : e.type = t}
Chats     == {e.chat : e \in OfType("chat")}
Starters  == {e.user : e \in OfType("started")}

VARIABLES
  status,        \* status of each row of gateway_max_updates, "absent" without one
  attempts,      \* attempts of each row
  due,           \* rows whose next_attempt_at has come
  held,          \* held[w]: claimed rows w has not dispatched, with their attempts
  result,        \* result[w]: what w has to record about its last dispatch
  chats,         \* gateway_max_chats: [status, at], at = 0 without a row
  subscription,  \* gateway_max_personal_subscriptions.status (the Mini App disables it:
                 \* module NotificationOutbox)
  applied,       \* history: how often each update had its effect
  faults         \* faults so far

queueVars  == <<status, attempts, due>>
effectVars == <<chats, subscription, applied>>
inboxVars  == <<queueVars, held, result, effectVars, faults>>

\* The rows of the inbox, of the chats and of the subscriptions keep the values
\* their CHECK constraints allow; attempts pass maxAttempts only by the lost
\* leases that ClaimUpdates counts without a limit
\* (src/internal/gateway/repository/postgres/store.go 48-75).
InboxTypeOK ==
  /\ status \in [Updates -> {"absent", "pending", "processing", "processed", "failed"}]
  /\ attempts \in [Updates -> 0 .. MaxAttempts + MaxFaults]
  /\ due \in SUBSET Updates
  /\ held \in [Workers -> SUBSET (Updates \X Nat)]
  /\ result \in [Workers -> SUBSET (Updates \X Nat \X {"ok", "error"})]
  /\ chats \in [Chats -> [status : {"none", "active", "removed"}, at : Nat]]
  /\ subscription \in [Starters -> {"none", "active"}]
  /\ applied \in [Updates -> Nat]
  /\ faults \in 0 .. MaxFaults

InboxInit ==
  /\ status = [e \in Updates |-> "absent"]
  /\ attempts = [e \in Updates |-> 0]
  /\ due = {}
  /\ held = [w \in Workers |-> {}]
  /\ result = [w \in Workers |-> {}]
  /\ chats = [c \in Chats |-> [status |-> "none", at |-> 0]]
  /\ subscription = [u \in Starters |-> "none"]
  /\ applied = [e \in Updates |-> 0]
  /\ faults = 0

Fault == faults < MaxFaults /\ faults' = faults + 1

-----------------------------------------------------------------------------
(* The webhook *)

\* Variant: a repeated update starts again (ON CONFLICT DO UPDATE).
StoredAgain(e) == "pending"

\* INSERT ... ON CONFLICT (event_key) DO NOTHING
Stored(e) == IF status[e] = "absent" THEN "pending" ELSE status[e]

\* MAX sends an update again until it has seen the answer, and at any time.
IngestUpdate(e) ==
  /\ status' = [status EXCEPT ![e] = Stored(e)]
  /\ due' = IF status[e] = "absent" THEN due \cup {e} ELSE due
  /\ UNCHANGED <<attempts, held, result, effectVars, faults>>

-----------------------------------------------------------------------------
(* The worker *)

IdleWorker(w) == held[w] = {} /\ result[w] = {}

\* Variant: only rows nobody has claimed, as for notifications.
ClaimablePending(e) == status[e] = "pending" /\ e \in due

Claimable(e) == status[e] \in {"pending", "processing"} /\ e \in due

\* One statement claims the first due rows, up to the limit, and leases them.
Lease(batch) ==
  LET ready == {e \in Updates : Claimable(e)}
  IN  /\ batch \subseteq ready /\ batch # {}
      /\ Cardinality(batch) = BatchSize \/ batch = ready
      /\ Cardinality(batch) =< BatchSize
      /\ status' = [e \in Updates |-> IF e \in batch THEN "processing" ELSE status[e]]
      /\ attempts' = [e \in Updates |-> attempts[e] + (IF e \in batch THEN 1 ELSE 0)]
      /\ due' = due \ batch

ClaimUpdates(w, batch) ==
  /\ IdleWorker(w)
  /\ Lease(batch)
  /\ held' = [held EXCEPT ![w] = {<<e, attempts'[e]>> : e \in batch}]
  /\ UNCHANGED <<result, effectVars, faults>>

\* Variant: the event time is not compared.
UpsertChatAnyTime(row, e) == [status |-> e.status, at |-> e.at]

\* UpsertChat: ON CONFLICT ... WHERE EXCLUDED.last_event_at >= last_event_at
UpsertChat(row, e) ==
  IF e.at >= row.at THEN [status |-> e.status, at |-> e.at] ELSE row

\* The effect of an update (Dispatch and its handlers).  The welcome message
\* goes straight to MAX and a confirmation to Core (Press of GatewayRequests);
\* only their number is kept, in applied.
Effect(e) ==
  /\ chats' = IF e.type = "chat"
              THEN [chats EXCEPT ![e.chat] = UpsertChat(@, e)] ELSE chats
  /\ subscription' = IF e.type = "started"
                     THEN [subscription EXCEPT ![e.user] = "active"] ELSE subscription
  /\ applied' = [applied EXCEPT ![e] = @ + 1]

Finish(w, e, n, r) ==
  /\ held' = [held EXCEPT ![w] = @ \ {<<e, n>>}]
  /\ result' = [result EXCEPT ![w] = {<<e, n, r>>}]

Dispatch(w, e, n) ==
  /\ <<e, n>> \in held[w] /\ result[w] = {}
  /\ Effect(e)
  /\ Finish(w, e, n, "ok")
  /\ UNCHANGED <<queueVars, faults>>

\* The database, MAX or the answer to the callback fails, before the effect or
\* after it.
DispatchFails(w, e, n) ==
  /\ <<e, n>> \in held[w] /\ result[w] = {}
  /\ Effect(e) \/ UNCHANGED effectVars
  /\ Finish(w, e, n, "error")
  /\ UNCHANGED <<queueVars, faults>>

\* confirmSettlementCallback: a Core that cannot be reached or refuses is not an
\* error of the update; the button has to be pressed again.
ConfirmUnavailable(w, e, n) ==
  /\ <<e, n>> \in held[w] /\ result[w] = {}
  /\ e.type = "confirm"
  /\ Finish(w, e, n, "ok")
  /\ UNCHANGED <<queueVars, effectVars, faults>>

\* Variant: the first failure is terminal.
OutcomeGiveUpEarly(e, n, r) ==
  IF status[e] # "processing" THEN status[e]
  ELSE IF r = "ok" THEN "processed" ELSE "failed"

\* CompleteUpdate and FailUpdate: WHERE event_key AND status = 'processing'.
Outcome(e, n, r) ==
  IF status[e] # "processing" THEN status[e]
  ELSE IF r = "ok" THEN "processed"
  ELSE IF n >= MaxAttempts THEN "failed" ELSE "pending"

\* Only FailUpdate writes next_attempt_at.
Record(w) ==
  /\ \E o \in result[w] :
       /\ status' = [status EXCEPT ![o[1]] = Outcome(o[1], o[2], o[3])]
       /\ due' = IF o[3] = "error" /\ status[o[1]] = "processing" THEN due \ {o[1]} ELSE due
  /\ result' = [result EXCEPT ![w] = {}]
  /\ UNCHANGED <<attempts, held, effectVars, faults>>

\* The statement fails; the worker logs the error and goes on with the batch.
RecordFails(w) ==
  /\ result[w] # {}
  /\ Fault
  /\ result' = [result EXCEPT ![w] = {}]
  /\ UNCHANGED <<queueVars, held, effectVars>>

\* The context ends or the process dies; the worker is started again.
Stop(w) ==
  /\ ~IdleWorker(w)
  /\ Fault
  /\ held' = [held EXCEPT ![w] = {}]
  /\ result' = [result EXCEPT ![w] = {}]
  /\ UNCHANGED <<queueVars, effectVars>>

InHand(e) == \E w \in Workers : \/ \E p \in held[w] : p[1] = e
                                \/ \E o \in result[w] : o[1] = e

\* next_attempt_at comes: the end of a backoff, or of the lease of a row that
\* is in nobody's hands any more.
Tick(e) ==
  /\ status[e] \in {"pending", "processing"} /\ e \notin due
  /\ ~InHand(e)
  /\ due' = due \cup {e}
  /\ UNCHANGED <<status, attempts, held, result, effectVars, faults>>

\* The lease (30 s for a whole batch) ends before the worker has come to the row.
LeaseRunsOut(e) ==
  /\ status[e] \in {"pending", "processing"} /\ e \notin due
  /\ InHand(e)
  /\ Fault
  /\ due' = due \cup {e}
  /\ UNCHANGED <<status, attempts, held, result, effectVars>>

WorkerStep(w) ==
  \/ \E batch \in SUBSET Updates : ClaimUpdates(w, batch)
  \/ \E p \in held[w] : \/ Dispatch(w, p[1], p[2])
                        \/ DispatchFails(w, p[1], p[2])
                        \/ ConfirmUnavailable(w, p[1], p[2])
  \/ Record(w)

InboxNext ==
  \/ \E e \in Updates : IngestUpdate(e) \/ Tick(e) \/ LeaseRunsOut(e)
  \/ \E w \in Workers : WorkerStep(w) \/ RecordFails(w) \/ Stop(w)

InboxSpec == InboxInit /\ [][InboxNext]_inboxVars

\* A worker's loop runs on and time passes; MAX need not send anything.
FairInboxSpec ==
  /\ InboxSpec
  /\ \A w \in Workers : WF_inboxVars(WorkerStep(w))
  /\ \A e \in Updates : WF_inboxVars(Tick(e))

-----------------------------------------------------------------------------
(* Properties *)

\* A chat's row is what the newest event that was applied says, in whatever
\* order updates are claimed, retried and applied twice.
NewestEventWins ==
  \A c \in Chats :
    LET seen == {e \in OfType("chat") : e.chat = c /\ applied[e] > 0}
    IN  IF seen = {} THEN chats[c].at = 0
        ELSE /\ \A e \in seen : e.at =< chats[c].at
             /\ \E e \in seen : e.at = chats[c].at /\ e.status = chats[c].status

\* An update that counts as processed had its effect (a confirmation may have
\* been refused), never oftener than it was claimed; and one that was given up was
\* claimed MaxAttempts times.
AttemptsExplainOutcome ==
  \A e \in Updates :
    /\ status[e] = "processed" /\ e.type # "confirm" => applied[e] > 0
    /\ applied[e] =< attempts[e]
    /\ status[e] = "failed" => attempts[e] >= MaxAttempts

\* Once processed or failed an update stays so, although MAX may send it again
\* and a second worker may still have it in hand: only the status in the WHERE
\* clause of CompleteUpdate and FailUpdate keeps a late worker from undoing it.
ProcessedForGood ==
  [][\A e \in Updates : status[e] \in {"processed", "failed"} => status'[e] = status[e]]_inboxVars

\* The queue is drained again and again: every update MAX was told is stored has
\* then been processed or given up, even if workers stop, statements are lost and
\* leases run out early.
NoneLost == []<>(\A e \in Updates : status[e] \in {"absent", "processed", "failed"})
===============================================================================
