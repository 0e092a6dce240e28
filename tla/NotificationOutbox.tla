-------------------------- MODULE NotificationOutbox --------------------------
(***************************************************************************)
(* Personal MAX notifications of the Gateway: NotifyPersonal enqueues them *)
(* (src/internal/gateway/notifications/notifier.go), workers claim, send   *)
(* and finish them (worker.go) with four statements on                     *)
(* gateway_notifications (src/internal/gateway/repository/postgres/        *)
(* store.go 324-401).                                                      *)
(*                                                                         *)
(* A row is named by its dedupe_key, which is the business event and the   *)
(* recipient.  Time is abstract: a row is due or it is not.  Any call to   *)
(* PostgreSQL or MAX may fail, before or after it took effect, and a       *)
(* worker may stop between any two of its steps: processBatch leaves the   *)
(* loop when its context ends, and the process may die.                    *)
(***************************************************************************)
EXTENDS Naturals, FiniteSets

CONSTANTS
  Users,        \* MAX users
  Events,       \* business events: "expense-create:7", "settlement:3", ...
  Notifiers,    \* HTTP handlers that are notifying
  Workers,      \* notification workers (one per Gateway process)
  BatchSize,    \* workerBatchSize
  MaxAttempts,  \* maxAttempts
  MaxFaults     \* bound: stopped workers and statements of workers that fail

ASSUME OutboxAssumption ==
  BatchSize \in Nat \ {0} /\ MaxAttempts \in Nat \ {0} /\ MaxFaults \in Nat

VARIABLES
  subscription, \* gateway_max_personal_subscriptions.status, "none" without a row
  notifying,    \* notifying[n]: the subscriptions NotifyPersonal still has to enqueue
  status,       \* status of each row of gateway_notifications, "absent" without one
  attempts,     \* attempts of each row
  due,          \* rows whose next_attempt_at has come
  held,         \* held[w]: the claimed rows w has not handled, with their attempts
  sending,      \* sending[w]: what w has to record about the row it has just sent
  delivered,    \* history: how often MAX has got the message
  faults        \* faults so far

outboxVars == <<subscription, notifying, status, attempts, due, held, sending,
                delivered, faults>>

\* "welcome:<user>" is the one key that names no business event.
Keys == (Events \cup {"welcome"}) \X Users

\* A row of gateway_notifications never has more attempts than the worker's
\* maxAttempts, and a worker has one outcome at a time to record
\* (src/internal/gateway/notifications/worker.go 91-159).
OutboxTypeOK ==
  /\ subscription \in [Users -> {"none", "active", "disabled"}]
  /\ notifying \in [Notifiers -> SUBSET Keys]
  /\ status \in [Keys -> {"absent", "pending", "processing", "sent", "failed"}]
  /\ attempts \in [Keys -> 0 .. MaxAttempts]
  /\ due \in SUBSET Keys
  /\ held \in [Workers -> SUBSET (Keys \X Nat)]
  /\ sending \in [Workers -> SUBSET (Keys \X Nat \X {"ok", "error"})]
  /\ \A w \in Workers : Cardinality(sending[w]) =< 1
  /\ delivered \in [Keys -> Nat]
  /\ faults \in 0 .. MaxFaults

OutboxInit ==
  /\ subscription = [u \in Users |-> "none"]
  /\ notifying = [n \in Notifiers |-> {}]
  /\ status = [k \in Keys |-> "absent"]
  /\ attempts = [k \in Keys |-> 0]
  /\ due = {}
  /\ held = [w \in Workers |-> {}]
  /\ sending = [w \in Workers |-> {}]
  /\ delivered = [k \in Keys |-> 0]
  /\ faults = 0

Fault == faults < MaxFaults /\ faults' = faults + 1

-----------------------------------------------------------------------------
(* Subscriptions and NotifyPersonal *)

Subscribe(u) ==
  /\ subscription' = [subscription EXCEPT ![u] = "active"]
  /\ UNCHANGED <<notifying, status, attempts, due, held, sending, delivered, faults>>

Disable(u) ==
  /\ subscription[u] # "none"
  /\ subscription' = [subscription EXCEPT ![u] = "disabled"]
  /\ UNCHANGED <<notifying, status, attempts, due, held, sending, delivered, faults>>

\* The handler of a business operation looks up who to tell.  The same event
\* comes again when a client repeats its request.
ListSubscriptions(n, event, users) ==
  /\ notifying[n] = {}
  /\ notifying' = [notifying EXCEPT ![n] =
       {event} \X {u \in users : subscription[u] = "active"}]
  /\ UNCHANGED <<subscription, status, attempts, due, held, sending, delivered, faults>>

\* INSERT ... ON CONFLICT (dedupe_key) DO NOTHING
Enqueue(k) ==
  IF status[k] = "absent"
  THEN /\ status' = [status EXCEPT ![k] = "pending"]
       /\ due' = due \cup {k}
       /\ UNCHANGED attempts
  ELSE UNCHANGED <<status, due, attempts>>

\* Every login from a verified private chat enqueues the welcome message.
NotifyWelcome(u) ==
  /\ Enqueue(<<"welcome", u>>)
  /\ UNCHANGED <<subscription, notifying, held, sending, delivered, faults>>

EnqueueNotification(n, k) ==
  /\ k \in notifying[n]
  /\ Enqueue(k)
  /\ notifying' = [notifying EXCEPT ![n] = @ \ {k}]
  /\ UNCHANGED <<subscription, held, sending, delivered, faults>>

\* An insert that fails is ignored: the business operation has succeeded.
EnqueueFails(n, k) ==
  /\ k \in notifying[n]
  /\ notifying' = [notifying EXCEPT ![n] = @ \ {k}]
  /\ UNCHANGED <<subscription, status, attempts, due, held, sending, delivered, faults>>

-----------------------------------------------------------------------------
(* The worker *)

\* Variants: rows whose lease has run out are claimed again, as updates are;
\* a row that was tried is not.
ClaimableHeld(k) == status[k] \in {"pending", "processing"} /\ k \in due
ClaimableNew(k)  == status[k] = "pending" /\ k \in due /\ attempts[k] = 0

Claimable(k) == status[k] = "pending" /\ k \in due

\* One statement picks the first due rows, up to the limit, and leases them.
\* The lease is written to next_attempt_at and may run out (Tick).
Lease(batch) ==
  LET ready == {k \in Keys : Claimable(k)}
  IN  /\ batch \subseteq ready /\ batch # {}
      /\ Cardinality(batch) = BatchSize \/ batch = ready
      /\ Cardinality(batch) =< BatchSize
      /\ status' = [k \in Keys |-> IF k \in batch THEN "processing" ELSE status[k]]
      /\ attempts' = [k \in Keys |-> attempts[k] + (IF k \in batch THEN 1 ELSE 0)]
      /\ due' = due \ batch

IdleWorker(w) == held[w] = {} /\ sending[w] = {}

ClaimNotifications(w, batch) ==
  /\ IdleWorker(w)
  /\ Lease(batch)
  /\ held' = [held EXCEPT ![w] = {<<k, attempts'[k]>> : k \in batch}]
  /\ UNCHANGED <<subscription, notifying, sending, delivered, faults>>

\* The statement commits and its rows do not reach the worker.
ClaimFails(w, batch) ==
  /\ IdleWorker(w)
  /\ Lease(batch)
  /\ Fault
  /\ UNCHANGED <<subscription, notifying, held, sending, delivered>>

Send(w, k, n) ==
  /\ <<k, n>> \in held[w] /\ sending[w] = {}
  /\ delivered' = [delivered EXCEPT ![k] = @ + 1]
  /\ held' = [held EXCEPT ![w] = @ \ {<<k, n>>}]
  /\ sending' = [sending EXCEPT ![w] = {<<k, n, "ok">>}]
  /\ UNCHANGED <<subscription, notifying, status, attempts, due, faults>>

\* MAX refuses the message, or the answer that it has it is lost.
SendFails(w, k, n) ==
  /\ <<k, n>> \in held[w] /\ sending[w] = {}
  /\ \E got \in {0, 1} : delivered' = [delivered EXCEPT ![k] = @ + got]
  /\ held' = [held EXCEPT ![w] = @ \ {<<k, n>>}]
  /\ sending' = [sending EXCEPT ![w] = {<<k, n, "error">>}]
  /\ UNCHANGED <<subscription, notifying, status, attempts, due, faults>>

\* Variant: the first failure is terminal.
OutcomeGiveUpEarly(k, n, result) ==
  IF status[k] # "processing" THEN status[k]
  ELSE IF result = "ok" THEN "sent" ELSE "failed"

\* CompleteNotification and FailNotification: WHERE id AND status = 'processing'.
Outcome(k, n, result) ==
  IF status[k] # "processing" THEN status[k]
  ELSE IF result = "ok" THEN "sent"
  ELSE IF n >= MaxAttempts THEN "failed" ELSE "pending"

Record(w) ==
  /\ \E o \in sending[w] :
       /\ status' = [status EXCEPT ![o[1]] = Outcome(o[1], o[2], o[3])]
       /\ due' = due \ {o[1]}
  /\ sending' = [sending EXCEPT ![w] = {}]
  /\ UNCHANGED <<subscription, notifying, attempts, held, delivered, faults>>

\* The statement fails; the worker logs the error and goes on with the batch.
RecordFails(w) ==
  /\ sending[w] # {}
  /\ Fault
  /\ sending' = [sending EXCEPT ![w] = {}]
  /\ UNCHANGED <<subscription, notifying, status, attempts, due, held, delivered>>

\* The context ends or the process dies; the worker is started again.
Stop(w) ==
  /\ ~IdleWorker(w)
  /\ Fault
  /\ held' = [held EXCEPT ![w] = {}]
  /\ sending' = [sending EXCEPT ![w] = {}]
  /\ UNCHANGED <<subscription, notifying, status, attempts, due, delivered>>

\* next_attempt_at comes: the end of a backoff or of a lease.
Tick(k) ==
  /\ status[k] \in {"pending", "processing"} /\ k \notin due
  /\ due' = due \cup {k}
  /\ UNCHANGED <<subscription, notifying, status, attempts, held, sending, delivered, faults>>

WorkerStep(w) ==
  \/ \E batch \in SUBSET Keys : ClaimNotifications(w, batch)
  \/ \E k \in Keys : \E n \in 1 .. attempts[k] : Send(w, k, n)
  \/ \E k \in Keys : \E n \in 1 .. attempts[k] : SendFails(w, k, n)
  \/ Record(w)

WorkerFault(w) ==
  \/ \E batch \in SUBSET Keys : ClaimFails(w, batch)
  \/ RecordFails(w)
  \/ Stop(w)

OutboxNext ==
  \/ \E u \in Users : Subscribe(u) \/ Disable(u) \/ NotifyWelcome(u)
  \/ \E n \in Notifiers :
       \/ \E event \in Events, users \in SUBSET Users : ListSubscriptions(n, event, users)
       \/ \E k \in Keys : EnqueueNotification(n, k) \/ EnqueueFails(n, k)
  \/ \E w \in Workers : WorkerStep(w) \/ WorkerFault(w)
  \/ \E k \in Keys : Tick(k)

OutboxSpec == OutboxInit /\ [][OutboxNext]_outboxVars

\* A worker's loop runs on (a claim every second, then the batch) and time
\* passes.  Nothing makes a user or a business operation act.
FairOutboxSpec ==
  /\ OutboxSpec
  /\ \A w \in Workers : WF_outboxVars(WorkerStep(w))
  /\ \A k \in Keys : WF_outboxVars(Tick(k))

-----------------------------------------------------------------------------
(* Properties *)

InHand(w) == {p[1] : p \in held[w]} \cup {o[1] : o \in sending[w]}

\* A row that a worker has in hand is its alone and is 'processing': only that
\* makes it safe that CompleteNotification and FailNotification check no owner
\* (store.go 377-401), although the lease of a slow batch may have run out.
HeldByOne ==
  \A w \in Workers : \A k \in InHand(w) :
    /\ status[k] = "processing"
    /\ \A v \in Workers \ {w} : k \notin InHand(v)

\* A message that counts as sent has reached MAX, MAX never gets more copies of
\* it than there were attempts, and only a row that was tried MaxAttempts times
\* is given up.
TriesExplainOutcome ==
  \A k \in Keys :
    /\ status[k] = "sent" => delivered[k] > 0
    /\ delivered[k] =< attempts[k]
    /\ status[k] = "failed" => attempts[k] = MaxAttempts

\* A row is never enqueued, claimed or retried again once it is sent or failed,
\* however often the event is notified.
OutcomeForGood ==
  [][\A k \in Keys :
       /\ status[k] \in {"sent", "failed"} => status'[k] = status[k]
       /\ status[k] # "absent" => status'[k] # "absent"
       /\ attempts[k] =< attempts'[k]]_outboxVars

\* As long as no worker is stopped and PostgreSQL answers, every notification is
\* sent or, after MaxAttempts refusals, given up.
EventuallySettled ==
  \A k \in Keys :
    status[k] = "pending" ~> status[k] \in {"sent", "failed"} \/ faults > 0

\* The package says it "delivers durable MAX chat notifications" (worker.go 1)
\* and ClaimNotifications that it "leases" them (store.go 338): a worker that
\* stops must not keep a notification for ever.
DurableDelivery ==
  \A k \in Keys : status[k] = "processing" ~> status[k] # "processing"
===============================================================================
