----------------------- MODULE NotificationOutboxProofs -----------------------
(***************************************************************************)
(* The safety of NotificationOutbox for any users, events, notifiers,      *)
(* workers, batch size and bounds.                                         *)
(*                                                                         *)
(* HeldByOne is not inductive: it does not say that the attempts a worker  *)
(* remembers are those of the row.  Without that a worker could put a row  *)
(* back to 'pending' that has no attempt left.  OutboxInv adds it.         *)
(***************************************************************************)
EXTENDS NotificationOutbox, FiniteSetTheorems, TLAPS

\* What a worker has not sent yet: its attempt is counted and not yet made.
HeldFresh ==
  \A w \in Workers : \A p \in held[w] :
    /\ status[p[1]] = "processing"
    /\ p[2] = attempts[p[1]]
    /\ delivered[p[1]] < attempts[p[1]]

\* What a worker has sent and not recorded.
SentFresh ==
  \A w \in Workers : \A o \in sending[w] :
    /\ status[o[1]] = "processing"
    /\ o[2] = attempts[o[1]]
    /\ o[3] = "ok" => delivered[o[1]] > 0

\* No row is in two hands, or twice in one.
Apart ==
  \A w, v \in Workers :
    /\ \A p \in held[w], o \in sending[v] : p[1] # o[1]
    /\ w # v => /\ \A p \in held[w], q \in held[v] : p[1] # q[1]
                /\ \A o \in sending[w], q \in sending[v] : o[1] # q[1]

\* A row that can be claimed has an attempt left.
AttemptLeft ==
  \A k \in Keys : status[k] \in {"absent", "pending"} => attempts[k] < MaxAttempts

OutboxInv ==
  /\ OutboxTypeOK
  /\ HeldFresh /\ SentFresh /\ Apart /\ AttemptLeft
  /\ TriesExplainOutcome

LEMMA InvInit == OutboxInit => OutboxInv
<1> SUFFICES ASSUME OutboxInit PROVE OutboxInv
  OBVIOUS
<1>1. OutboxTypeOK
  BY OutboxAssumption, FS_EmptySet DEF OutboxInit, OutboxTypeOK
<1>2. HeldFresh /\ SentFresh /\ Apart
  BY DEF OutboxInit, HeldFresh, SentFresh, Apart
<1>3. AttemptLeft /\ TriesExplainOutcome
  BY OutboxAssumption DEF OutboxInit, AttemptLeft, TriesExplainOutcome
<1> QED
  BY <1>1, <1>2, <1>3 DEF OutboxInv

-----------------------------------------------------------------------------
(* Each kind of step *)

\* What the invariant says, part by part, of everything but `notifying` and
\* `subscription`, which no part relates to anything else.
QueueTypes ==
  /\ status \in [Keys -> {"absent", "pending", "processing", "sent", "failed"}]
  /\ attempts \in [Keys -> 0 .. MaxAttempts]
  /\ due \in SUBSET Keys
  /\ held \in [Workers -> SUBSET (Keys \X Nat)]
  /\ sending \in [Workers -> SUBSET (Keys \X Nat \X {"ok", "error"})]
  /\ \A w \in Workers : Cardinality(sending[w]) =< 1
  /\ delivered \in [Keys -> Nat]
  /\ faults \in 0 .. MaxFaults

QueueInv ==
  QueueTypes /\ HeldFresh /\ SentFresh /\ Apart /\ AttemptLeft /\ TriesExplainOutcome

LEMMA QueueFromInv == OutboxInv => QueueInv
BY DEF OutboxInv, OutboxTypeOK, QueueInv, QueueTypes

\* Enqueuing touches no row that is in a hand.
LEMMA EnqueueStep ==
  ASSUME QueueInv, NEW k \in Keys, Enqueue(k), UNCHANGED <<held, sending, delivered, faults>>
  PROVE  QueueInv'
<1> USE OutboxAssumption DEF QueueInv, QueueTypes, Enqueue
<1>1. QueueTypes'
  OBVIOUS
<1>2. HeldFresh'
  BY DEF HeldFresh
<1>3. SentFresh'
  BY DEF SentFresh
<1>4. Apart'
  BY DEF Apart
<1>5. AttemptLeft'
  BY DEF AttemptLeft
<1>6. TriesExplainOutcome'
  BY DEF TriesExplainOutcome
<1> QED
  BY <1>1, <1>2, <1>3, <1>4, <1>5, <1>6

\* A lease takes pending rows, which no worker has in hand, and every row it
\* takes has an attempt left.
LEMMA LeaseStep ==
  ASSUME QueueInv, NEW batch \in SUBSET Keys, Lease(batch)
  PROVE  /\ status' \in [Keys -> {"absent", "pending", "processing", "sent", "failed"}]
         /\ attempts' \in [Keys -> 0 .. MaxAttempts]
         /\ due' \in SUBSET Keys
         /\ AttemptLeft'
         /\ \A k \in batch : /\ status[k] = "pending" /\ status'[k] = "processing"
                             /\ attempts'[k] = attempts[k] + 1
         /\ \A k \in Keys \ batch : status'[k] = status[k] /\ attempts'[k] = attempts[k]
<1> USE OutboxAssumption DEF QueueInv, QueueTypes, Lease, Claimable
<1>1. \A k \in batch : status[k] = "pending" /\ attempts[k] < MaxAttempts
  BY DEF AttemptLeft
<1>2. \A k \in batch : status'[k] = "processing" /\ attempts'[k] = attempts[k] + 1
  OBVIOUS
<1>3. \A k \in Keys \ batch : status'[k] = status[k] /\ attempts'[k] = attempts[k]
  OBVIOUS
<1>4. /\ status' \in [Keys -> {"absent", "pending", "processing", "sent", "failed"}]
      /\ attempts' \in [Keys -> 0 .. MaxAttempts]
  BY <1>1
<1>5. AttemptLeft'
  BY <1>2, <1>3 DEF AttemptLeft
<1> QED
  BY <1>1, <1>2, <1>3, <1>4, <1>5

LEMMA ClaimStep ==
  ASSUME QueueInv, NEW w \in Workers, NEW batch \in SUBSET Keys, ClaimNotifications(w, batch)
  PROVE  QueueInv'
<1> USE DEF QueueInv
<1>1. /\ Lease(batch) /\ held[w] = {} /\ sending[w] = {}
      /\ held' = [held EXCEPT ![w] = {<<k, attempts'[k]>> : k \in batch}]
      /\ UNCHANGED <<sending, delivered, faults>>
  BY DEF ClaimNotifications, IdleWorker
<1>2. /\ \A k \in batch : /\ status[k] = "pending" /\ status'[k] = "processing"
                          /\ attempts'[k] = attempts[k] + 1
      /\ \A k \in Keys \ batch : status'[k] = status[k] /\ attempts'[k] = attempts[k]
      /\ attempts' \in [Keys -> 0 .. MaxAttempts] /\ AttemptLeft'
      /\ status' \in [Keys -> {"absent", "pending", "processing", "sent", "failed"}]
      /\ due' \in SUBSET Keys
  BY <1>1, LeaseStep
<1>3. /\ held'[w] = {<<k, attempts'[k]>> : k \in batch}
      /\ \A v \in Workers \ {w} : held'[v] = held[v]
  BY <1>1 DEF QueueTypes
<1>4. \A p \in held'[w] : p[1] \in batch /\ p[2] = attempts'[p[1]] /\ p \in Keys \X Nat
  BY <1>2, <1>3
<1>5. QueueTypes'
  BY <1>1, <1>2, <1>3, <1>4 DEF QueueTypes
<1>6. \A v \in Workers : /\ \A p \in held[v] : p[1] \in Keys \ batch
                         /\ \A o \in sending[v] : o[1] \in Keys \ batch
  BY <1>2 DEF QueueTypes, HeldFresh, SentFresh
<1>7. HeldFresh'
  <2> SUFFICES ASSUME NEW v \in Workers, NEW p \in held'[v]
               PROVE  /\ status'[p[1]] = "processing" /\ p[2] = attempts'[p[1]]
                      /\ delivered[p[1]] < attempts'[p[1]]
    BY <1>1 DEF HeldFresh
  <2>1. CASE v = w
    BY <2>1, <1>2, <1>4, OutboxAssumption DEF TriesExplainOutcome, QueueTypes
  <2>2. CASE v # w
    BY <2>2, <1>2, <1>3, <1>6 DEF HeldFresh
  <2> QED
    BY <2>1, <2>2
<1>8. SentFresh'
  BY <1>1, <1>2, <1>6 DEF SentFresh
<1>9. Apart'
  BY <1>1, <1>3, <1>4, <1>6 DEF Apart
<1>10. TriesExplainOutcome'
  BY <1>1, <1>2, OutboxAssumption DEF TriesExplainOutcome, QueueTypes
<1> QED
  BY <1>2, <1>5, <1>7, <1>8, <1>9, <1>10

LEMMA ClaimFailsStep ==
  ASSUME QueueInv, NEW w \in Workers, NEW batch \in SUBSET Keys, ClaimFails(w, batch)
  PROVE  QueueInv'
<1> USE DEF QueueInv
<1>1. /\ Lease(batch) /\ faults' \in 0 .. MaxFaults
      /\ UNCHANGED <<held, sending, delivered>>
  BY OutboxAssumption DEF ClaimFails, Fault, QueueTypes
<1>2. /\ \A k \in batch : /\ status[k] = "pending" /\ status'[k] = "processing"
                          /\ attempts'[k] = attempts[k] + 1
      /\ \A k \in Keys \ batch : status'[k] = status[k] /\ attempts'[k] = attempts[k]
      /\ attempts' \in [Keys -> 0 .. MaxAttempts] /\ AttemptLeft'
      /\ status' \in [Keys -> {"absent", "pending", "processing", "sent", "failed"}]
      /\ due' \in SUBSET Keys
  BY <1>1, LeaseStep
<1>3. \A v \in Workers : /\ \A p \in held[v] : p[1] \in Keys \ batch
                         /\ \A o \in sending[v] : o[1] \in Keys \ batch
  BY <1>2 DEF QueueTypes, HeldFresh, SentFresh
<1>4. QueueTypes'
  BY <1>1, <1>2 DEF QueueTypes
<1>5. HeldFresh' /\ SentFresh'
  BY <1>1, <1>2, <1>3 DEF HeldFresh, SentFresh
<1>6. Apart'
  BY <1>1 DEF Apart
<1>7. TriesExplainOutcome'
  BY <1>1, <1>2, OutboxAssumption DEF TriesExplainOutcome, QueueTypes
<1> QED
  BY <1>2, <1>4, <1>5, <1>6, <1>7

\* A send, whatever MAX answers, and whether MAX has got the message or not.
LEMMA SentStep ==
  ASSUME QueueInv, NEW w \in Workers, NEW k \in Keys, NEW n \in Nat,
         NEW got \in {0, 1}, NEW answer \in {"ok", "error"},
         answer = "ok" => got = 1,
         <<k, n>> \in held[w], sending[w] = {},
         delivered' = [delivered EXCEPT ![k] = @ + got],
         held' = [held EXCEPT ![w] = @ \ {<<k, n>>}],
         sending' = [sending EXCEPT ![w] = {<<k, n, answer>>}],
         UNCHANGED <<status, attempts, due, faults>>
  PROVE  QueueInv'
<1> USE DEF QueueInv
<1>1. /\ status[k] = "processing" /\ n = attempts[k] /\ delivered[k] < attempts[k]
  BY DEF HeldFresh
<1>2. /\ held'[w] = held[w] \ {<<k, n>>}
      /\ \A v \in Workers \ {w} : held'[v] = held[v]
      /\ sending'[w] = {<<k, n, answer>>}
      /\ \A v \in Workers \ {w} : sending'[v] = sending[v]
  BY DEF QueueTypes
<1>3. \A p \in held'[w] : p[1] # k
  BY <1>1, <1>2 DEF HeldFresh, QueueTypes
<1>4. \A v \in Workers \ {w} : /\ \A p \in held[v] : p[1] # k
                               /\ \A o \in sending[v] : o[1] # k
  BY DEF Apart
<1>5. /\ delivered' \in [Keys -> Nat] /\ delivered'[k] = delivered[k] + got
      /\ \A j \in Keys \ {k} : delivered'[j] = delivered[j]
  BY DEF QueueTypes
<1>6. QueueTypes'
  <2>1. Cardinality({<<k, n, answer>>}) = 1
    BY FS_Singleton
  <2>2. \A v \in Workers : Cardinality(sending'[v]) =< 1
    BY <2>1, <1>2 DEF QueueTypes
  <2>3. sending' \in [Workers -> SUBSET (Keys \X Nat \X {"ok", "error"})]
    BY DEF QueueTypes
  <2>4. held' \in [Workers -> SUBSET (Keys \X Nat)]
    BY DEF QueueTypes
  <2> QED
    BY <2>2, <2>3, <2>4, <1>5 DEF QueueTypes
<1>7. HeldFresh'
  BY <1>2, <1>3, <1>4, <1>5 DEF HeldFresh, QueueTypes
<1>8. SentFresh'
  BY <1>1, <1>2, <1>4, <1>5 DEF SentFresh, QueueTypes
<1>9. Apart'
  <2>1. \A v \in Workers : held'[v] \subseteq held[v]
    BY <1>2
  <2>2. \A v \in Workers : \A o \in sending'[v] :
          \/ v = w /\ o[1] = k
          \/ v # w /\ o \in sending[v] /\ o[1] # k
    BY <1>2, <1>4
  <2>3. \A v \in Workers : \A p \in held'[v] : p[1] # k
    BY <1>2, <1>3, <1>4
  <2> QED
    BY <2>1, <2>2, <2>3 DEF Apart
<1>10. AttemptLeft'
  BY DEF AttemptLeft
<1>11. TriesExplainOutcome'
  BY <1>1, <1>5, OutboxAssumption DEF TriesExplainOutcome, QueueTypes
<1> QED
  BY <1>6, <1>7, <1>8, <1>9, <1>10, <1>11

\* An outcome makes a row terminal, or puts it back with an attempt left.
LEMMA RecordStep ==
  ASSUME QueueInv, NEW w \in Workers, Record(w)
  PROVE  QueueInv'
<1> USE DEF QueueInv
<1>1. PICK o \in sending[w] : /\ status' = [status EXCEPT ![o[1]] = Outcome(o[1], o[2], o[3])]
                              /\ due' = due \ {o[1]}
  BY DEF Record
<1>2. /\ sending' = [sending EXCEPT ![w] = {}]
      /\ UNCHANGED <<attempts, held, delivered, faults>>
  BY DEF Record
<1>3. /\ o[1] \in Keys /\ o[3] \in {"ok", "error"}
      /\ status[o[1]] = "processing" /\ o[2] = attempts[o[1]]
      /\ o[3] = "ok" => delivered[o[1]] > 0
  BY DEF SentFresh, QueueTypes
<1>4. status'[o[1]] = IF o[3] = "ok" THEN "sent"
                      ELSE IF attempts[o[1]] >= MaxAttempts THEN "failed" ELSE "pending"
  BY <1>1, <1>3 DEF Outcome, QueueTypes
<1>5. /\ \A j \in Keys \ {o[1]} : status'[j] = status[j]
      /\ status' \in [Keys -> {"absent", "pending", "processing", "sent", "failed"}]
  BY <1>1, <1>3, <1>4 DEF QueueTypes
<1>6. /\ \A v \in Workers \ {w} : sending'[v] = sending[v]
      /\ sending'[w] = {}
  BY <1>2 DEF QueueTypes
<1>7. QueueTypes'
  <2>1. Cardinality({}) = 0
    BY FS_EmptySet
  <2>2. \A v \in Workers : sending'[v] = {} \/ sending'[v] = sending[v]
    BY <1>6
  <2>3. \A v \in Workers : Cardinality(sending[v]) =< 1
    BY DEF QueueTypes
  <2>4. \A v \in Workers : Cardinality(sending'[v]) =< 1
    BY <2>1, <2>2, <2>3
  <2>5. sending' \in [Workers -> SUBSET (Keys \X Nat \X {"ok", "error"})]
    BY <1>2 DEF QueueTypes
  <2> QED
    BY <2>4, <2>5, <1>1, <1>2, <1>5 DEF QueueTypes
<1>8. HeldFresh'
  <2>1. \A v \in Workers : \A p \in held[v] : p[1] \in Keys /\ p[1] # o[1]
    BY DEF Apart, QueueTypes
  <2> QED
    BY <2>1, <1>2, <1>5 DEF HeldFresh
<1>9. SentFresh'
  <2>1. \A v \in Workers \ {w} : \A q \in sending[v] : q[1] \in Keys /\ q[1] # o[1]
    BY DEF Apart, QueueTypes
  <2> QED
    BY <2>1, <1>2, <1>5, <1>6 DEF SentFresh
<1>10. Apart'
  BY <1>2, <1>6 DEF Apart
<1>11. AttemptLeft'
  BY <1>2, <1>3, <1>4, <1>5, OutboxAssumption DEF AttemptLeft, QueueTypes
<1>12. TriesExplainOutcome'
  BY <1>2, <1>3, <1>4, <1>5, OutboxAssumption DEF TriesExplainOutcome, QueueTypes
<1> QED
  BY <1>7, <1>8, <1>9, <1>10, <1>11, <1>12

\* A worker that forgets what it has in hand disturbs nothing.
LEMMA ForgetStep ==
  ASSUME QueueInv, NEW w \in Workers,
         \A v \in Workers : held'[v] \subseteq held[v] /\ sending'[v] \in {sending[v], {}},
         held' \in [Workers -> SUBSET (Keys \X Nat)],
         sending' \in [Workers -> SUBSET (Keys \X Nat \X {"ok", "error"})],
         faults' \in 0 .. MaxFaults,
         UNCHANGED <<status, attempts, due, delivered>>
  PROVE  QueueInv'
<1> USE DEF QueueInv
<1>1. QueueTypes'
  <2>1. Cardinality({}) = 0
    BY FS_EmptySet
  <2>2. \A v \in Workers : Cardinality(sending[v]) =< 1
    BY DEF QueueTypes
  <2>3. \A v \in Workers : Cardinality(sending'[v]) =< 1
    BY <2>1, <2>2
  <2> QED
    BY <2>3 DEF QueueTypes
<1>2. \A v \in Workers : /\ \A p \in held'[v] : p \in held[v]
                         /\ \A o \in sending'[v] : o \in sending[v]
  OBVIOUS
<1>3. HeldFresh' /\ SentFresh'
  BY <1>2 DEF HeldFresh, SentFresh
<1>4. Apart'
  BY <1>2 DEF Apart
<1>5. AttemptLeft' /\ TriesExplainOutcome'
  BY DEF AttemptLeft, TriesExplainOutcome
<1> QED
  BY <1>1, <1>3, <1>4, <1>5

LEMMA TickStep ==
  ASSUME QueueInv, NEW k \in Keys, Tick(k)
  PROVE  QueueInv'
BY DEF QueueInv, QueueTypes, Tick, HeldFresh, SentFresh, Apart, AttemptLeft, TriesExplainOutcome

\* Steps that leave the queue alone.
LEMMA QueueUnchanged ==
  ASSUME QueueInv, UNCHANGED <<status, attempts, due, held, sending, delivered, faults>>
  PROVE  QueueInv'
BY DEF QueueInv, QueueTypes, HeldFresh, SentFresh, Apart, AttemptLeft, TriesExplainOutcome

-----------------------------------------------------------------------------
(* The invariant *)

LEMMA QueuePreserved ==
  ASSUME QueueInv, [OutboxNext]_outboxVars
  PROVE  QueueInv'
<1>1. ASSUME NEW u \in Users, Subscribe(u) \/ Disable(u) PROVE QueueInv'
  BY <1>1, QueueUnchanged DEF Subscribe, Disable
<1>2. ASSUME NEW u \in Users, NotifyWelcome(u) PROVE QueueInv'
  <2>1. <<"welcome", u>> \in Keys
    BY DEF Keys
  <2> QED
    BY <1>2, <2>1, EnqueueStep DEF NotifyWelcome
<1>3. ASSUME NEW n \in Notifiers, NEW event \in Events, NEW users \in SUBSET Users,
             ListSubscriptions(n, event, users)
      PROVE  QueueInv'
  BY <1>3, QueueUnchanged DEF ListSubscriptions
<1>4. ASSUME NEW n \in Notifiers, NEW k \in Keys, EnqueueNotification(n, k) PROVE QueueInv'
  BY <1>4, EnqueueStep DEF EnqueueNotification
<1>5. ASSUME NEW n \in Notifiers, NEW k \in Keys, EnqueueFails(n, k) PROVE QueueInv'
  BY <1>5, QueueUnchanged DEF EnqueueFails
<1>6. ASSUME NEW w \in Workers, NEW batch \in SUBSET Keys,
             ClaimNotifications(w, batch) \/ ClaimFails(w, batch)
      PROVE  QueueInv'
  BY <1>6, ClaimStep, ClaimFailsStep
<1>7. ASSUME NEW w \in Workers, NEW k \in Keys, NEW n \in 1 .. attempts[k], Send(w, k, n)
      PROVE  QueueInv'
  <2>1. n \in Nat
    BY DEF QueueInv, QueueTypes
  <2> QED
    BY <1>7, <2>1, SentStep DEF Send
<1>8. ASSUME NEW w \in Workers, NEW k \in Keys, NEW n \in 1 .. attempts[k], SendFails(w, k, n)
      PROVE  QueueInv'
  <2>1. n \in Nat
    BY DEF QueueInv, QueueTypes
  <2> QED
    BY <1>8, <2>1, SentStep DEF SendFails
<1>9. ASSUME NEW w \in Workers, Record(w) PROVE QueueInv'
  BY <1>9, RecordStep
<1>10. ASSUME NEW w \in Workers, RecordFails(w) \/ Stop(w) PROVE QueueInv'
  <2>1. /\ faults' \in 0 .. MaxFaults
        /\ UNCHANGED <<status, attempts, due, delivered>>
    BY <1>10, OutboxAssumption DEF RecordFails, Stop, Fault, QueueInv, QueueTypes
  <2>2. /\ held' \in [Workers -> SUBSET (Keys \X Nat)]
        /\ sending' \in [Workers -> SUBSET (Keys \X Nat \X {"ok", "error"})]
        /\ \A v \in Workers : held'[v] \subseteq held[v] /\ sending'[v] \in {sending[v], {}}
    BY <1>10 DEF RecordFails, Stop, QueueInv, QueueTypes
  <2> QED
    BY <2>1, <2>2, ForgetStep
<1>11. ASSUME NEW k \in Keys, Tick(k) PROVE QueueInv'
  BY <1>11, TickStep
<1>12. CASE UNCHANGED outboxVars
  BY <1>12, QueueUnchanged DEF outboxVars
<1> QED
  BY <1>1, <1>2, <1>3, <1>4, <1>5, <1>6, <1>7, <1>8, <1>9, <1>10, <1>11, <1>12
  DEF OutboxNext, WorkerStep, WorkerFault

\* The rest of the type invariant.
LEMMA CallersPreserved ==
  ASSUME OutboxTypeOK, [OutboxNext]_outboxVars
  PROVE  /\ subscription' \in [Users -> {"none", "active", "disabled"}]
         /\ notifying' \in [Notifiers -> SUBSET Keys]
<1> USE DEF OutboxTypeOK
<1>1. ASSUME NEW n \in Notifiers, NEW event \in Events, NEW users \in SUBSET Users,
             ListSubscriptions(n, event, users)
      PROVE  notifying' \in [Notifiers -> SUBSET Keys]
  <2>1. {event} \X {u \in users : subscription[u] = "active"} \in SUBSET Keys
    BY DEF Keys
  <2> QED
    BY <1>1, <2>1 DEF ListSubscriptions
<1> QED
  BY <1>1 DEF OutboxNext, outboxVars, WorkerStep, WorkerFault, Subscribe, Disable, NotifyWelcome,
    ListSubscriptions, EnqueueNotification, EnqueueFails, ClaimNotifications, ClaimFails, Send,
    SendFails, Record, RecordFails, Stop, Tick

THEOREM OutboxInvariant == OutboxSpec => []OutboxInv
<1>1. ASSUME OutboxInv, [OutboxNext]_outboxVars PROVE OutboxInv'
  BY <1>1, QueueFromInv, QueuePreserved, CallersPreserved
  DEF OutboxInv, OutboxTypeOK, QueueInv, QueueTypes
<1> QED
  BY InvInit, <1>1, PTL DEF OutboxSpec

\* The tables and the workers keep their types.
THEOREM OutboxTypeCorrect == OutboxSpec => []OutboxTypeOK
BY OutboxInvariant, PTL DEF OutboxInv

\* No notification is in two hands, however leases run out, workers stop and
\* statements are lost: the reason why finishing it needs no owner check.
THEOREM HeldByOneAlways == OutboxSpec => []HeldByOne
<1>1. OutboxInv => HeldByOne
  BY DEF OutboxInv, HeldFresh, SentFresh, Apart, HeldByOne, InHand
<1> QED
  BY OutboxInvariant, <1>1, PTL

\* 'sent' means that MAX has got the message, 'failed' that every attempt was
\* used, and MAX never gets more copies than there were attempts.
THEOREM TriesExplainAlways == OutboxSpec => []TriesExplainOutcome
BY OutboxInvariant, PTL DEF OutboxInv

-----------------------------------------------------------------------------
(* Outcomes are final *)

\* What a step may do to one row.
RowKept(k) ==
  /\ status[k] \in {"sent", "failed"} => status'[k] = status[k]
  /\ status[k] # "absent" => status'[k] # "absent"
  /\ attempts[k] =< attempts'[k]

LEMMA RowsKept ==
  ASSUME QueueInv, [OutboxNext]_outboxVars, NEW k \in Keys
  PROVE  RowKept(k)
<1> USE DEF QueueInv, QueueTypes, RowKept
<1>1. ASSUME UNCHANGED <<status, attempts>> PROVE RowKept(k)
  BY <1>1
<1>2. ASSUME NEW j \in Keys, Enqueue(j) PROVE RowKept(k)
  BY <1>2 DEF Enqueue
<1>3. ASSUME NEW batch \in SUBSET Keys, Lease(batch) PROVE RowKept(k)
  <2>1. /\ \A j \in batch : /\ status[j] = "pending" /\ status'[j] = "processing"
                            /\ attempts'[j] = attempts[j] + 1
        /\ \A j \in Keys \ batch : status'[j] = status[j] /\ attempts'[j] = attempts[j]
    BY <1>3, LeaseStep
  <2> QED
    BY <2>1, OutboxAssumption
<1>4. ASSUME NEW w \in Workers, Record(w) PROVE RowKept(k)
  <2>1. PICK o \in sending[w] : status' = [status EXCEPT ![o[1]] = Outcome(o[1], o[2], o[3])]
    BY <1>4 DEF Record
  <2>2. status[o[1]] = "processing" /\ o[1] \in Keys
    BY DEF SentFresh
  <2>3. attempts' = attempts
    BY <1>4 DEF Record
  <2>4. Outcome(o[1], o[2], o[3]) # "absent"
    BY <2>2 DEF Outcome
  <2> QED
    BY <2>1, <2>2, <2>3, <2>4, OutboxAssumption
<1>5. ASSUME NEW u \in Users, NotifyWelcome(u) PROVE RowKept(k)
  <2>1. <<"welcome", u>> \in Keys
    BY DEF Keys
  <2> QED
    BY <1>2, <1>5, <2>1 DEF NotifyWelcome
<1> QED
  BY <1>1, <1>2, <1>3, <1>4, <1>5 DEF OutboxNext, outboxVars, WorkerStep, WorkerFault, Subscribe,
    Disable, ListSubscriptions, EnqueueNotification, EnqueueFails, ClaimNotifications, ClaimFails,
    Send, SendFails, RecordFails, Stop, Tick

\* A row that is sent or given up is never opened again.
THEOREM OutcomesAreFinal == OutboxSpec => OutcomeForGood
<1> DEFINE Kept == \A k \in Keys :
       /\ status[k] \in {"sent", "failed"} => status'[k] = status[k]
       /\ status[k] # "absent" => status'[k] # "absent"
       /\ attempts[k] =< attempts'[k]
<1>1. OutboxInv /\ [OutboxNext]_outboxVars => Kept
  BY QueueFromInv, RowsKept DEF RowKept
<1> QED
  BY <1>1, OutboxInvariant, PTL DEF OutboxSpec, OutcomeForGood

===============================================================================
