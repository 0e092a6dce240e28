------------------------------ MODULE CoreRecords ------------------------------
(***************************************************************************)
(* What Core promises the services that call it, without requests under    *)
(* way, locks, roles or an audit log: each operation on money is one step  *)
(* that happens whole or not at all.  CoreLedger implements it             *)
(* (ImplementsRecords); the Gateway's handlers rely on it                  *)
(* (GatewayRequests).                                                      *)
(***************************************************************************)
EXTENDS Integers

CONSTANTS
  Users, Groups,
  ExpenseIds, SettlementIds, AdjustmentIds,  \* serial numbers
  ExpenseInputs,     \* what a request says of an expense: group, payer, amount, currency, drafts
  SettlementInputs,  \* of a settlement: group, sender, receiver, amount, currency
  AdjustmentInputs,  \* of an adjustment: type, amount, currency, alloc
  Sum(_)             \* the sum of the values of a function

VARIABLES
  members,      \* members[g]: the members of a group
  archived,     \* the groups that are closed for new money
  expenses,     \* expenses recorded so far
  allocations,  \* who owes which part of each expense
  settlements,  \* settlements recorded so far
  adjustments   \* adjustments recorded so far

records == <<members, archived, expenses, allocations, settlements, adjustments>>

Put(table, id, row) == [n \in DOMAIN table \cup {id} |-> IF n = id THEN row ELSE table[n]]

\* The group takes new money and everybody named belongs to it.
OpenTo(g, users) == g \notin archived /\ users \subseteq members[g]

Init ==
  /\ members = [g \in Groups |-> {}]
  /\ archived = {}
  /\ expenses = << >> /\ allocations = << >>
  /\ settlements = << >> /\ adjustments = << >>

-----------------------------------------------------------------------------
\* Members only join, and none joins an archived group.
Join(g, users) ==
  /\ g \notin archived
  /\ users # {}
  /\ members' = [members EXCEPT ![g] = @ \cup users]
  /\ UNCHANGED <<archived, expenses, allocations, settlements, adjustments>>

Archive(g) ==
  /\ members[g] # {}
  /\ archived' = archived \cup {g}
  /\ UNCHANGED <<members, expenses, allocations, settlements, adjustments>>

CreateExpense(e, actor, input) ==
  /\ e \notin DOMAIN expenses
  /\ OpenTo(input.group, {actor, input.payer} \cup DOMAIN input.drafts)
  /\ Sum(input.drafts) = input.amount
  /\ expenses' = Put(expenses, e,
       [group |-> input.group, payer |-> input.payer, creator |-> actor,
        amount |-> input.amount, currency |-> input.currency,
        status |-> "pending", version |-> 1])
  /\ allocations' = Put(allocations, e, input.drafts)
  /\ UNCHANGED <<members, archived, settlements, adjustments>>

\* Variant: whatever version the caller has seen.
ReplaceablePending(row, version) == row.status = "pending"

\* Only the version the caller names is replaced, and only while it is pending.
Replaceable(row, version) == row.status = "pending" /\ row.version = version

Replaced(row, input) ==
  [row EXCEPT !.payer = input.payer, !.amount = input.amount,
              !.currency = input.currency, !.version = @ + 1]

UpdateExpense(e, actor, version, input) ==
  /\ e \in DOMAIN expenses
  /\ Replaceable(expenses[e], version)
  /\ expenses[e].group = input.group
  /\ OpenTo(input.group, {actor, input.payer} \cup DOMAIN input.drafts)
  /\ Sum(input.drafts) = input.amount
  /\ expenses' = [expenses EXCEPT ![e] = Replaced(@, input)]
  /\ allocations' = [allocations EXCEPT ![e] = input.drafts]
  /\ UNCHANGED <<members, archived, settlements, adjustments>>

Settled(row, target) == [row EXCEPT !.status = target, !.version = @ + 1]

\* Confirming or cancelling, also in an archived group: once and for good.
SetStatus(e, actor, target) ==
  /\ e \in DOMAIN expenses
  /\ actor \in members[expenses[e].group]
  /\ expenses[e].status = "pending"
  /\ expenses' = [expenses EXCEPT ![e] = Settled(@, target)]
  /\ UNCHANGED <<members, archived, allocations, settlements, adjustments>>

Given(e) ==
  Sum([a \in {x \in DOMAIN adjustments :
                        adjustments[x].expense = e /\ adjustments[x].type = "refund"} |->
                 adjustments[a].amount])

\* Only a confirmed expense is adjusted, and refunds give back at most its amount.
CreateAdjustment(a, e, actor, input) ==
  /\ a \notin DOMAIN adjustments
  /\ e \in DOMAIN expenses
  /\ expenses[e].status = "confirmed" /\ expenses[e].currency = input.currency
  /\ OpenTo(expenses[e].group, {actor} \cup DOMAIN input.alloc)
  /\ Sum(input.alloc) = input.amount
  /\ input.type = "refund" => input.amount <= expenses[e].amount - Given(e)
  /\ adjustments' = Put(adjustments, a,
       [group |-> expenses[e].group, expense |-> e, type |-> input.type,
        amount |-> input.amount, currency |-> input.currency, creator |-> actor,
        alloc |-> input.alloc])
  /\ UNCHANGED <<members, archived, expenses, allocations, settlements>>

CreateSettlement(s, input) ==
  /\ s \notin DOMAIN settlements
  /\ input.sender # input.receiver
  /\ OpenTo(input.group, {input.sender, input.receiver})
  /\ settlements' = Put(settlements, s,
       [group |-> input.group, sender |-> input.sender, receiver |-> input.receiver,
        amount |-> input.amount, currency |-> input.currency,
        status |-> "pending", version |-> 1])
  /\ UNCHANGED <<members, archived, expenses, allocations, adjustments>>

ConfirmSettlement(s, actor) ==
  /\ s \in DOMAIN settlements
  /\ settlements[s].receiver = actor /\ settlements[s].status = "pending"
  /\ settlements' = [settlements EXCEPT ![s] = Settled(@, "confirmed")]
  /\ UNCHANGED <<members, archived, expenses, allocations, adjustments>>

-----------------------------------------------------------------------------
Next ==
  \/ \E g \in Groups : (\E users \in SUBSET Users : Join(g, users)) \/ Archive(g)
  \/ \E e \in ExpenseIds, actor \in Users :
       \/ \E input \in ExpenseInputs :
            \/ CreateExpense(e, actor, input)
            \/ UpdateExpense(e, actor, expenses[e].version, input)
       \/ \E target \in {"confirmed", "cancelled"} : SetStatus(e, actor, target)
       \/ \E a \in AdjustmentIds, input \in AdjustmentInputs : CreateAdjustment(a, e, actor, input)
  \/ \E s \in SettlementIds :
       \/ \E input \in SettlementInputs : CreateSettlement(s, input)
       \/ \E actor \in Users : ConfirmSettlement(s, actor)

Spec == Init /\ [][Next]_records

===============================================================================
