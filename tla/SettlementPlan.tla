---------------------------- MODULE SettlementPlan ----------------------------
(***************************************************************************)
(* PlanSettlements (src/internal/core/domain/ledger.go): who should pay    *)
(* whom so that nobody owes anything.  The function is a loop over the     *)
(* currencies and, inside it, a greedy match of the first debtor with the  *)
(* first creditor; one action here is one turn of a loop.                  *)
(*                                                                         *)
(* Integers are those of int64 with MaxInt in place of 2^63 - 1.           *)
(***************************************************************************)
EXTENDS Integers, Sequences, FiniteSets, FiniteSetsExt

CONSTANTS
  Users,        \* user ids
  Currencies,   \* currency codes, numbered by their alphabetical order
  MaxInt        \* the largest integer

VARIABLES
  matching,   \* "wait" for the call, "open" the next currency, "match", or the
              \* result: "done", "refused"
  todo,       \* the currencies left
  currency,   \* the currency being matched
  debtors,    \* its users still in debt, by id: debtors[di:]
  creditors,  \* its users still owed, by id: creditors[ci:]
  net,        \* what is left of NetAmountMinor after the transfers planned so far
  transfers,  \* the plan
  balances    \* the argument

planVars == <<matching, todo, currency, debtors, creditors, net, transfers, balances>>

MinInt == -MaxInt - 1
Ints   == MinInt .. MaxInt
Wrap(x) == ((x - MinInt) % (2 * (MaxInt + 1))) + MinInt

-----------------------------------------------------------------------------

Least(S) == CHOOSE x \in S : \A y \in S : x =< y

\* The elements of a set of ids, sorted.
Increasing(queue) == \A i, j \in DOMAIN queue : i < j => queue[i] < queue[j]
Sorted(S) == CHOOSE queue \in [1 .. Cardinality(S) -> S] : Increasing(queue)

\* The running total of the balances of a currency in the order they come
\* (by user id); it stops at the first sum that is not an integer.
Total(amounts) ==
  LET sum[T \in SUBSET Users] ==
        IF T = {} THEN 0
        ELSE LET u    == CHOOSE x \in T : \A y \in T : y =< x
                 rest == sum[T \ {u}]
             IN  IF rest \notin Ints THEN rest ELSE rest + amounts[u]
  IN  sum[Users]

\* Variant: MinInt gets through.
AcceptsMinInt(amounts) == Total(amounts) = 0

Accepts(amounts) ==
  /\ \A u \in Users : amounts[u] # MinInt
  /\ Total(amounts) = 0

\* Variant: the transfer is the whole debt.
WholeDebt(debt, credit) == debt

\* The amount of one transfer.
Amount(debt, credit) == IF credit < debt THEN credit ELSE debt

PlanInit ==
  /\ matching = "wait"
  /\ balances = [k \in Currencies |-> [u \in Users |-> 0]]
  /\ net = balances
  /\ todo = {}
  /\ currency = 0
  /\ debtors = <<>> /\ creditors = <<>>
  /\ transfers = <<>>

Call(argument) ==
  /\ matching = "wait"
  /\ matching' = "open"
  /\ balances' = argument /\ net' = argument
  /\ todo' = {k \in Currencies : \E u \in Users : argument[k][u] # 0}
  /\ UNCHANGED <<currency, debtors, creditors, transfers>>

Open ==
  /\ matching = "open" /\ todo # {}
  /\ LET k == Least(todo)
     IN  /\ Accepts(balances[k])
         /\ currency' = k
         /\ todo' = todo \ {k}
         /\ debtors' = Sorted({u \in Users : balances[k][u] < 0})
         /\ creditors' = Sorted({u \in Users : balances[k][u] > 0})
  /\ matching' = "match"
  /\ UNCHANGED <<net, transfers, balances>>

Refuse ==
  /\ matching = "open" /\ todo # {}
  /\ ~Accepts(balances[Least(todo)])
  /\ matching' = "refused"
  /\ transfers' = <<>>
  /\ UNCHANGED <<todo, currency, debtors, creditors, net, balances>>

\* Variant: a head that is settled stays.
AdvanceUnsettled(queue, left) == IF left < 0 THEN Tail(queue) ELSE queue

\* The queue after a turn that leaves its head with the given amount.
Advance(queue, left) == IF left = 0 THEN Tail(queue) ELSE queue

Match ==
  /\ matching = "match" /\ debtors # <<>> /\ creditors # <<>>
  /\ LET from     == Head(debtors)
         to       == Head(creditors)
         amount   == Amount(Wrap(-net[currency][from]), net[currency][to])
         fromLeft == Wrap(net[currency][from] + amount)
         toLeft   == Wrap(net[currency][to] - amount)
     IN  /\ transfers' =
              IF amount > 0
              THEN Append(transfers, [from |-> from, to |-> to, amount |-> amount,
                                      currency |-> currency])
              ELSE transfers
         /\ net' = [net EXCEPT ![currency] =
                     [@ EXCEPT ![from] = fromLeft, ![to] = toLeft]]
         /\ debtors' = Advance(debtors, fromLeft)
         /\ creditors' = Advance(creditors, toLeft)
  /\ UNCHANGED <<matching, todo, currency, balances>>

Close ==
  /\ matching = "match" /\ (debtors = <<>> \/ creditors = <<>>)
  /\ matching' = "open"
  /\ UNCHANGED <<todo, currency, debtors, creditors, net, transfers, balances>>

Return ==
  /\ matching = "open" /\ todo = {}
  /\ matching' = "done"
  /\ UNCHANGED <<todo, currency, debtors, creditors, net, transfers, balances>>

PlanNext == Open \/ Refuse \/ Match \/ Close \/ Return

-----------------------------------------------------------------------------
(* Properties *)

Of(k, u) == {i \in 1 .. Len(transfers) :
               transfers[i].currency = k /\ u \in {transfers[i].from, transfers[i].to}}

\* What u has got, less what u has paid, by the transfers with these indices.
Received(u, indices) ==
  SumFunction([i \in indices |-> IF transfers[i].to = u THEN transfers[i].amount
                                                        ELSE -transfers[i].amount])

Payers(k) == {u \in Users : balances[k][u] < 0}
Payees(k) == {u \in Users : balances[k][u] > 0}
InPlan(k) == {i \in 1 .. Len(transfers) : transfers[i].currency = k}

\* The greedy match never needs as many transfers as there are users with a
\* balance: every turn exhausts one of them and the last turn two.
FewTransfers ==
  matching = "done" =>
    \A k \in Currencies :
      InPlan(k) # {} =>
        Cardinality(InPlan(k)) < Cardinality(Payers(k)) + Cardinality(Payees(k))
===============================================================================
