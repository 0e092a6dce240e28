------------------------------- MODULE Balances -------------------------------
(***************************************************************************)
(* What a ledger means (src/internal/core/domain/ledger.go): the net       *)
(* amount of every user in every currency, computed from confirmed         *)
(* expenses, confirmed settlements and adjustments.                        *)
(*                                                                         *)
(* A ledger is a record of three sets:                                     *)
(*   expenses    : [id, payer, amount, currency, alloc]                    *)
(*   settlements : [id, sender, receiver, amount, currency]                *)
(*   adjustments : [id, payer, type, amount, currency, alloc]              *)
(* where alloc is a function from the users it names to amounts.           *)
(***************************************************************************)
EXTENDS Integers, FiniteSets, FiniteSetsExt

Of(alloc, u) == IF u \in DOMAIN alloc THEN alloc[u] ELSE 0
When(b, x)   == IF b THEN x ELSE 0

\* What one operation adds to the net amount of u.
ExpenseShare(e, u)    == When(e.payer = u, e.amount) - Of(e.alloc, u)
SettlementShare(s, u) == When(s.sender = u, s.amount) - When(s.receiver = u, s.amount)
Sign(a)               == IF a.type = "refund" THEN -1 ELSE 1
AdjustmentShare(a, u) == Sign(a) * (When(a.payer = u, a.amount) - Of(a.alloc, u))

InCurrency(rows, k) == {r \in rows : r.currency = k}

Net(ledger, u, k) ==
    SumFunction([e \in InCurrency(ledger.expenses, k) |-> ExpenseShare(e, u)])
  + SumFunction([s \in InCurrency(ledger.settlements, k) |-> SettlementShare(s, u)])
  + SumFunction([a \in InCurrency(ledger.adjustments, k) |-> AdjustmentShare(a, u)])

\* The checks CalculateBalances makes on each operation before it counts it.
Allocated(r)   == r.amount > 0 /\ SumFunction(r.alloc) = r.amount
                  /\ \A u \in DOMAIN r.alloc : r.alloc[u] >= 0
Transferred(s) == s.amount > 0 /\ s.sender # s.receiver

WellFormed(ledger) ==
  /\ \A e \in ledger.expenses : Allocated(e)
  /\ \A s \in ledger.settlements : Transferred(s)
  /\ \A a \in ledger.adjustments : Allocated(a)

\* The sum over all users that CalculateBalances requires to be zero.
CurrencyTotal(ledger, users, k) == SumFunction([u \in users |-> Net(ledger, u, k)])

\* CalculateBalances returns balances and not ErrInvalidArgument (amounts
\* within int64; module LedgerArithmetic is about the width).
Computable(ledger, users, currencies) ==
  /\ WellFormed(ledger)
  /\ \A k \in currencies : CurrencyTotal(ledger, users, k) = 0

===============================================================================
