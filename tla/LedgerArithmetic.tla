--------------------------- MODULE LedgerArithmetic ---------------------------
(***************************************************************************)
(* CalculateBalances and CalculateBalanceBreakdown                         *)
(* (src/internal/core/domain/ledger.go) in integers of a fixed width: what *)
(* module Balances says a ledger means, the code computes in int64 and     *)
(* with two loops over a Go map, whose order is arbitrary.                 *)
(*                                                                         *)
(* The argument is the sequence of operations in the order of the three    *)
(* lists of LedgerInput, each a row of Balances with its kind: "expense",  *)
(* "settlement" or "adjustment".  LoadLedger reads confirmed rows only, so *)
(* the tests of Status in the loops are never false here.                  *)
(***************************************************************************)
EXTENDS Balances, Sequences

CONSTANTS
  Users,       \* user ids
  Currencies,  \* currency codes
  MaxInt       \* the largest integer: 2^63 - 1 in the code

VARIABLES
  input,    \* the argument
  counting, \* "count" the operations, add up the "totals", "done" or "refused"
  rest,     \* operations still to count
  values,   \* the map from user and currency to the net amount so far
  left,     \* entries of the map the second loop has not reached
  totals    \* currencyTotals

arithmeticVars == <<input, counting, rest, values, left, totals>>

Ints == -MaxInt - 1 .. MaxInt

ArithmeticInit(ledger) ==
  /\ input = ledger
  /\ counting = "count"
  /\ rest = input
  /\ values = [key \in {} |-> 0]
  /\ left = {}
  /\ totals = [k \in Currencies |-> 0]

Refuse == counting' = "refused" /\ UNCHANGED <<rest, values, left, totals>>

-----------------------------------------------------------------------------

Valid(op) == IF op.kind = "settlement" THEN Transferred(op) ELSE Allocated(op)

\* Variant: a refund counts like a correction.
SignedAlike(op) == 1

Signed(op) == IF op.kind = "adjustment" THEN Sign(op) ELSE 1

\* Whom an operation credits, and then whom it charges.
Credited(op) ==
  [u \in {IF op.kind = "settlement" THEN op.sender ELSE op.payer} |-> Signed(op) * op.amount]
Charged(op) ==
  IF op.kind = "settlement" THEN [u \in {op.receiver} |-> -op.amount]
  ELSE [u \in DOMAIN op.alloc |-> -Signed(op) * op.alloc[u]]

Added(map, changes, k) ==
  [key \in (DOMAIN map) \cup ((DOMAIN changes) \X {k}) |->
     Of(map, key) + (IF key[2] = k THEN Of(changes, key[1]) ELSE 0)]

\* No addition that has led to `map` has overflowed.
Fits(map) == \A key \in DOMAIN map : map[key] \in Ints

CountOperation ==
  /\ counting = "count" /\ rest # <<>>
  /\ LET op       == Head(rest)
         credited == Added(values, Credited(op), op.currency)
         charged  == Added(credited, Charged(op), op.currency)
     IN  IF Valid(op) /\ Fits(credited) /\ Fits(charged)
         THEN values' = charged /\ rest' = Tail(rest) /\ UNCHANGED <<counting, left, totals>>
         ELSE Refuse
  /\ UNCHANGED input

Counted ==
  /\ counting = "count" /\ rest = <<>>
  /\ counting' = "totals"
  /\ left' = DOMAIN values
  /\ UNCHANGED <<input, rest, values, totals>>

\* for k, amount := range values: any entry may be the next.
AddToTotal(key) ==
  /\ counting = "totals" /\ key \in left
  /\ LET total == totals[key[2]] + values[key]
     IN  IF total \in Ints
         THEN totals' = [totals EXCEPT ![key[2]] = total] /\ left' = left \ {key}
              /\ UNCHANGED <<counting, rest, values>>
         ELSE Refuse
  /\ UNCHANGED input

Balanced ==
  /\ counting = "totals" /\ left = {}
  /\ IF \A k \in Currencies : totals[k] = 0
     THEN counting' = "done" /\ UNCHANGED <<rest, values, left, totals>>
     ELSE Refuse
  /\ UNCHANGED input

ArithmeticNext ==
  \/ CountOperation \/ Counted \/ Balanced
  \/ \E key \in Users \X Currencies : AddToTotal(key)

Operations == {input[i] : i \in DOMAIN input}

Entry(type, op, amount) ==
  [type |-> type, id |-> op.id, currency |-> op.currency, amount |-> amount]

\* Variant: the payer of an adjustment gets no entry.
BreakdownNoPayer(u) ==
  {e \in UNION {
        LET credit == Credited(op)
            charge == Charged(op)
        IN  {Entry(<<op.kind, "credit">>, op, credit[v]) :
               v \in IF op.kind = "adjustment" THEN {} ELSE (DOMAIN credit) \cap {u}}
            \cup {Entry(<<op.kind, "charge">>, op, charge[v]) : v \in (DOMAIN charge) \cap {u}}
        : op \in Operations}
    : e.amount # 0}

\* CalculateBalanceBreakdown: the entries of one user; zero amounts are left out.
Breakdown(u) ==
  {e \in UNION {
        LET credit == Credited(op)
            charge == Charged(op)
        IN  {Entry(<<op.kind, "credit">>, op, credit[v]) : v \in (DOMAIN credit) \cap {u}}
            \cup {Entry(<<op.kind, "charge">>, op, charge[v]) : v \in (DOMAIN charge) \cap {u}}
        : op \in Operations}
    : e.amount # 0}

-----------------------------------------------------------------------------
(* Properties *)

Ledger ==
  [expenses    |-> {op \in Operations : op.kind = "expense"},
   settlements |-> {op \in Operations : op.kind = "settlement"},
   adjustments |-> {op \in Operations : op.kind = "adjustment"}]

\* Balances that are returned are the ones the ledger means, not wrapped and
\* with nobody forgotten.
ExactBalances ==
  counting = "done" => \A u \in Users, k \in Currencies : Of(values, <<u, k>>) = Net(Ledger, u, k)

\* A group is never locked out of its balances: CalculateBalances fails for
\* no well-formed ledger whose amounts add up to an integer.  (For larger ones
\* the outcome may depend on the order in which Go walks the map.)
ComputedWhenFits ==
  WellFormed(Ledger) /\ SumFunction([op \in Operations |-> op.amount]) =< MaxInt
    => counting # "refused"

\* The entries of the breakdown of a user add up to the user's balance
\* (ledger_test.go 97).
BreakdownExplains ==
  counting = "done" =>
    \A u \in Users, k \in Currencies :
      SumFunction([e \in InCurrency(Breakdown(u), k) |-> e.amount]) = Of(values, <<u, k>>)
===============================================================================
