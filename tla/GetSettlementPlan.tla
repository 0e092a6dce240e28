-------------------------- MODULE GetSettlementPlan --------------------------
(***************************************************************************)
(* Ledger.GetSettlementPlan (src/internal/core/usecase/ledger.go): the     *)
(* balances of a loaded ledger (LedgerArithmetic), handed over to the      *)
(* greedy match (SettlementPlan).  Neither part checks what the other      *)
(* takes for granted, so what the plan is worth shows only here: whether   *)
(* paying it settles the LEDGER.                                           *)
(***************************************************************************)
EXTENDS Balances, Sequences, FiniteSets

CONSTANTS
  Users,        \* user ids
  Currencies,   \* currency codes, numbered by their alphabetical order
  MaxInt        \* the largest integer

ASSUME PlanAssumption ==
  /\ Users \subseteq Nat /\ IsFiniteSet(Users)
  /\ Currencies \subseteq Nat /\ IsFiniteSet(Currencies)
  /\ MaxInt \in Nat

VARIABLES
  input, counting, rest, values, left, totals,     \* LedgerArithmetic
  matching, todo, currency, debtors, creditors,    \* SettlementPlan; matching = "wait"
  net, transfers, balances                         \* until it is called

\* What LoadLedger returns: rows of known users and currencies, whose amounts nobody
\* has checked yet, each id once in its table.
IsRow(op) ==
  /\ op.kind \in {"expense", "settlement", "adjustment"}
  /\ op.currency \in Currencies /\ op.amount \in Int
  /\ op.kind = "settlement" => {op.sender, op.receiver} \subseteq Users
  /\ op.kind # "settlement" =>
       /\ op.payer \in Users /\ DOMAIN op.alloc \subseteq Users
       /\ \A u \in DOMAIN op.alloc : op.alloc[u] \in Int

IsLedger(rows) ==
  /\ rows \in Seq({rows[i] : i \in DOMAIN rows}) /\ \A i \in DOMAIN rows : IsRow(rows[i])
  /\ \A i, j \in DOMAIN rows : rows[i].kind = rows[j].kind /\ rows[i].id = rows[j].id => i = j

Calculate == INSTANCE LedgerArithmetic
Plan      == INSTANCE SettlementPlan

arithmeticVars  == <<input, counting, rest, values, left, totals>>
planVars        == <<matching, todo, currency, debtors, creditors, net, transfers, balances>>
planRequestVars == <<arithmeticVars, planVars>>

Init(ledger) == Calculate!ArithmeticInit(ledger) /\ Plan!PlanInit

GetBalance == Calculate!ArithmeticNext /\ UNCHANGED planVars

\* return domain.PlanSettlements(balances); an error of GetBalance is returned
\* instead.
CallPlanSettlements ==
  /\ counting = "done"
  /\ Plan!Call([k \in Currencies |-> [u \in Users |-> Of(values, <<u, k>>)]])
  /\ UNCHANGED arithmeticVars

PlanSettlements == Plan!PlanNext /\ UNCHANGED arithmeticVars

Next == GetBalance \/ CallPlanSettlements \/ PlanSettlements

-----------------------------------------------------------------------------
(* Properties *)

Ledger == Calculate!Ledger

\* Balances that are returned are what the ledger means, and a group whose amounts
\* add up to an integer always gets them (domain/ledger.go 52-156).
ExactBalances == Calculate!ExactBalances /\ Calculate!ComputedWhenFits

\* The entries shown to a user add up to the user's balance (ledger.go 158-216).
BreakdownExplains == Calculate!BreakdownExplains

\* Paying the transfers of a plan that is returned settles every user of the
\* ledger in every currency (domain/ledger.go 254-271 stops as soon as EITHER side
\* is exhausted and trusts that the other one is exhausted too), with fewer
\* transfers than there are users with a balance.
PlanSettlesLedger ==
  /\ matching = "done" =>
       \A k \in Currencies, u \in Users :
         Net(Ledger, u, k) = Plan!Received(u, Plan!Of(k, u))
  /\ Plan!FewTransfers

\* The request is answered with a plan or with an error.
Planned == counting = "refused" \/ matching \in {"done", "refused"}

\* From the ledger on, every change is a payment that overshoots neither side:
\* what has not been handed over yet is what the ledger means.
Owed ==
  IF matching = "wait" THEN [k \in Currencies |-> [u \in Users |-> Net(Ledger, u, k)]] ELSE net
Clear == INSTANCE Clearing WITH net <- Owed
ImplementsClearing == Clear!Spec
===============================================================================
