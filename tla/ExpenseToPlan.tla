----------------------------- MODULE ExpenseToPlan -----------------------------
(***************************************************************************)
(* From the request that records an expense to the plan that settles it:   *)
(* the request is divided (Split, called by Expenses.prepare in            *)
(* src/internal/core/usecase/expense.go), and when the expense counts, the *)
(* balances and the plan are computed from the parts (GetSettlementPlan).  *)
(* Each part takes for granted what the one before it returns.             *)
(***************************************************************************)
EXTENDS GetSettlementPlan, Functions

CONSTANTS
  Requests,  \* requests to try
  Confirmed,   \* bound: those whose expense is confirmed and counts
  Others,    \* what else is in the group's ledger: sequences of operations
  Whole      \* basis points of a whole: 10000 in the code

ASSUME ExpenseAssumption ==
  0 \notin Users /\ 1 \in Currencies /\ Whole \in Nat \ {0} /\ Confirmed \subseteq Requests

VARIABLES request, answer   \* Split

Divide == INSTANCE Split WITH Members <- Users

ASSUME RequestsAssumption == \A r \in Requests : Divide!IsRequest(r)
ASSUME OthersAssumption ==
  \A other \in Others :
    IsLedger(other) /\ \A i \in DOMAIN other : other[i].kind = "expense" => other[i].id # 1

vars == <<request, answer, planRequestVars>>

\* The rows of the expense once it counts: a user's parts of all items together.
ExpenseOf(r, payer) ==
  LET parts == Divide!Prepare(r)
  IN  [kind |-> "expense", id |-> 1, payer |-> payer, amount |-> r.amount, currency |-> 1,
       alloc |-> [u \in Divide!Named(r) |-> Divide!PartOf(u, parts)]]

\* The ledgers a request may end up in; nothing is computed from a pending one.
Ledgers(r) ==
  IF r \in Confirmed /\ Divide!Prepare(r) # Divide!Refused
  THEN {<<ExpenseOf(r, payer)>> \o other : payer \in Users, other \in Others}
  ELSE {<<>>}

Start == Divide!SplitInit /\ \E ledger \in Ledgers(request) : Init(ledger)

CreateExpense == Divide!Answer /\ UNCHANGED planRequestVars

PlanStep == answer # Divide!Refused /\ input # <<>> /\ Next /\ UNCHANGED <<request, answer>>

Spec == Start /\ [][CreateExpense \/ PlanStep]_vars

\* The functions run on: nothing in them waits.
FairSpec == Spec /\ WF_vars(CreateExpense) /\ WF_vars(PlanStep)

-----------------------------------------------------------------------------
(* Properties (their parts are stated in Split and GetSettlementPlan) *)

\* An accepted request is divided to the last minor unit, and nobody's part is off
\* by more than one of them (split.go 21-151).
DividesFairly == Divide!DividesWhole /\ Divide!Fair

\* The order of a request's list changes nobody's part (split.go 101-104).
OrderFree == Divide!OrderFree

\* An expense that counts, however it was divided, ends in a plan or an error
\* (domain/ledger.go 254: no turn leaves both heads in their queues).
Terminates == input # <<>> => <>Planned
===============================================================================
