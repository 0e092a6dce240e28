------------------------------ MODULE CoreLedger ------------------------------
(***************************************************************************)
(* Expenses, adjustments and settlements of Core                           *)
(* (src/internal/core/usecase and src/internal/core/repository/postgres).  *)
(*                                                                         *)
(* A database transaction that locks the rows it decides on is one action. *)
(* Whatever the code reads outside that transaction is an action before    *)
(* it: Update reads the expense and then the members and only then writes; *)
(* CreateAdjustment takes the actor's role from its statement's snapshot   *)
(* and gets the row locks later (see CoreGroups); GetExpense and           *)
(* LoadLedger run two and three statements without a transaction.          *)
(***************************************************************************)
EXTENDS CoreGroups, Balances

CONSTANTS
  ExpenseIds, SettlementIds, AdjustmentIds,  \* serial numbers the tables may reach
  Amounts,      \* amounts in minor units a request may carry
  Parts,        \* parts of an amount it may name
  Currencies,   \* currency codes a request may carry
  Clients,      \* concurrent callers that write
  Readers,      \* concurrent callers that read
  MaxVersion    \* bound: requests name versions below it for their updates

ASSUME UsersAssumption == IsFiniteSet(Users)
ASSUME IdsAssumption ==
  ExpenseIds \subseteq Nat /\ SettlementIds \subseteq Nat /\ AdjustmentIds \subseteq Nat
ASSUME AmountsAssumption == Amounts \subseteq Nat \ {0} /\ Parts \subseteq Nat
ASSUME MaxVersionAssumption == MaxVersion \in Nat

VARIABLES
  expenses,     \* rows of expenses, a function on the ids inserted so far
  allocations,  \* rows of allocations of each expense: user -> amount
  settlements,  \* rows of settlements
  adjustments,  \* rows of adjustments with their adjustment_allocations
  audit,        \* audit_log entries of each row, in order
  calls,        \* calls[c]: what the request of writer c has read so far
  reads         \* reads[r]: what reader r has read so far

tables     == <<expenses, allocations, settlements, adjustments, audit>>
ledgerVars == <<expenses, allocations, settlements, adjustments, audit, calls, reads>>
vars       == <<groupVars, ledgerVars>>

-----------------------------------------------------------------------------
(* Rows *)

\* What a request may say about who owes which part of an amount.
Proposals(amount) == UNION {[P -> {part \in Parts : part =< amount}] : P \in SUBSET Users}
Allocation == UNION {Proposals(amount) : amount \in Amounts}

ExpenseRow ==
  [group : Groups, payer : Users, creator : Users, amount : Amounts,
   currency : Currencies, status : {"pending", "confirmed", "cancelled"},
   version : Nat \ {0}]

SettlementRow ==
  [group : Groups, sender : Users, receiver : Users, amount : Amounts,
   currency : Currencies, status : {"pending", "confirmed"}, version : {1, 2}]

AdjustmentRow ==
  [group : Groups, expense : ExpenseIds, type : {"refund", "correction"},
   amount : Amounts, currency : Currencies, creator : Users, alloc : Allocation]

Entity == ({"expense"} \X ExpenseIds) \cup ({"settlement"} \X SettlementIds)
            \cup ({"adjustment"} \X AdjustmentIds)

Entry == [action : {"created", "updated", "confirmed", "cancelled"}, version : Nat]

IsTable(table, ids, Row) == DOMAIN table \subseteq ids /\ table \in [DOMAIN table -> Row]

\* BIGSERIAL: numbers only grow.  The number a rolled-back insert burns is left
\* out: nothing depends on the numbers being without gaps.
IsNextId(id, table, ids) ==
  id \in ids \ DOMAIN table /\ \A n \in ids : n < id => n \in DOMAIN table

Insert(table, id, row) ==
  [n \in DOMAIN table \cup {id} |-> IF n = id THEN row ELSE table[n]]

Log(entity, action, version) ==
  audit' = [audit EXCEPT ![entity] = Append(@, [action |-> action, version |-> version])]

-----------------------------------------------------------------------------
(* Requests *)

\* What the split algorithms return for an amount: the participants' shares,
\* whose sum is the amount (module Split).
Drafts(amount) == {d \in Proposals(amount) : DOMAIN d # {} /\ SumFunction(d) = amount}

ExpenseInput ==
  UNION {[group : Groups, payer : Users, amount : {a}, currency : Currencies,
          drafts : Drafts(a)] : a \in Amounts}

SettlementInput ==
  [group : Groups, sender : Users, receiver : Users, amount : Amounts, currency : Currencies]

AdjustmentInput ==
  UNION {[type : {"refund", "correction"}, amount : {a}, currency : Currencies,
          alloc : Proposals(a)] : a \in Amounts}

NoCall == [op |-> "none"]

Call ==
       {NoCall}
  \cup [op : {"create"}, actor : Users, input : ExpenseInput]
  \cup [op : {"update"}, actor : Users, expense : ExpenseIds, version : Nat,
        group : Groups, row : ExpenseRow]
  \cup [op : {"prepared"}, actor : Users, expense : ExpenseIds, version : Nat,
        input : ExpenseInput, row : ExpenseRow]
  \cup [op : {"adjust"}, actor : Users, expense : ExpenseIds, actorRole : Role]

-----------------------------------------------------------------------------
(* What a LoadLedger statement returns when it runs now *)

ConfirmedExpenses(g) ==
  {[id |-> e, payer |-> expenses[e].payer, amount |-> expenses[e].amount,
    currency |-> expenses[e].currency, alloc |-> allocations[e]] :
     e \in {x \in DOMAIN expenses :
              expenses[x].group = g /\ expenses[x].status = "confirmed"}}

ConfirmedSettlements(g) ==
  {[id |-> s, sender |-> settlements[s].sender, receiver |-> settlements[s].receiver,
    amount |-> settlements[s].amount, currency |-> settlements[s].currency] :
     s \in {x \in DOMAIN settlements :
              settlements[x].group = g /\ settlements[x].status = "confirmed"}}

GroupAdjustments(g) ==
  {[id |-> a, payer |-> expenses[adjustments[a].expense].payer,
    type |-> adjustments[a].type, amount |-> adjustments[a].amount,
    currency |-> adjustments[a].currency, alloc |-> adjustments[a].alloc] :
     a \in {x \in DOMAIN adjustments : adjustments[x].group = g}}

LedgerNow(g) ==
  [expenses |-> ConfirmedExpenses(g), settlements |-> ConfirmedSettlements(g),
   adjustments |-> GroupAdjustments(g)]

EmptyLedger == [expenses |-> {}, settlements |-> {}, adjustments |-> {}]
NoRead      == [op |-> "none"]

-----------------------------------------------------------------------------
LedgerInit ==
  /\ expenses = << >>
  /\ allocations = << >>
  /\ settlements = << >>
  /\ adjustments = << >>
  /\ audit = [x \in Entity |-> <<>>]
  /\ calls = [c \in Clients |-> NoCall]
  /\ reads = [r \in Readers |-> NoRead]

Init == GroupInit /\ LedgerInit

Begin(c, call) == calls[c] = NoCall /\ calls' = [calls EXCEPT ![c] = call]
Return(c)      == calls' = [calls EXCEPT ![c] = NoCall]

-----------------------------------------------------------------------------
(* Creating and updating an expense *)

\* Variant: only the payer is looked up.
InvolvedPayer(input) == {input.payer}

Involved(input) == {input.payer} \cup DOMAIN input.drafts

\* prepare asks for an unarchived group whose members are the actor, the payer
\* and the participants.
PrepareAllowed(actor, input) ==
  /\ status[input.group] = "active"
  /\ IsMember(input.group, actor)
  /\ \A u \in Involved(input) : IsMember(input.group, u)

\* ensureExpenseWriteAllowed asks again, with the group row locked.
\* A variant that trusts what prepare saw earlier:
EnsurePreparedOnly(actor, input) == IsMember(input.group, actor)
EnsureExpenseWriteAllowed(actor, input) == PrepareAllowed(actor, input)

PrepareCreate(c, actor, input) ==
  /\ PrepareAllowed(actor, input)
  /\ Begin(c, [op |-> "create", actor |-> actor, input |-> input])
  /\ UNCHANGED <<groupVars, tables, reads>>

CreateExpense(c, e) ==
  LET call  == calls[c]
      input == call.input
  IN  /\ call.op = "create"
      /\ IsNextId(e, expenses, ExpenseIds)
      /\ EnsureExpenseWriteAllowed(call.actor, input)
      /\ expenses' = Insert(expenses, e,
           [group |-> input.group, payer |-> input.payer, creator |-> call.actor,
            amount |-> input.amount, currency |-> input.currency,
            status |-> "pending", version |-> 1])
      /\ allocations' = Insert(allocations, e, input.drafts)
      /\ Log(<<"expense", e>>, "created", 1)
      /\ Return(c)
      /\ UNCHANGED <<groupVars, settlements, adjustments, reads>>

ValidateExpenseUpdate(row, version, g) ==
  row.status = "pending" /\ row.version = version /\ row.group = g

\* The checks on the row that GetExpense returned to a member.
ReadForUpdate(c, actor, e, version, g) ==
  /\ e \in DOMAIN expenses
  /\ IsMember(expenses[e].group, actor)
  /\ ValidateExpenseUpdate(expenses[e], version, g)
  /\ Begin(c, [op |-> "update", actor |-> actor, expense |-> e,
               version |-> version, group |-> g, row |-> expenses[e]])
  /\ UNCHANGED <<groupVars, tables, reads>>

PrepareUpdate(c, input) ==
  LET call == calls[c]
  IN  /\ call.op = "update"
      /\ input.group = call.group
      /\ PrepareAllowed(call.actor, input)
      /\ calls' = [calls EXCEPT ![c] =
           [op |-> "prepared", actor |-> call.actor, expense |-> call.expense,
            version |-> call.version, input |-> input, row |-> call.row]]
      /\ UNCHANGED <<groupVars, tables, reads>>

\* Variants of the WHERE clause: without the version, without both.
UpdateAnyVersion(row, version) == row.status = "pending"
UpdateAnyRow(row, version)     == TRUE

\* UPDATE ... WHERE id AND version AND status = 'pending'
UpdateMatches(row, version) == row.version = version /\ row.status = "pending"

UpdatedRow(row, input) ==
  [row EXCEPT !.payer = input.payer, !.amount = input.amount,
              !.currency = input.currency, !.version = @ + 1]

\* The old allocations are deleted and the new ones inserted in the same
\* transaction; group, creator and status keep their values.
UpdateExpense(c) ==
  LET call  == calls[c]
      input == call.input
      e     == call.expense
  IN  /\ call.op = "prepared"
      /\ EnsureExpenseWriteAllowed(call.actor, input)
      /\ UpdateMatches(expenses[e], call.version)
      /\ expenses' = [expenses EXCEPT ![e] = UpdatedRow(@, input)]
      /\ allocations' = [allocations EXCEPT ![e] = input.drafts]
      /\ Log(<<"expense", e>>, "updated", expenses[e].version + 1)
      /\ Return(c)
      /\ UNCHANGED <<groupVars, settlements, adjustments, reads>>

\* An error, a refusal or a lost connection ends a request and leaves the
\* tables alone: the transaction rolls back as a whole.
Fail(c) ==
  /\ calls[c] # NoCall
  /\ Return(c)
  /\ UNCHANGED <<groupVars, tables, reads>>

-----------------------------------------------------------------------------
(* Confirming and cancelling an expense *)

\* Variant: a confirmed expense may still be cancelled.
TransitionFromAny(current, target) == target \in {"confirmed", "cancelled"}

ValidateExpenseTransition(current, target) ==
  current = target \/ (current = "pending" /\ target \in {"confirmed", "cancelled"})

\* Variant: a change of status does not count as a new version.
StatusChangedSameVersion(row, target) == [row EXCEPT !.status = target]

StatusChanged(row, target) == [row EXCEPT !.status = target, !.version = @ + 1]

\* One transaction; neither the group's status nor a version is looked at, and
\* repeating the call on its own target changes nothing.
ChangeExpenseStatus(actor, e, target) ==
  /\ e \in DOMAIN expenses
  /\ IsMember(expenses[e].group, actor)
  /\ ValidateExpenseTransition(expenses[e].status, target)
  /\ expenses[e].status # target
  /\ expenses' = [expenses EXCEPT ![e] = StatusChanged(@, target)]
  /\ Log(<<"expense", e>>, target, expenses[e].version + 1)
  /\ UNCHANGED <<groupVars, allocations, settlements, adjustments, calls, reads>>

-----------------------------------------------------------------------------
(* Adjusting a confirmed expense *)

ValidateAdjustmentPermission(actor, creator, actorRole) ==
  actor = creator \/ actorRole \in Managers

Refunds(e) ==
  {a \in DOMAIN adjustments : adjustments[a].expense = e /\ adjustments[a].type = "refund"}

Refunded(e) == SumFunction([a \in Refunds(e) |-> adjustments[a].amount])

\* Variant: each refund is compared with the whole expense.
RefundFitsAlone(e, input) == input.type = "refund" => input.amount <= expenses[e].amount

MayAdjust(e, call, currency) ==
  /\ currency = expenses[e].currency
  /\ status[expenses[e].group] # "archived"
  /\ expenses[e].status = "confirmed"
  /\ ValidateAdjustmentPermission(call.actor, expenses[e].creator, call.actorRole)

BalancedOver(g, amount, alloc) ==
  (\A u \in DOMAIN alloc : IsMember(g, u)) /\ SumFunction(alloc) = amount

RefundFits(e, input) ==
  input.type = "refund" => input.amount <= expenses[e].amount - Refunded(e)

\* The snapshot of the locking statement: the expense exists, the actor is a
\* member with this role.
LookupAdjustment(c, actor, e) ==
  /\ e \in DOMAIN expenses
  /\ IsMember(expenses[e].group, actor)
  /\ Begin(c, [op |-> "adjust", actor |-> actor, expense |-> e,
               actorRole |-> role[expenses[e].group][actor]])
  /\ UNCHANGED <<groupVars, tables, reads>>

\* With the expense and the group locked: their current columns, the members
\* and the refunds so far (separate statements, so current too).
CreateAdjustment(c, a, input) ==
  LET call == calls[c]
      e    == call.expense
      g    == expenses[e].group
  IN  /\ call.op = "adjust"
      /\ IsNextId(a, adjustments, AdjustmentIds)
      /\ MayAdjust(e, call, input.currency)
      /\ BalancedOver(g, input.amount, input.alloc)
      /\ RefundFits(e, input)
      /\ adjustments' = Insert(adjustments, a,
           [group |-> g, expense |-> e, type |-> input.type, amount |-> input.amount,
            currency |-> input.currency, creator |-> call.actor, alloc |-> input.alloc])
      /\ Log(<<"adjustment", a>>, "created", 0)
      /\ Return(c)
      /\ UNCHANGED <<groupVars, expenses, allocations, settlements, reads>>

-----------------------------------------------------------------------------
(* Settlements: the sender records one, the receiver confirms it *)

CreateSettlement(s, input) ==
  /\ IsNextId(s, settlements, SettlementIds)
  /\ input.sender # input.receiver
  /\ status[input.group] = "active"
  /\ IsMember(input.group, input.sender) /\ IsMember(input.group, input.receiver)
  /\ settlements' = Insert(settlements, s,
       [group |-> input.group, sender |-> input.sender, receiver |-> input.receiver,
        amount |-> input.amount, currency |-> input.currency,
        status |-> "pending", version |-> 1])
  /\ Log(<<"settlement", s>>, "created", 1)
  /\ UNCHANGED <<groupVars, expenses, allocations, adjustments, calls, reads>>

\* Only the receiver confirms; repeating it returns the row unchanged.
Confirmable(actor, row) == actor = row.receiver /\ row.status = "pending"

ConfirmSettlement(actor, s) ==
  /\ s \in DOMAIN settlements
  /\ IsMember(settlements[s].group, actor)
  /\ Confirmable(actor, settlements[s])
  /\ settlements' = [settlements EXCEPT ![s] = StatusChanged(@, "confirmed")]
  /\ Log(<<"settlement", s>>, "confirmed", settlements[s].version + 1)
  /\ UNCHANGED <<groupVars, expenses, allocations, adjustments, calls, reads>>

-----------------------------------------------------------------------------
(* Reads made of several statements *)

\* GetExpense: the row first, its allocations in a later statement.
ReadExpenseRow(r, actor, e) ==
  /\ reads[r] = NoRead
  /\ e \in DOMAIN expenses
  /\ IsMember(expenses[e].group, actor)
  /\ reads' = [reads EXCEPT ![r] = [op |-> "row", expense |-> e, row |-> expenses[e]]]
  /\ UNCHANGED <<groupVars, tables, calls>>

\* The items, which nothing is calculated from, are left out.
LoadExpenseDetails(r) ==
  /\ reads[r].op = "row"
  /\ reads' = [reads EXCEPT ![r] =
       [op |-> "expense", expense |-> @.expense, row |-> @.row,
        alloc |-> allocations[@.expense]]]
  /\ UNCHANGED <<groupVars, tables, calls>>

\* LoadLedger: membership, expenses, settlements and adjustments.  "since" is
\* history: the ledger when the first statement had run.
BeginLoadLedger(r, actor, g) ==
  /\ reads[r] = NoRead
  /\ IsMember(g, actor)
  /\ reads' = [reads EXCEPT ![r] =
       [op |-> "member", group |-> g, since |-> LedgerNow(g), ledger |-> EmptyLedger]]
  /\ UNCHANGED <<groupVars, tables, calls>>

Loaded(read, to, table, rows) == [read EXCEPT !.op = to, !.ledger[table] = rows]

LedgerStatement(r, from, to, table, rows) ==
  /\ reads[r].op = from
  /\ reads' = [reads EXCEPT ![r] = Loaded(@, to, table, rows)]
  /\ UNCHANGED <<groupVars, tables, calls>>

LoadLedgerStep(r) ==
  \/ LedgerStatement(r, "member", "expenses", "expenses", ConfirmedExpenses(reads[r].group))
  \/ LedgerStatement(r, "expenses", "settlements", "settlements",
                     ConfirmedSettlements(reads[r].group))
  \/ LedgerStatement(r, "settlements", "ledger", "adjustments",
                     GroupAdjustments(reads[r].group))

EndRead(r) ==
  /\ reads[r] # NoRead
  /\ reads' = [reads EXCEPT ![r] = NoRead]
  /\ UNCHANGED <<groupVars, tables, calls>>

-----------------------------------------------------------------------------
ExpenseNext ==
  \E c \in Clients :
    \/ \E actor \in Users, input \in ExpenseInput : PrepareCreate(c, actor, input)
    \/ \E e \in ExpenseIds : CreateExpense(c, e)
    \/ \E actor \in Users, e \in ExpenseIds, version \in 1..MaxVersion - 1, g \in Groups :
         ReadForUpdate(c, actor, e, version, g)
    \/ \E input \in ExpenseInput : PrepareUpdate(c, input)
    \/ UpdateExpense(c)
    \/ Fail(c)

StatusNext ==
  \E actor \in Users, e \in ExpenseIds, target \in {"confirmed", "cancelled"} :
    ChangeExpenseStatus(actor, e, target)

AdjustmentNext ==
  \E c \in Clients :
    \/ \E actor \in Users, e \in ExpenseIds : LookupAdjustment(c, actor, e)
    \/ \E a \in AdjustmentIds, input \in AdjustmentInput : CreateAdjustment(c, a, input)

SettlementNext ==
  \/ \E s \in SettlementIds, input \in SettlementInput : CreateSettlement(s, input)
  \/ \E actor \in Users, s \in SettlementIds : ConfirmSettlement(actor, s)

ReadNext ==
  \E r \in Readers :
    \/ \E actor \in Users, e \in ExpenseIds : ReadExpenseRow(r, actor, e)
    \/ LoadExpenseDetails(r)
    \/ \E actor \in Users, g \in Groups : BeginLoadLedger(r, actor, g)
    \/ LoadLedgerStep(r)
    \/ EndRead(r)

Next ==
  \/ GroupNext /\ UNCHANGED ledgerVars
  \/ ExpenseNext
  \/ StatusNext
  \/ AdjustmentNext
  \/ SettlementNext
  \/ ReadNext

Spec == Init /\ [][Next]_vars

-----------------------------------------------------------------------------
(* Properties *)

\* The four tables hold rows their columns and domain types allow: in particular
\* an expense, a settlement or an adjustment is only ever in a status its
\* CHECK constraint names (src/migrations/core/001_init.sql 29-129), and every
\* expense has allocations.
TypeOK ==
  /\ GroupTypeOK
  /\ IsTable(expenses, ExpenseIds, ExpenseRow)
  /\ allocations \in [DOMAIN expenses -> Allocation]
  /\ IsTable(settlements, SettlementIds, SettlementRow)
  /\ IsTable(adjustments, AdjustmentIds, AdjustmentRow)
  /\ audit \in [Entity -> Seq(Entry)]
  /\ calls \in [Clients -> Call]

\* The allocations of an expense divide exactly its current amount, and the
\* payer and everyone who owes a share belong to the expense's group, even when
\* the request was prepared before another one changed expense or group.
AllocationsBalance ==
  \A e \in DOMAIN expenses :
    /\ SumFunction(allocations[e]) = expenses[e].amount
    /\ \A u \in DOMAIN allocations[e] \cup {expenses[e].payer} :
         IsMember(expenses[e].group, u)

AdjustmentFits(row) ==
  /\ row.expense \in DOMAIN expenses
  /\ expenses[row.expense].status = "confirmed"
  /\ expenses[row.expense].group = row.group
  /\ expenses[row.expense].currency = row.currency
  /\ SumFunction(row.alloc) = row.amount
  /\ \A u \in DOMAIN row.alloc : IsMember(row.group, u)

\* Adjustments exist only for a confirmed expense, in its group and currency,
\* balanced over members, and however many refunds race, together they give back
\* at most what was spent.
AdjustmentsFit ==
  /\ \A e \in DOMAIN expenses : Refunded(e) <= expenses[e].amount
  /\ \A a \in DOMAIN adjustments : AdjustmentFits(adjustments[a])

\* audit_log tells the story of every expense, versions 1, 2, 3, ... without a gap
\* or a repetition, "created" first, only updates in between, and a last entry
\* that agrees with the row's status, and nothing of an expense that does not exist;
\* and the story of every settlement.  (An adjustment never changes.)
AuditExplainsLedger ==
  /\ \A e \in ExpenseIds :
       LET log == audit[<<"expense", e>>]
       IN  IF e \notin DOMAIN expenses THEN log = <<>>
           ELSE /\ Len(log) = expenses[e].version
                /\ \A i \in DOMAIN log : log[i].version = i
                /\ log[1].action = "created"
                /\ \A i \in 2..Len(log) :
                     log[i].action = IF i = Len(log) /\ expenses[e].status # "pending"
                                     THEN expenses[e].status ELSE "updated"
  /\ \A s \in DOMAIN settlements :
       audit[<<"settlement", s>>] =
         IF settlements[s].status = "pending"
         THEN << [action |-> "created", version |-> 1] >>
         ELSE << [action |-> "created", version |-> 1],
                 [action |-> "confirmed", version |-> 2] >>

\* No lost update: an update replaces exactly the row its caller had read, in
\* the same group and with the same creator, and counts as one version.
NoLostUpdate ==
  [][\A c \in Clients :
       UpdateExpense(c) =>
         LET old == calls[c].row
             new == expenses'[calls[c].expense]
         IN  /\ expenses[calls[c].expense] = old
             /\ new.version = old.version + 1
             /\ new.group = old.group /\ new.creator = old.creator]_vars

\* GetExpense reads row and allocations apart and may pair a pending row with
\* the allocations of a later version, but never for an expense that counts:
\* then it returns exactly what the tables hold, whatever ran in between.
SettledReadsWhole ==
  \A r \in Readers :
    reads[r].op = "expense" /\ reads[r].row.status # "pending" =>
      /\ reads[r].row = expenses[reads[r].expense]
      /\ reads[r].alloc = allocations[reads[r].expense]

\* A ledger read across three statements has every operation that counted when
\* it began and nothing that does not count now, and a torn read is never an
\* error: CalculateBalances finds every operation well formed and the net amounts
\* of each currency adding up to zero.
LedgerReadBounded ==
  \A r \in Readers :
    reads[r].op = "ledger" =>
      LET got == reads[r].ledger
          now == LedgerNow(reads[r].group)
      IN  /\ \A table \in {"expenses", "settlements", "adjustments"} :
               reads[r].since[table] \subseteq got[table] /\ got[table] \subseteq now[table]
          /\ Computable(got, Users, Currencies)

Records == INSTANCE CoreRecords WITH
  members          <- [g \in Groups |-> Members(g)],
  archived         <- {g \in Groups : status[g] = "archived"},
  ExpenseInputs    <- ExpenseInput,
  SettlementInputs <- SettlementInput,
  AdjustmentInputs <- AdjustmentInput,
  Sum              <- SumFunction

\* Whatever requests interleave, callers see operations that happen whole or not
\* at all and one after the other: money that counts is never rewritten, nothing
\* new enters an archived group, a version is replaced once.
ImplementsRecords == Records!Spec

===============================================================================
