--------------------------- MODULE CoreLedgerProofs ---------------------------
(***************************************************************************)
(* Proofs about CoreLedger, for any users, groups, amounts and callers.    *)
(*                                                                         *)
(* A request decides on rows it read in an earlier statement.  What keeps  *)
(* it from acting on stale ones is said once in CallsRead: the group, the  *)
(* creator and the membership a call has seen never change, and a row that *)
(* has the version the call names is the row the call has read.            *)
(***************************************************************************)
EXTENDS CoreLedger, CoreGroupsProofs, BalancesProofs

-----------------------------------------------------------------------------
(* What a step of the ledger does to the groups *)

\* The requests about money use the groups and leave them as they are.
LEMMA StepOfGroups ==
  ASSUME [Next]_vars
  PROVE  \/ GroupNext /\ UNCHANGED ledgerVars
         \/ UNCHANGED groupVars
<1>1. CASE UNCHANGED vars
  BY <1>1 DEF vars
<1>2. CASE GroupNext /\ UNCHANGED ledgerVars
  BY <1>2
<1>3. CASE ExpenseNext
  BY <1>3 DEF ExpenseNext, PrepareCreate, CreateExpense, ReadForUpdate, PrepareUpdate,
              UpdateExpense, Fail
<1>4. CASE StatusNext
  BY <1>4 DEF StatusNext, ChangeExpenseStatus
<1>5. CASE AdjustmentNext
  BY <1>5 DEF AdjustmentNext, LookupAdjustment, CreateAdjustment
<1>6. CASE SettlementNext
  BY <1>6 DEF SettlementNext, CreateSettlement, ConfirmSettlement
<1>7. CASE ReadNext
  BY <1>7 DEF ReadNext, ReadExpenseRow, LoadExpenseDetails, BeginLoadLedger,
              LoadLedgerStep, LedgerStatement, EndRead
<1> QED
  BY <1>1, <1>2, <1>3, <1>4, <1>5, <1>6, <1>7 DEF Next

LEMMA StepGroups == [Next]_vars => [GroupNext]_groupVars
BY StepOfGroups

\* Seen by its groups alone, the ledger is CoreGroups: what is proved of the groups
\* holds with requests about money running.
THEOREM LedgerUsesGroups == Spec => GroupSpec
<1>1. Init => GroupInit
  BY DEF Init
<1> QED
  BY <1>1, StepGroups, PTL DEF Spec, GroupSpec

THEOREM LedgerGroupInvariant == Spec => []GroupInv
BY LedgerUsesGroups, GroupInvariant, PTL

\* Nobody leaves a group, and an archived one stays as it is.
LEMMA MembersStay ==
  ASSUME GroupInv, [GroupNext]_groupVars, NEW g \in Groups
  PROVE  /\ \A u \in Users : IsMember(g, u) => IsMember(g, u)'
         /\ status[g] = "archived" => status'[g] = "archived"
<1>1. CASE Born(g)
  BY <1>1 DEF Born, GroupInv, Unborn, IsMember
<1>2. CASE Ratchet(g)
  BY <1>2 DEF Ratchet, IsMember
<1> QED
  BY <1>1, <1>2, StepRatchet

-----------------------------------------------------------------------------
(* The data of requests and rows *)

LEMMA ProposalShape ==
  ASSUME NEW amount \in Amounts, NEW d \in Proposals(amount)
  PROVE  d \in Allocation /\ DOMAIN d \subseteq Users
BY DEF Proposals, Allocation

LEMMA InputShape ==
  ASSUME NEW input \in ExpenseInput
  PROVE  /\ input.group \in Groups /\ input.payer \in Users
         /\ input.amount \in Amounts /\ input.currency \in Currencies
         /\ input.drafts \in Allocation /\ DOMAIN input.drafts \subseteq Users
         /\ SumFunction(input.drafts) = input.amount
<1>1. PICK a \in Amounts :
        input \in [group : Groups, payer : Users, amount : {a}, currency : Currencies,
                   drafts : Drafts(a)]
  BY DEF ExpenseInput
<1>2. input.drafts \in Proposals(a) /\ SumFunction(input.drafts) = a /\ input.amount = a
  BY <1>1 DEF Drafts
<1> QED
  BY <1>1, <1>2, ProposalShape

LEMMA AdjustmentShape ==
  ASSUME NEW input \in AdjustmentInput
  PROVE  /\ input.type \in {"refund", "correction"} /\ input.amount \in Amounts
         /\ input.currency \in Currencies
         /\ input.alloc \in Allocation /\ DOMAIN input.alloc \subseteq Users
<1>1. PICK a \in Amounts :
        input \in [type : {"refund", "correction"}, amount : {a}, currency : Currencies,
                   alloc : Proposals(a)]
  BY DEF AdjustmentInput
<1> QED
  BY <1>1, ProposalShape

LEMMA Inserted ==
  ASSUME NEW table, NEW id, NEW row
  PROVE  /\ DOMAIN Insert(table, id, row) = DOMAIN table \cup {id}
         /\ Insert(table, id, row)[id] = row
         /\ \A n \in DOMAIN table : n # id => Insert(table, id, row)[n] = table[n]
BY DEF Insert

LEMMA InsertType ==
  ASSUME NEW table, NEW ids, NEW Row, IsTable(table, ids, Row), NEW id \in ids, NEW row \in Row
  PROVE  IsTable(Insert(table, id, row), ids, Row)
BY DEF Insert, IsTable

\* The rows that an update and a change of status write, column by column.
LEMMA UpdatedShape ==
  ASSUME NEW row \in ExpenseRow, NEW input \in ExpenseInput
  PROVE  /\ UpdatedRow(row, input) =
              [group |-> row.group, payer |-> input.payer, creator |-> row.creator,
               amount |-> input.amount, currency |-> input.currency,
               status |-> row.status, version |-> row.version + 1]
         /\ UpdatedRow(row, input) \in ExpenseRow
<1> DEFINE before(payer, amount, currency, version) ==
             [group |-> row.group, payer |-> payer, creator |-> row.creator,
              amount |-> amount, currency |-> currency, status |-> row.status,
              version |-> version]
           r1 == [row EXCEPT !.payer = input.payer]
           r2 == [r1 EXCEPT !.amount = input.amount]
           r3 == [r2 EXCEPT !.currency = input.currency]
           r4 == [r3 EXCEPT !.version = @ + 1]
<1>1. row = before(row.payer, row.amount, row.currency, row.version)
  BY DEF ExpenseRow
<1>2. r1 = before(input.payer, row.amount, row.currency, row.version)
  BY <1>1
<1>3. UpdatedRow(row, input) = r4
  BY DEF UpdatedRow
<1> HIDE DEF r1
<1>4. r2 = before(input.payer, input.amount, row.currency, row.version)
  BY <1>2
<1> HIDE DEF r2
<1>5. r3 = before(input.payer, input.amount, input.currency, row.version)
  BY <1>4
<1> HIDE DEF r3
<1>6. r4 = before(input.payer, input.amount, input.currency, row.version + 1)
  BY <1>5
<1> QED
  BY <1>3, <1>6, InputShape DEF ExpenseRow

LEMMA StatusShape ==
  ASSUME NEW row \in ExpenseRow, NEW target \in {"confirmed", "cancelled"}
  PROVE  /\ StatusChanged(row, target) =
              [group |-> row.group, payer |-> row.payer, creator |-> row.creator,
               amount |-> row.amount, currency |-> row.currency,
               status |-> target, version |-> row.version + 1]
         /\ StatusChanged(row, target) \in ExpenseRow
<1> DEFINE after(st, version) ==
             [group |-> row.group, payer |-> row.payer, creator |-> row.creator,
              amount |-> row.amount, currency |-> row.currency, status |-> st,
              version |-> version]
           r1 == [row EXCEPT !.status = target]
           r2 == [r1 EXCEPT !.version = @ + 1]
<1>1. row = after(row.status, row.version)
  BY DEF ExpenseRow
<1>2. r1 = after(target, row.version)
  BY <1>1
<1>3. StatusChanged(row, target) = r2
  BY DEF StatusChanged
<1> HIDE DEF r1
<1>4. r2 = after(target, row.version + 1)
  BY <1>2
<1> QED
  BY <1>3, <1>4 DEF ExpenseRow

LEMMA ReceivedShape ==
  ASSUME NEW row \in SettlementRow, row.status = "pending",
         row.version = 1
  PROVE  LET new == StatusChanged(row, "confirmed")
         IN  /\ new = [group |-> row.group, sender |-> row.sender, receiver |-> row.receiver,
                       amount |-> row.amount, currency |-> row.currency,
                       status |-> "confirmed", version |-> 2]
             /\ new \in SettlementRow
<1> DEFINE after(st, version) ==
             [group |-> row.group, sender |-> row.sender, receiver |-> row.receiver,
              amount |-> row.amount, currency |-> row.currency, status |-> st,
              version |-> version]
           r1 == [row EXCEPT !.status = "confirmed"]
           r2 == [r1 EXCEPT !.version = @ + 1]
<1>1. row = after("pending", 1)
  BY DEF SettlementRow
<1>2. r1 = after("confirmed", 1)
  BY <1>1
<1>3. StatusChanged(row, "confirmed") = r2
  BY DEF StatusChanged
<1> HIDE DEF r1
<1>4. r2 = after("confirmed", 2)
  BY <1>2
<1> QED
  BY <1>3, <1>4 DEF SettlementRow

\* What the calls of each kind carry.
LEMMA LedgerCallShapes ==
  ASSUME calls \in [Clients -> Call], NEW c \in Clients
  PROVE  /\ calls[c].op \in {"none", "create", "update", "prepared", "adjust"}
         /\ calls[c].op = "none" => calls[c] = NoCall
         /\ calls[c].op # "none" => calls[c].actor \in Users
         /\ calls[c].op \in {"create", "prepared"} => calls[c].input \in ExpenseInput
         /\ calls[c].op \in {"update", "prepared"} =>
              calls[c].version \in Nat /\ calls[c].row \in ExpenseRow
         /\ calls[c].op = "update" => calls[c].group \in Groups
         /\ calls[c].op \in {"update", "prepared", "adjust"} => calls[c].expense \in ExpenseIds
         /\ calls[c].op = "adjust" => calls[c].actorRole \in Role
BY DEF Call, NoCall

-----------------------------------------------------------------------------
(* Type correctness *)

\* A settlement is pending in its first version and confirmed in its second.
Received ==
  \A s \in DOMAIN settlements :
    settlements[s].version = IF settlements[s].status = "pending" THEN 1 ELSE 2

\* What a call has read is still true where it matters.
CallsRead ==
  \A c \in Clients :
    LET call == calls[c]
        now  == expenses[call.expense]
    IN  /\ call.op \in {"update", "prepared"} =>
             /\ call.expense \in DOMAIN expenses
             /\ call.row.status = "pending" /\ call.row.version = call.version
             /\ call.version <= now.version
             /\ call.version = now.version => now = call.row
             /\ now.group = call.row.group /\ now.creator = call.row.creator
        /\ call.op = "update" => call.group = call.row.group
        /\ call.op = "prepared" => call.input.group = call.row.group
        /\ call.op = "adjust" =>
             /\ call.expense \in DOMAIN expenses
             /\ IsMember(now.group, call.actor)

LedgerInv == TypeOK /\ GroupInv /\ Received /\ CallsRead

LEMMA LedgerInitInv == Init => LedgerInv
<1> SUFFICES ASSUME Init PROVE LedgerInv
  OBVIOUS
<1> USE DEF Init, LedgerInit
<1>1. IsTable(<< >>, ExpenseIds, ExpenseRow) /\ IsTable(<< >>, SettlementIds, SettlementRow)
      /\ IsTable(<< >>, AdjustmentIds, AdjustmentRow)
  BY DEF IsTable
<1>2. audit \in [Entity -> Seq(Entry)]
  OBVIOUS
<1>3. calls \in [Clients -> Call]
  BY DEF Call
<1>4. TypeOK
  BY <1>1, <1>2, <1>3, InitTypes DEF TypeOK
<1> QED
  BY <1>4, InitInv DEF LedgerInv, Received, CallsRead, NoCall

LEMMA LogTypes ==
  ASSUME audit \in [Entity -> Seq(Entry)], NEW entity \in Entity,
         NEW action \in {"created", "updated", "confirmed", "cancelled"},
         NEW version \in Nat, Log(entity, action, version)
  PROVE  audit' \in [Entity -> Seq(Entry)]
<1>1. [action |-> action, version |-> version] \in Entry
  BY DEF Entry
<1> QED
  BY <1>1 DEF Log

LEMMA CallTypes ==
  ASSUME calls \in [Clients -> Call], NEW c \in Clients, NEW call \in Call,
         Begin(c, call) \/ Return(c)
  PROVE  calls' \in [Clients -> Call]
BY DEF Begin, Return, Call

LEMMA CreateExpenseTypes ==
  ASSUME TypeOK, NEW c \in Clients, NEW e \in ExpenseIds, CreateExpense(c, e)
  PROVE  /\ IsTable(expenses, ExpenseIds, ExpenseRow)'
         /\ allocations' \in [DOMAIN expenses' -> Allocation]
         /\ audit' \in [Entity -> Seq(Entry)]
         /\ calls' \in [Clients -> Call]
<1> USE DEF TypeOK
<1> DEFINE call == calls[c]
           input == call.input
           row == [group |-> input.group, payer |-> input.payer, creator |-> call.actor,
                   amount |-> input.amount, currency |-> input.currency,
                   status |-> "pending", version |-> 1]
<1>1. call.actor \in Users /\ input \in ExpenseInput
  BY LedgerCallShapes DEF CreateExpense
<1>2. row \in ExpenseRow
  BY <1>1, InputShape DEF ExpenseRow
<1>3. IsTable(Insert(expenses, e, row), ExpenseIds, ExpenseRow)
  BY <1>2, InsertType
<1>4. Insert(allocations, e, input.drafts) \in [DOMAIN expenses \cup {e} -> Allocation]
  BY <1>1, InputShape DEF Insert
<1>5. expenses' = Insert(expenses, e, row) /\ allocations' = Insert(allocations, e, input.drafts)
  BY DEF CreateExpense
<1>6. DOMAIN expenses' = DOMAIN expenses \cup {e}
  BY <1>5, Inserted
<1>7. audit' \in [Entity -> Seq(Entry)]
  BY LogTypes DEF CreateExpense, Entity
<1>8. calls' \in [Clients -> Call]
  BY CallTypes DEF CreateExpense, Call
<1> QED
  BY <1>3, <1>4, <1>5, <1>6, <1>7, <1>8 DEF IsTable

LEMMA UpdateExpenseTypes ==
  ASSUME LedgerInv, NEW c \in Clients, UpdateExpense(c)
  PROVE  /\ IsTable(expenses, ExpenseIds, ExpenseRow)'
         /\ allocations' \in [DOMAIN expenses' -> Allocation]
         /\ audit' \in [Entity -> Seq(Entry)]
         /\ calls' \in [Clients -> Call]
<1> USE DEF LedgerInv, TypeOK
<1> DEFINE call == calls[c]
           e == call.expense
<1>1. call.input \in ExpenseInput /\ e \in ExpenseIds
  BY LedgerCallShapes DEF UpdateExpense
<1>2. e \in DOMAIN expenses /\ expenses[e] \in ExpenseRow
  BY DEF UpdateExpense, CallsRead, IsTable
<1>3. UpdatedRow(expenses[e], call.input) \in ExpenseRow
  BY <1>1, <1>2, UpdatedShape
<1>4. expenses' = [expenses EXCEPT ![e] = UpdatedRow(expenses[e], call.input)]
  BY DEF UpdateExpense
<1>5. IsTable(expenses, ExpenseIds, ExpenseRow)' /\ DOMAIN expenses' = DOMAIN expenses
  BY <1>3, <1>4 DEF IsTable
<1>6. allocations' \in [DOMAIN expenses' -> Allocation]
  BY <1>1, <1>5, InputShape DEF UpdateExpense
<1>7. expenses[e].version + 1 \in Nat /\ <<"expense", e>> \in Entity
  BY <1>1, <1>2 DEF ExpenseRow, Entity
<1>8. audit' \in [Entity -> Seq(Entry)]
  BY <1>7, LogTypes DEF UpdateExpense
<1>9. calls' \in [Clients -> Call]
  BY CallTypes DEF UpdateExpense, Call
<1> QED
  BY <1>5, <1>6, <1>8, <1>9

LEMMA StatusTypes ==
  ASSUME TypeOK, NEW actor \in Users, NEW e \in ExpenseIds,
         NEW target \in {"confirmed", "cancelled"}, ChangeExpenseStatus(actor, e, target)
  PROVE  /\ IsTable(expenses, ExpenseIds, ExpenseRow)' /\ DOMAIN expenses' = DOMAIN expenses
         /\ audit' \in [Entity -> Seq(Entry)]
<1> USE DEF TypeOK
<1>1. e \in DOMAIN expenses /\ expenses[e] \in ExpenseRow
  BY DEF ChangeExpenseStatus, IsTable
<1>2. StatusChanged(expenses[e], target) \in ExpenseRow
  BY <1>1, StatusShape
<1>3. expenses' = [expenses EXCEPT ![e] = StatusChanged(expenses[e], target)]
  BY DEF ChangeExpenseStatus
<1>4. expenses[e].version + 1 \in Nat /\ <<"expense", e>> \in Entity
  BY <1>1 DEF ExpenseRow, Entity
<1>5. audit' \in [Entity -> Seq(Entry)]
  BY <1>4, LogTypes DEF ChangeExpenseStatus
<1> QED
  BY <1>2, <1>3, <1>5 DEF IsTable

LEMMA CreateAdjustmentTypes ==
  ASSUME LedgerInv, NEW c \in Clients, NEW a \in AdjustmentIds,
         NEW input \in AdjustmentInput, CreateAdjustment(c, a, input)
  PROVE  /\ IsTable(adjustments, AdjustmentIds, AdjustmentRow)'
         /\ audit' \in [Entity -> Seq(Entry)]
         /\ calls' \in [Clients -> Call]
<1> USE DEF LedgerInv, TypeOK
<1> DEFINE call == calls[c]
           e == call.expense
           row == [group |-> expenses[e].group, expense |-> e, type |-> input.type,
                   amount |-> input.amount, currency |-> input.currency,
                   creator |-> call.actor, alloc |-> input.alloc]
<1>1. call.actor \in Users /\ e \in ExpenseIds
  BY LedgerCallShapes DEF CreateAdjustment
<1>2. e \in DOMAIN expenses /\ expenses[e].group \in Groups
  BY DEF CreateAdjustment, CallsRead, IsTable, ExpenseRow
<1>3. row \in AdjustmentRow
  BY <1>1, <1>2, AdjustmentShape DEF AdjustmentRow
<1>4. adjustments' = Insert(adjustments, a, row)
  BY DEF CreateAdjustment
<1>5. IsTable(Insert(adjustments, a, row), AdjustmentIds, AdjustmentRow)
  BY <1>3, InsertType
<1>6. audit' \in [Entity -> Seq(Entry)]
  BY LogTypes DEF CreateAdjustment, Entity
<1>7. calls' \in [Clients -> Call]
  BY CallTypes DEF CreateAdjustment, Call
<1> QED
  BY <1>4, <1>5, <1>6, <1>7 DEF IsTable

LEMMA CreateSettlementTypes ==
  ASSUME LedgerInv, NEW s \in SettlementIds, NEW input \in SettlementInput,
         CreateSettlement(s, input)
  PROVE  /\ IsTable(settlements, SettlementIds, SettlementRow)' /\ Received'
         /\ audit' \in [Entity -> Seq(Entry)]
<1> USE DEF LedgerInv, TypeOK
<1> DEFINE row == [group |-> input.group, sender |-> input.sender,
                   receiver |-> input.receiver, amount |-> input.amount,
                   currency |-> input.currency, status |-> "pending", version |-> 1]
<1>1. row \in SettlementRow
  BY DEF SettlementInput, SettlementRow
<1>2. settlements' = Insert(settlements, s, row)
  BY DEF CreateSettlement
<1>3. IsTable(Insert(settlements, s, row), SettlementIds, SettlementRow)
  BY <1>1, InsertType
<1>4. Received'
  BY <1>2 DEF Received, Insert
<1>5. audit' \in [Entity -> Seq(Entry)]
  BY LogTypes DEF CreateSettlement, Entity
<1> QED
  BY <1>2, <1>3, <1>4, <1>5 DEF IsTable

LEMMA ConfirmSettlementTypes ==
  ASSUME LedgerInv, NEW actor \in Users, NEW s \in SettlementIds, ConfirmSettlement(actor, s)
  PROVE  /\ IsTable(settlements, SettlementIds, SettlementRow)' /\ Received'
         /\ audit' \in [Entity -> Seq(Entry)]
<1> USE DEF LedgerInv, TypeOK
<1>1. /\ s \in DOMAIN settlements /\ settlements[s] \in SettlementRow
      /\ settlements[s].status = "pending" /\ settlements[s].version = 1
  BY DEF ConfirmSettlement, Confirmable, IsTable, Received
<1> DEFINE row == StatusChanged(settlements[s], "confirmed")
<1>2. row \in SettlementRow /\ row.status = "confirmed" /\ row.version = 2
  BY <1>1, ReceivedShape
<1>3. settlements' = [settlements EXCEPT ![s] = row]
  BY DEF ConfirmSettlement
<1> HIDE DEF row
<1>4. IsTable(settlements, SettlementIds, SettlementRow)' /\ Received'
  BY <1>2, <1>3 DEF IsTable, Received
<1>5. audit' \in [Entity -> Seq(Entry)]
  <2>1. <<"settlement", s>> \in Entity /\ 2 \in Nat
    BY DEF Entity
  <2>2. Log(<<"settlement", s>>, "confirmed", 2)
    BY <1>1 DEF ConfirmSettlement
  <2> QED
    BY <2>1, <2>2, LogTypes
<1> QED
  BY <1>4, <1>5

\* The steps that only change what calls have read.
LEMMA ReadingTypes ==
  ASSUME LedgerInv, NEW c \in Clients,
         \/ \E actor \in Users, input \in ExpenseInput : PrepareCreate(c, actor, input)
         \/ \E actor \in Users, e \in ExpenseIds, version \in 1..MaxVersion - 1, g \in Groups :
              ReadForUpdate(c, actor, e, version, g)
         \/ \E input \in ExpenseInput : PrepareUpdate(c, input)
         \/ \E actor \in Users, e \in ExpenseIds : LookupAdjustment(c, actor, e)
         \/ Fail(c)
  PROVE  calls' \in [Clients -> Call] /\ UNCHANGED <<groupVars, tables, reads>>
<1> USE DEF LedgerInv, TypeOK
<1>1. ASSUME NEW actor \in Users, NEW input \in ExpenseInput, PrepareCreate(c, actor, input)
      PROVE  calls' \in [Clients -> Call] /\ UNCHANGED <<groupVars, tables, reads>>
  BY <1>1 DEF PrepareCreate, Begin, Call
<1>2. ASSUME NEW actor \in Users, NEW e \in ExpenseIds, NEW version \in 1..MaxVersion - 1,
             NEW g \in Groups, ReadForUpdate(c, actor, e, version, g)
      PROVE  calls' \in [Clients -> Call] /\ UNCHANGED <<groupVars, tables, reads>>
  <2>1. expenses[e] \in ExpenseRow /\ version \in Nat
    BY <1>2, MaxVersionAssumption DEF ReadForUpdate, IsTable
  <2>2. [op |-> "update", actor |-> actor, expense |-> e, version |-> version, group |-> g,
         row |-> expenses[e]] \in Call
    BY <2>1 DEF Call
  <2> QED
    BY <1>2, <2>2, CallTypes DEF ReadForUpdate
<1>3. ASSUME NEW input \in ExpenseInput, PrepareUpdate(c, input)
      PROVE  calls' \in [Clients -> Call] /\ UNCHANGED <<groupVars, tables, reads>>
  <2> DEFINE call == calls[c]
             new == [op |-> "prepared", actor |-> call.actor, expense |-> call.expense,
                     version |-> call.version, input |-> input, row |-> call.row]
  <2>1. new \in Call
    BY <1>3, LedgerCallShapes DEF PrepareUpdate, Call
  <2>2. calls' = [calls EXCEPT ![c] = new]
    BY <1>3 DEF PrepareUpdate
  <2> QED
    BY <1>3, <2>1, <2>2 DEF PrepareUpdate
<1>4. ASSUME NEW actor \in Users, NEW e \in ExpenseIds, LookupAdjustment(c, actor, e)
      PROVE  calls' \in [Clients -> Call] /\ UNCHANGED <<groupVars, tables, reads>>
  <2>1. role[expenses[e].group][actor] \in Role
    BY <1>4 DEF LookupAdjustment, IsTable, ExpenseRow, GroupTypeOK
  <2>2. [op |-> "adjust", actor |-> actor, expense |-> e,
         actorRole |-> role[expenses[e].group][actor]] \in Call
    BY <2>1 DEF Call
  <2> QED
    BY <1>4, <2>2, CallTypes DEF LookupAdjustment
<1>5. CASE Fail(c)
  BY <1>5, CallTypes DEF Fail, Call
<1> QED
  BY <1>1, <1>2, <1>3, <1>4, <1>5

LEMMA ReadersOnlyRead ==
  ReadNext => UNCHANGED <<groupVars, tables, calls>>
BY DEF ReadNext, ReadExpenseRow, LoadExpenseDetails, BeginLoadLedger, LoadLedgerStep,
       LedgerStatement, EndRead

LEMMA LedgerStepTypes ==
  ASSUME LedgerInv, [Next]_vars
  PROVE  TypeOK' /\ Received'
<1> USE DEF LedgerInv
<1>1. GroupTypeOK'
  BY StepGroups, StepTypes DEF GroupInv
<1>2. CASE UNCHANGED <<tables, calls>>
  BY <1>1, <1>2 DEF TypeOK, IsTable, Received, tables
<1>3. CASE UNCHANGED vars \/ (GroupNext /\ UNCHANGED ledgerVars) \/ ReadNext
  BY <1>2, <1>3, ReadersOnlyRead DEF vars, ledgerVars, tables
<1>4. CASE ExpenseNext
  <2>1. PICK c \in Clients :
          \/ \E actor \in Users, input \in ExpenseInput : PrepareCreate(c, actor, input)
          \/ \E e \in ExpenseIds : CreateExpense(c, e)
          \/ \E actor \in Users, e \in ExpenseIds, version \in 1..MaxVersion - 1, g \in Groups :
               ReadForUpdate(c, actor, e, version, g)
          \/ \E input \in ExpenseInput : PrepareUpdate(c, input)
          \/ UpdateExpense(c)
          \/ Fail(c)
    BY <1>4 DEF ExpenseNext
  <2>2. CASE UNCHANGED tables /\ calls' \in [Clients -> Call]
    BY <1>1, <2>2 DEF TypeOK, IsTable, Received, tables
  <2>3. ASSUME NEW e \in ExpenseIds, CreateExpense(c, e)
        PROVE  TypeOK' /\ Received'
    BY <1>1, <2>3, CreateExpenseTypes DEF TypeOK, CreateExpense, IsTable, Received
  <2>4. CASE UpdateExpense(c)
    BY <1>1, <2>4, UpdateExpenseTypes DEF TypeOK, UpdateExpense, IsTable, Received
  <2> QED
    BY <2>1, <2>2, <2>3, <2>4, ReadingTypes
<1>5. CASE StatusNext
  <2>1. PICK actor \in Users, e \in ExpenseIds, target \in {"confirmed", "cancelled"} :
          ChangeExpenseStatus(actor, e, target)
    BY <1>5 DEF StatusNext
  <2> QED
    BY <1>1, <2>1, StatusTypes DEF TypeOK, ChangeExpenseStatus, IsTable, Received
<1>6. CASE AdjustmentNext
  <2>1. PICK c \in Clients :
          \/ \E actor \in Users, e \in ExpenseIds : LookupAdjustment(c, actor, e)
          \/ \E a \in AdjustmentIds, input \in AdjustmentInput : CreateAdjustment(c, a, input)
    BY <1>6 DEF AdjustmentNext
  <2>2. ASSUME NEW a \in AdjustmentIds, NEW input \in AdjustmentInput,
               CreateAdjustment(c, a, input)
        PROVE  TypeOK' /\ Received'
    BY <1>1, <2>2, CreateAdjustmentTypes DEF TypeOK, CreateAdjustment, IsTable, Received
  <2>3. CASE UNCHANGED tables /\ calls' \in [Clients -> Call]
    BY <1>1, <2>3 DEF TypeOK, IsTable, Received, tables
  <2> QED
    BY <2>1, <2>2, <2>3, ReadingTypes
<1>7. CASE SettlementNext
  <2>1. ASSUME NEW s \in SettlementIds, NEW input \in SettlementInput,
               CreateSettlement(s, input)
        PROVE  TypeOK' /\ Received'
    BY <1>1, <2>1, CreateSettlementTypes DEF TypeOK, CreateSettlement, IsTable
  <2>2. ASSUME NEW actor \in Users, NEW s \in SettlementIds, ConfirmSettlement(actor, s)
        PROVE  TypeOK' /\ Received'
    BY <1>1, <2>2, ConfirmSettlementTypes DEF TypeOK, ConfirmSettlement, IsTable
  <2> QED
    BY <1>7, <2>1, <2>2 DEF SettlementNext
<1> QED
  BY <1>3, <1>4, <1>5, <1>6, <1>7 DEF Next

-----------------------------------------------------------------------------
(* What a step may do to an expense that exists *)

\* It stays in its group and with its creator; it is as it was, or it was pending and
\* has a new version.
Kept(e) ==
  LET old == expenses[e]
      new == expenses'[e]
  IN  /\ e \in DOMAIN expenses'
      /\ new.group = old.group /\ new.creator = old.creator
      /\ \/ new = old /\ allocations'[e] = allocations[e]
         \/ old.status = "pending" /\ new.version = old.version + 1

LEMMA StepKeeps ==
  ASSUME LedgerInv, [Next]_vars, NEW e \in DOMAIN expenses
  PROVE  Kept(e)
<1> USE DEF LedgerInv, TypeOK
<1>1. CASE UNCHANGED <<expenses, allocations>>
  BY <1>1 DEF Kept
<1>2. ASSUME NEW c \in Clients, NEW n \in ExpenseIds, CreateExpense(c, n)
      PROVE  Kept(e)
  BY <1>2, Inserted DEF CreateExpense, IsNextId, Kept, Insert
<1>3. ASSUME NEW c \in Clients, UpdateExpense(c)
      PROVE  Kept(e)
  <2> DEFINE n == calls[c].expense
             row == UpdatedRow(expenses[n], calls[c].input)
  <2>1. calls[c].input \in ExpenseInput /\ n \in DOMAIN expenses /\ expenses[n] \in ExpenseRow
    BY <1>3, LedgerCallShapes DEF UpdateExpense, CallsRead, IsTable
  <2>2. /\ row.group = expenses[n].group /\ row.creator = expenses[n].creator
        /\ row.version = expenses[n].version + 1 /\ expenses[n].status = "pending"
    BY <1>3, <2>1, UpdatedShape DEF UpdateExpense, UpdateMatches
  <2>3. /\ expenses' = [expenses EXCEPT ![n] = row]
        /\ allocations' = [allocations EXCEPT ![n] = calls[c].input.drafts]
    BY <1>3 DEF UpdateExpense
  <2> HIDE DEF row
  <2> QED
    BY <2>1, <2>2, <2>3 DEF Kept
<1>4. ASSUME NEW actor \in Users, NEW n \in ExpenseIds,
             NEW target \in {"confirmed", "cancelled"}, ChangeExpenseStatus(actor, n, target)
      PROVE  Kept(e)
  <2> DEFINE row == StatusChanged(expenses[n], target)
  <2>1. n \in DOMAIN expenses /\ expenses[n] \in ExpenseRow
    BY <1>4 DEF ChangeExpenseStatus, IsTable
  <2>2. expenses[n].status = "pending"
    BY <1>4 DEF ChangeExpenseStatus, ValidateExpenseTransition
  <2>3. /\ row.group = expenses[n].group /\ row.creator = expenses[n].creator
        /\ row.version = expenses[n].version + 1
    <3>1. row = [group |-> expenses[n].group, payer |-> expenses[n].payer,
                 creator |-> expenses[n].creator, amount |-> expenses[n].amount,
                 currency |-> expenses[n].currency, status |-> target,
                 version |-> expenses[n].version + 1]
      BY <2>1, StatusShape
    <3> HIDE DEF row
    <3> QED
      BY <3>1
  <2>4. expenses' = [expenses EXCEPT ![n] = row] /\ allocations' = allocations
    BY <1>4 DEF ChangeExpenseStatus
  <2> HIDE DEF row
  <2> QED
    BY <2>1, <2>2, <2>3, <2>4 DEF Kept
<1>5. CASE ExpenseNext
  <2>1. PICK c \in Clients :
          \/ \E actor \in Users, input \in ExpenseInput : PrepareCreate(c, actor, input)
          \/ \E n \in ExpenseIds : CreateExpense(c, n)
          \/ \E actor \in Users, n \in ExpenseIds, version \in 1..MaxVersion - 1, g \in Groups :
               ReadForUpdate(c, actor, n, version, g)
          \/ \E input \in ExpenseInput : PrepareUpdate(c, input)
          \/ UpdateExpense(c)
          \/ Fail(c)
    BY <1>5 DEF ExpenseNext
  <2> QED
    BY <1>1, <1>2, <1>3, <2>1, ReadingTypes DEF tables
<1>6. CASE StatusNext
  BY <1>4, <1>6 DEF StatusNext
<1>7. CASE AdjustmentNext
  BY <1>1, <1>7 DEF AdjustmentNext, LookupAdjustment, CreateAdjustment, tables
<1>8. CASE SettlementNext
  BY <1>1, <1>8 DEF SettlementNext, CreateSettlement, ConfirmSettlement
<1> QED
  BY <1>1, <1>5, <1>6, <1>7, <1>8, ReadersOnlyRead DEF Next, vars, ledgerVars, tables

-----------------------------------------------------------------------------
(* The inductive invariant *)

\* A call that is open after a step was open before it with what it has read, or
\* has just read it.
JustRead(call) ==
  \/ call.op \in {"none", "create"}
  \/ /\ call.op = "update"
     /\ call.expense \in DOMAIN expenses /\ expenses[call.expense] = call.row
     /\ call.row.status = "pending" /\ call.row.version = call.version
     /\ call.group = call.row.group
  \/ /\ call.op = "adjust"
     /\ call.expense \in DOMAIN expenses
     /\ IsMember(expenses[call.expense].group, call.actor)

Prepared(call, old) ==
  /\ call.op = "prepared" /\ old.op = "update"
  /\ call.expense = old.expense /\ call.version = old.version /\ call.row = old.row
  /\ call.input.group = old.group

LEMMA StepLedgerCalls ==
  ASSUME LedgerInv, [Next]_vars, NEW c \in Clients
  PROVE  \/ calls'[c] = calls[c]
         \/ calls'[c].op \in {"none", "create"}
         \/ UNCHANGED <<groupVars, tables>> /\ JustRead(calls'[c])
         \/ UNCHANGED <<groupVars, tables>> /\ Prepared(calls'[c], calls[c])
<1> USE DEF LedgerInv, TypeOK
<1>1. CASE calls' = calls
  BY <1>1
<1>2. ASSUME NEW d \in Clients, Return(d)
      PROVE  calls'[c] = calls[c] \/ calls'[c].op = "none"
  BY <1>2 DEF Return, NoCall
<1>3. ASSUME NEW d \in Clients, NEW actor \in Users, NEW input \in ExpenseInput,
             PrepareCreate(d, actor, input)
      PROVE  calls'[c] = calls[c] \/ calls'[c].op = "create"
  BY <1>3 DEF PrepareCreate, Begin
<1>4. ASSUME NEW d \in Clients, NEW actor \in Users, NEW e \in ExpenseIds,
             NEW version \in 1..MaxVersion - 1, NEW g \in Groups,
             ReadForUpdate(d, actor, e, version, g)
      PROVE  calls'[c] = calls[c] \/ JustRead(calls'[c])
  BY <1>4 DEF ReadForUpdate, Begin, ValidateExpenseUpdate, JustRead
<1>5. ASSUME NEW d \in Clients, NEW input \in ExpenseInput, PrepareUpdate(d, input)
      PROVE  calls'[c] = calls[c] \/ Prepared(calls'[c], calls[c])
  BY <1>5 DEF PrepareUpdate, Prepared
<1>6. ASSUME NEW d \in Clients, NEW actor \in Users, NEW e \in ExpenseIds,
             LookupAdjustment(d, actor, e)
      PROVE  calls'[c] = calls[c] \/ JustRead(calls'[c])
  BY <1>6 DEF LookupAdjustment, Begin, JustRead
<1>7. CASE ExpenseNext
  <2>1. PICK d \in Clients :
          \/ \E actor \in Users, input \in ExpenseInput : PrepareCreate(d, actor, input)
          \/ \E n \in ExpenseIds : CreateExpense(d, n)
          \/ \E actor \in Users, n \in ExpenseIds, version \in 1..MaxVersion - 1, g \in Groups :
               ReadForUpdate(d, actor, n, version, g)
          \/ \E input \in ExpenseInput : PrepareUpdate(d, input)
          \/ UpdateExpense(d)
          \/ Fail(d)
    BY <1>7 DEF ExpenseNext
  <2>2. CASE (\E n \in ExpenseIds : CreateExpense(d, n)) \/ UpdateExpense(d) \/ Fail(d)
    BY <1>2, <2>2 DEF CreateExpense, UpdateExpense, Fail
  <2> QED
    BY <1>3, <1>4, <1>5, <2>1, <2>2, ReadingTypes
<1>8. CASE AdjustmentNext
  <2>1. PICK d \in Clients :
          \/ \E actor \in Users, e \in ExpenseIds : LookupAdjustment(d, actor, e)
          \/ \E a \in AdjustmentIds, input \in AdjustmentInput : CreateAdjustment(d, a, input)
    BY <1>8 DEF AdjustmentNext
  <2>2. CASE \E a \in AdjustmentIds, input \in AdjustmentInput : CreateAdjustment(d, a, input)
    BY <1>2, <2>2 DEF CreateAdjustment
  <2> QED
    BY <1>6, <2>1, <2>2, ReadingTypes
<1>9. CASE StatusNext \/ SettlementNext
  BY <1>1, <1>9 DEF StatusNext, ChangeExpenseStatus, SettlementNext, CreateSettlement,
                    ConfirmSettlement
<1> QED
  BY <1>1, <1>7, <1>8, <1>9, ReadersOnlyRead DEF Next, vars, ledgerVars

LEMMA StepCallsRead == LedgerInv /\ [Next]_vars => CallsRead'
<1> SUFFICES ASSUME LedgerInv, [Next]_vars, NEW c \in Clients
             PROVE  LET call == calls'[c]
                        now  == expenses'[call.expense]
                    IN  /\ call.op \in {"update", "prepared"} =>
                             /\ call.expense \in DOMAIN expenses'
                             /\ call.row.status = "pending" /\ call.row.version = call.version
                             /\ call.version <= now.version
                             /\ call.version = now.version => now = call.row
                             /\ now.group = call.row.group /\ now.creator = call.row.creator
                        /\ call.op = "update" => call.group = call.row.group
                        /\ call.op = "prepared" => call.input.group = call.row.group
                        /\ call.op = "adjust" =>
                             /\ call.expense \in DOMAIN expenses'
                             /\ (role'[now.group][call.actor] # "none")
  BY DEF CallsRead, IsMember
<1> USE DEF LedgerInv, TypeOK
<1> DEFINE call == calls[c]
           e    == call.expense
<1>1. CASE calls'[c] = calls[c]
  <2>1. CASE call.op \in {"update", "prepared"}
    <3>1. e \in DOMAIN expenses /\ Kept(e)
      BY <2>1, StepKeeps DEF CallsRead
    <3>2. call.version \in Nat /\ expenses[e].version \in Nat
      BY <2>1, <3>1, LedgerCallShapes DEF IsTable, ExpenseRow
    <3> QED
      BY <1>1, <2>1, <3>1, <3>2 DEF CallsRead, Kept
  <2>2. CASE call.op = "adjust"
    <3>1. /\ e \in DOMAIN expenses /\ Kept(e)
          /\ call.actor \in Users /\ expenses[e].group \in Groups
      BY <2>2, StepKeeps, LedgerCallShapes DEF CallsRead, IsTable, ExpenseRow
    <3>2. role'[expenses[e].group][call.actor] # "none"
      BY <2>2, <3>1, MembersStay, StepGroups DEF CallsRead, IsMember
    <3> QED
      BY <1>1, <2>2, <3>1, <3>2 DEF Kept
  <2> QED
    BY <1>1, <2>1, <2>2
<1>2. CASE calls'[c].op \in {"none", "create"}
  BY <1>2
<1>3. CASE UNCHANGED <<groupVars, tables>> /\ JustRead(calls'[c])
  <2>1. \A n \in DOMAIN expenses : expenses[n].version \in Nat
    BY DEF IsTable, ExpenseRow
  <2> QED
    BY <1>3, <2>1 DEF JustRead, tables, groupVars, IsMember
<1>4. CASE UNCHANGED <<groupVars, tables>> /\ Prepared(calls'[c], calls[c])
  BY <1>4 DEF Prepared, CallsRead, tables
<1> QED
  BY <1>1, <1>2, <1>3, <1>4, StepLedgerCalls

LEMMA LedgerStepInv == LedgerInv /\ [Next]_vars => LedgerInv'
<1>1. LedgerInv /\ [Next]_vars => GroupInv'
  BY StepGroups, StepInv DEF LedgerInv
<1> QED
  BY <1>1, LedgerStepTypes, StepCallsRead DEF LedgerInv

THEOREM LedgerInvariant == Spec => []LedgerInv
BY LedgerInitInv, LedgerStepInv, PTL DEF Spec

\* The tables of Core, its audit log and the requests under way always have their types.
THEOREM LedgerTypeCorrect == Spec => []TypeOK
<1>1. LedgerInv => TypeOK
  BY DEF LedgerInv
<1> QED
  BY <1>1, LedgerInvariant, PTL

-----------------------------------------------------------------------------
(* Updates *)

\* No update is lost: the row an update replaces is the one its caller had read.
THEOREM NoUpdateLost == Spec => NoLostUpdate
<1> DEFINE Replaces == \A c \in Clients :
       UpdateExpense(c) =>
         LET old == calls[c].row
             new == expenses'[calls[c].expense]
         IN  /\ expenses[calls[c].expense] = old
             /\ new.version = old.version + 1
             /\ new.group = old.group /\ new.creator = old.creator
<1>1. LedgerInv /\ [Next]_vars => Replaces
  <2> SUFFICES ASSUME LedgerInv, NEW c \in Clients, UpdateExpense(c)
               PROVE  LET old == calls[c].row
                          new == expenses'[calls[c].expense]
                      IN  /\ expenses[calls[c].expense] = old
                          /\ new.version = old.version + 1
                          /\ new.group = old.group /\ new.creator = old.creator
    OBVIOUS
  <2> USE DEF LedgerInv, TypeOK
  <2> DEFINE e == calls[c].expense
             row == UpdatedRow(expenses[e], calls[c].input)
  <2>1. /\ e \in DOMAIN expenses /\ expenses[e] \in ExpenseRow
        /\ expenses[e] = calls[c].row /\ calls[c].input \in ExpenseInput
    BY LedgerCallShapes DEF UpdateExpense, UpdateMatches, CallsRead, IsTable
  <2>2. /\ row.group = expenses[e].group /\ row.creator = expenses[e].creator
        /\ row.version = expenses[e].version + 1
    BY <2>1, UpdatedShape
  <2>3. expenses'[e] = row
    BY <2>1 DEF UpdateExpense
  <2> QED
    BY <2>1, <2>2, <2>3
<1> QED
  BY <1>1, LedgerInvariant, PTL DEF Spec, NoLostUpdate

-----------------------------------------------------------------------------
(* Allocations *)

Balanced(e) ==
  /\ SumFunction(allocations[e]) = expenses[e].amount
  /\ \A u \in DOMAIN allocations[e] \cup {expenses[e].payer} : IsMember(expenses[e].group, u)

LEMMA ExpenseUsers ==
  ASSUME TypeOK, NEW e \in DOMAIN expenses
  PROVE  /\ e \in ExpenseIds /\ expenses[e] \in ExpenseRow
         /\ allocations[e] \in Allocation
         /\ DOMAIN allocations[e] \cup {expenses[e].payer} \subseteq Users
         /\ expenses[e].group \in Groups
<1>1. e \in ExpenseIds /\ expenses[e] \in ExpenseRow /\ allocations[e] \in Allocation
  BY DEF TypeOK, IsTable
<1>2. PICK amount \in Amounts : allocations[e] \in Proposals(amount)
  BY <1>1 DEF Allocation
<1> QED
  BY <1>1, <1>2, ProposalShape DEF ExpenseRow

\* An expense that is as it was keeps its balance: its members stay.
LEMMA KeptBalance ==
  ASSUME LedgerInv, [Next]_vars, NEW e \in DOMAIN expenses, Balanced(e),
         expenses'[e] = expenses[e], allocations'[e] = allocations[e]
  PROVE  Balanced(e)'
<1>1. \A u \in DOMAIN allocations[e] \cup {expenses[e].payer} : IsMember(expenses[e].group, u)'
  BY ExpenseUsers, MembersStay, StepGroups DEF LedgerInv, Balanced
<1> QED
  BY <1>1 DEF Balanced, IsMember

LEMMA StepBalanced ==
  ASSUME LedgerInv, [Next]_vars, AllocationsBalance, NEW e \in DOMAIN expenses'
  PROVE  Balanced(e)'
<1> USE DEF LedgerInv
<1>1. ASSUME e \in DOMAIN expenses, expenses'[e] = expenses[e],
             allocations'[e] = allocations[e]
      PROVE  Balanced(e)'
  BY <1>1, KeptBalance DEF AllocationsBalance, Balanced
<1>2. CASE UNCHANGED <<expenses, allocations>>
  BY <1>1, <1>2
<1>3. ASSUME NEW c \in Clients, NEW n \in ExpenseIds, CreateExpense(c, n)
      PROVE  Balanced(e)'
  <2> DEFINE input == calls[c].input
  <2>1. CASE e = n
    <3>1. input \in ExpenseInput
      BY <1>3, LedgerCallShapes DEF CreateExpense, TypeOK
    <3>2. /\ expenses'[e].amount = input.amount /\ expenses'[e].payer = input.payer
          /\ expenses'[e].group = input.group /\ allocations'[e] = input.drafts
          /\ UNCHANGED groupVars
      <4>1. /\ expenses' = Insert(expenses, n,
                  [group |-> input.group, payer |-> input.payer, creator |-> calls[c].actor,
                   amount |-> input.amount, currency |-> input.currency,
                   status |-> "pending", version |-> 1])
            /\ allocations' = Insert(allocations, n, input.drafts) /\ UNCHANGED groupVars
        BY <1>3 DEF CreateExpense
      <4> QED
        BY <2>1, <4>1 DEF Insert
    <3>3. \A u \in DOMAIN input.drafts \cup {input.payer} : IsMember(input.group, u)
      BY <1>3 DEF CreateExpense, EnsureExpenseWriteAllowed, PrepareAllowed, Involved
    <3> QED
      BY <3>1, <3>2, <3>3, InputShape DEF Balanced, IsMember, groupVars
  <2>2. CASE e # n
    <3>1. e \in DOMAIN expenses /\ expenses'[e] = expenses[e] /\ allocations'[e] = allocations[e]
      BY <1>3, <2>2 DEF CreateExpense, Insert, TypeOK
    <3> QED
      BY <1>1, <3>1
  <2> QED
    BY <2>1, <2>2
<1>4. ASSUME NEW c \in Clients, UpdateExpense(c)
      PROVE  Balanced(e)'
  <2> DEFINE n == calls[c].expense
             input == calls[c].input
             row == UpdatedRow(expenses[n], input)
  <2>1. /\ input \in ExpenseInput /\ n \in DOMAIN expenses
        /\ input.group = expenses[n].group
    BY <1>4, LedgerCallShapes DEF UpdateExpense, CallsRead, TypeOK
  <2>2. /\ expenses' = [expenses EXCEPT ![n] = row]
        /\ allocations' = [allocations EXCEPT ![n] = input.drafts]
        /\ UNCHANGED groupVars
    BY <1>4 DEF UpdateExpense
  <2>3. /\ row.amount = input.amount /\ row.payer = input.payer /\ row.group = input.group
    BY <2>1, UpdatedShape, ExpenseUsers
  <2> HIDE DEF row
  <2>4. CASE e = n
    <3>1. \A u \in DOMAIN input.drafts \cup {input.payer} : IsMember(input.group, u)
      BY <1>4 DEF UpdateExpense, EnsureExpenseWriteAllowed, PrepareAllowed, Involved
    <3>2. expenses'[e] = row /\ allocations'[e] = input.drafts
      BY <2>1, <2>2, <2>4 DEF TypeOK
    <3> QED
      BY <2>1, <2>2, <2>3, <3>1, <3>2, InputShape DEF Balanced, IsMember, groupVars
  <2>5. CASE e # n
    BY <1>1, <2>2, <2>5
  <2> QED
    BY <2>4, <2>5
<1>5. ASSUME NEW actor \in Users, NEW n \in ExpenseIds,
             NEW target \in {"confirmed", "cancelled"}, ChangeExpenseStatus(actor, n, target)
      PROVE  Balanced(e)'
  <2> DEFINE row == StatusChanged(expenses[n], target)
  <2>1. n \in DOMAIN expenses /\ expenses' = [expenses EXCEPT ![n] = row]
        /\ allocations' = allocations /\ UNCHANGED groupVars
    BY <1>5 DEF ChangeExpenseStatus
  <2>2. /\ row.amount = expenses[n].amount /\ row.payer = expenses[n].payer
        /\ row.group = expenses[n].group
    <3>1. row = [group |-> expenses[n].group, payer |-> expenses[n].payer,
                 creator |-> expenses[n].creator, amount |-> expenses[n].amount,
                 currency |-> expenses[n].currency, status |-> target,
                 version |-> expenses[n].version + 1]
      BY <2>1, StatusShape, ExpenseUsers
    <3> HIDE DEF row
    <3> QED
      BY <3>1
  <2> HIDE DEF row
  <2> QED
    BY <2>1, <2>2 DEF Balanced, IsMember, groupVars, AllocationsBalance
<1>6. CASE ExpenseNext
  <2>1. PICK c \in Clients :
          \/ \E actor \in Users, input \in ExpenseInput : PrepareCreate(c, actor, input)
          \/ \E n \in ExpenseIds : CreateExpense(c, n)
          \/ \E actor \in Users, n \in ExpenseIds, version \in 1..MaxVersion - 1, g \in Groups :
               ReadForUpdate(c, actor, n, version, g)
          \/ \E input \in ExpenseInput : PrepareUpdate(c, input)
          \/ UpdateExpense(c)
          \/ Fail(c)
    BY <1>6 DEF ExpenseNext
  <2> QED
    BY <1>2, <1>3, <1>4, <2>1, ReadingTypes DEF tables
<1>7. CASE StatusNext
  BY <1>5, <1>7 DEF StatusNext
<1>8. CASE AdjustmentNext
  BY <1>2, <1>8 DEF AdjustmentNext, LookupAdjustment, CreateAdjustment, tables
<1>9. CASE SettlementNext
  BY <1>2, <1>9 DEF SettlementNext, CreateSettlement, ConfirmSettlement
<1> QED
  BY <1>2, <1>6, <1>7, <1>8, <1>9, ReadersOnlyRead DEF Next, vars, ledgerVars, tables

\* The parts of an expense add up to its amount and belong to members of its group,
\* whatever changed while the request was being prepared.
THEOREM AllocationsAlwaysBalance == Spec => []AllocationsBalance
<1>1. Init => AllocationsBalance
  BY DEF Init, LedgerInit, AllocationsBalance
<1>2. LedgerInv /\ AllocationsBalance /\ [Next]_vars => AllocationsBalance'
  <2> SUFFICES ASSUME LedgerInv, AllocationsBalance, [Next]_vars
               PROVE  AllocationsBalance'
    OBVIOUS
  <2>1. \A e \in DOMAIN expenses' : Balanced(e)'
    BY StepBalanced
  <2> QED
    BY <2>1 DEF AllocationsBalance, Balanced
<1> QED
  BY <1>1, <1>2, LedgerInvariant, PTL DEF Spec

-----------------------------------------------------------------------------
(* Adjustments *)

AdjustmentsBelong == \A a \in DOMAIN adjustments : AdjustmentFits(adjustments[a])

\* What an adjustment says of its expense stays true: a confirmed expense is never
\* changed again and nobody leaves its group.
LEMMA KeptAdjustment ==
  ASSUME LedgerInv, [Next]_vars, NEW row \in AdjustmentRow, AdjustmentFits(row)
  PROVE  AdjustmentFits(row)'
<1> USE DEF LedgerInv
<1>1. /\ row.expense \in DOMAIN expenses' /\ expenses'[row.expense] = expenses[row.expense]
  BY StepKeeps DEF AdjustmentFits, Kept
<1>2. DOMAIN row.alloc \subseteq Users /\ row.group \in Groups
  <2>1. PICK amount \in Amounts : row.alloc \in Proposals(amount)
    BY DEF AdjustmentRow, Allocation
  <2> QED
    BY <2>1, ProposalShape DEF AdjustmentRow
<1>3. \A u \in DOMAIN row.alloc : IsMember(row.group, u)'
  BY <1>2, MembersStay, StepGroups DEF AdjustmentFits
<1> QED
  BY <1>1, <1>3 DEF AdjustmentFits, IsMember

\* Every adjustment belongs to a confirmed expense of its group and currency and is
\* divided among members.
THEOREM AdjustmentsAlwaysBelong == Spec => []AdjustmentsBelong
<1>1. Init => AdjustmentsBelong
  BY DEF Init, LedgerInit, AdjustmentsBelong
<1>2. LedgerInv /\ AdjustmentsBelong /\ [Next]_vars => AdjustmentsBelong'
  <2> SUFFICES ASSUME LedgerInv, AdjustmentsBelong, [Next]_vars, NEW a \in DOMAIN adjustments'
               PROVE  AdjustmentFits(adjustments[a])'
    BY Zenon DEF AdjustmentsBelong
  <2> USE DEF LedgerInv
  <2>1. ASSUME a \in DOMAIN adjustments, adjustments'[a] = adjustments[a]
        PROVE  AdjustmentFits(adjustments[a])'
    <3>1. adjustments[a] \in AdjustmentRow /\ AdjustmentFits(adjustments[a])
      BY <2>1 DEF AdjustmentsBelong, TypeOK, IsTable
    <3>2. \A row \in AdjustmentRow : AdjustmentFits(row) => AdjustmentFits(row)'
      BY KeptAdjustment
    <3> QED
      BY <2>1, <3>1, <3>2 DEF AdjustmentFits
  <2>2. CASE UNCHANGED adjustments
    BY <2>1, <2>2
  <2>3. ASSUME NEW c \in Clients, NEW n \in AdjustmentIds, NEW input \in AdjustmentInput,
               CreateAdjustment(c, n, input)
        PROVE  AdjustmentFits(adjustments[a])'
    <3>1. CASE a = n
      <4> DEFINE e == calls[c].expense
      <4>1. /\ e \in DOMAIN expenses /\ UNCHANGED <<groupVars, expenses>>
            /\ adjustments'[a] =
                 [group |-> expenses[e].group, expense |-> e, type |-> input.type,
                  amount |-> input.amount, currency |-> input.currency,
                  creator |-> calls[c].actor, alloc |-> input.alloc]
        BY <2>3, <3>1 DEF CreateAdjustment, CallsRead, Insert
      <4>2. /\ input.currency = expenses[e].currency /\ expenses[e].status = "confirmed"
            /\ \A u \in DOMAIN input.alloc : IsMember(expenses[e].group, u)
            /\ SumFunction(input.alloc) = input.amount
        BY <2>3 DEF CreateAdjustment, MayAdjust, BalancedOver
      <4> QED
        BY <4>1, <4>2 DEF AdjustmentFits, IsMember, groupVars
    <3>2. CASE a # n
      <4>1. a \in DOMAIN adjustments /\ adjustments'[a] = adjustments[a]
        BY <2>3, <3>2 DEF CreateAdjustment, Insert
      <4> QED
        BY <2>1, <4>1
    <3> QED
      BY <3>1, <3>2
  <2>4. CASE ExpenseNext
    BY <2>2, <2>4, ReadingTypes DEF ExpenseNext, CreateExpense, UpdateExpense, tables
  <2>5. CASE StatusNext \/ SettlementNext
    BY <2>2, <2>5 DEF StatusNext, ChangeExpenseStatus, SettlementNext, CreateSettlement,
                      ConfirmSettlement
  <2>6. CASE AdjustmentNext
    BY <2>2, <2>3, <2>6 DEF AdjustmentNext, LookupAdjustment, tables
  <2> QED
    BY <2>2, <2>4, <2>5, <2>6, ReadersOnlyRead DEF Next, vars, ledgerVars, tables
<1> QED
  BY <1>1, <1>2, LedgerInvariant, PTL DEF Spec

-----------------------------------------------------------------------------
(* Refunds *)

\* Only finitely many rows have ever been inserted.
FiniteTables ==
  IsFiniteSet(DOMAIN expenses) /\ IsFiniteSet(DOMAIN settlements) /\ IsFiniteSet(DOMAIN adjustments)

\* A step inserts at most one row.
LEMMA TablesGrow ==
  ASSUME LedgerInv, [Next]_vars
  PROVE  /\ \E e : DOMAIN expenses' \subseteq DOMAIN expenses \cup {e}
         /\ \E s : DOMAIN settlements' \subseteq DOMAIN settlements \cup {s}
         /\ \E a : DOMAIN adjustments' \subseteq DOMAIN adjustments \cup {a}
<1>1. CASE UNCHANGED <<expenses, settlements, adjustments>>
  BY <1>1
<1>2. ASSUME NEW c \in Clients, NEW e \in ExpenseIds, CreateExpense(c, e)
      PROVE  DOMAIN expenses' = DOMAIN expenses \cup {e} /\ UNCHANGED <<settlements, adjustments>>
  BY <1>2 DEF CreateExpense, Insert
<1>3. ASSUME NEW c \in Clients, UpdateExpense(c)
      PROVE  DOMAIN expenses' = DOMAIN expenses /\ UNCHANGED <<settlements, adjustments>>
  BY <1>3 DEF UpdateExpense
<1>4. CASE ExpenseNext
  <2>1. PICK c \in Clients :
          \/ \E actor \in Users, input \in ExpenseInput : PrepareCreate(c, actor, input)
          \/ \E n \in ExpenseIds : CreateExpense(c, n)
          \/ \E actor \in Users, n \in ExpenseIds, version \in 1..MaxVersion - 1, g \in Groups :
               ReadForUpdate(c, actor, n, version, g)
          \/ \E input \in ExpenseInput : PrepareUpdate(c, input)
          \/ UpdateExpense(c)
          \/ Fail(c)
    BY <1>4 DEF ExpenseNext
  <2> QED
    BY <1>1, <1>2, <1>3, <2>1, ReadingTypes DEF tables
<1>5. CASE StatusNext
  BY <1>5 DEF StatusNext, ChangeExpenseStatus
<1>6. CASE AdjustmentNext
  BY <1>1, <1>6 DEF AdjustmentNext, LookupAdjustment, CreateAdjustment, Insert, tables
<1>7. CASE SettlementNext
  BY <1>7 DEF SettlementNext, CreateSettlement, ConfirmSettlement, Insert
<1> QED
  BY <1>1, <1>4, <1>5, <1>6, <1>7, ReadersOnlyRead DEF Next, vars, ledgerVars, tables

LEMMA FiniteStep == LedgerInv /\ FiniteTables /\ [Next]_vars => FiniteTables'
<1> SUFFICES ASSUME LedgerInv, FiniteTables, [Next]_vars
             PROVE  FiniteTables'
  OBVIOUS
<1>1. \A S, T, x : IsFiniteSet(S) /\ T \subseteq S \cup {x} => IsFiniteSet(T)
  BY FS_AddElement, FS_Subset
<1> QED
  BY <1>1, TablesGrow DEF FiniteTables

THEOREM TablesFinite == Spec => []FiniteTables
<1>1. Init => FiniteTables
  BY FS_EmptySet DEF Init, LedgerInit, FiniteTables
<1> QED
  BY <1>1, FiniteStep, LedgerInvariant, PTL DEF Spec

\* The refunds of an expense, summed up.
LEMMA RefundedIs ==
  ASSUME TypeOK, FiniteTables, NEW e
  PROVE  /\ Refunded(e) = SumOver([a \in Refunds(e) |-> adjustments[a].amount], Refunds(e))
         /\ IsFiniteSet(Refunds(e))
         /\ \A a \in Refunds(e) : adjustments[a].amount \in Int
         /\ Refunded(e) \in Int
         /\ Refunds(e) = {} => Refunded(e) = 0
<1> DEFINE f == [a \in Refunds(e) |-> adjustments[a].amount]
<1>1. Refunded(e) = SumOver(f, Refunds(e))
  BY SumIs DEF Refunded
<1>2. IsFiniteSet(Refunds(e))
  BY FS_Subset DEF Refunds, FiniteTables
<1>3. \A a \in Refunds(e) : adjustments[a].amount \in Int /\ f[a] \in Int
  BY AmountsAssumption DEF Refunds, TypeOK, IsTable, AdjustmentRow
<1>4. SumOver(f, Refunds(e)) \in Int
  BY <1>2, <1>3, SumInt
<1>5. Refunds(e) = {} => SumOver(f, Refunds(e)) = 0
  BY SumEmpty
<1> QED
  BY <1>1, <1>2, <1>3, <1>4, <1>5

LEMMA StepRefunds ==
  ASSUME LedgerInv, FiniteTables, AdjustmentsFit, [Next]_vars, NEW e \in DOMAIN expenses'
  PROVE  Refunded(e)' <= expenses'[e].amount
<1> USE DEF LedgerInv
<1>0. TypeOK' /\ FiniteTables' /\ e \in ExpenseIds
      /\ expenses'[e].amount \in Nat /\ (e \in DOMAIN expenses => expenses[e].amount \in Nat)
  BY FiniteStep, LedgerStepTypes, AmountsAssumption DEF TypeOK, IsTable, ExpenseRow
\* An expense that may still be changed, or does not exist yet, has no refunds.
<1>1. e \notin DOMAIN expenses \/ expenses[e].status = "pending" => Refunds(e) = {}
  BY DEF AdjustmentsFit, AdjustmentFits, Refunds
<1>2. CASE UNCHANGED adjustments
  <2>1. Refunds(e)' = Refunds(e) /\ Refunded(e)' = Refunded(e)
    BY <1>2 DEF Refunds, Refunded
  <2>2. CASE e \notin DOMAIN expenses \/ expenses[e].status = "pending"
    <3>1. Refunded(e) = 0
      BY <2>2, <1>1, RefundedIs
    <3> QED
      BY <2>1, <3>1, <1>0
  <2>3. CASE e \in DOMAIN expenses /\ expenses[e].status # "pending"
    BY <2>1, <2>3, StepKeeps DEF Kept, AdjustmentsFit
  <2> QED
    BY <2>2, <2>3
<1>3. ASSUME NEW c \in Clients, NEW n \in AdjustmentIds, NEW input \in AdjustmentInput,
             CreateAdjustment(c, n, input)
      PROVE  Refunded(e)' <= expenses'[e].amount
  <2>0. input.amount \in Int
    <3>1. \A amount \in Amounts : amount \in Int
      BY AmountsAssumption
    <3>2. input.amount \in Amounts
      BY AdjustmentShape
    <3> QED
      BY <3>1, <3>2
  <2> DEFINE x == calls[c].expense
  <2>1. /\ n \notin DOMAIN adjustments /\ UNCHANGED expenses
        /\ adjustments' = Insert(adjustments, n,
             [group |-> expenses[x].group, expense |-> x, type |-> input.type,
              amount |-> input.amount, currency |-> input.currency,
              creator |-> calls[c].actor, alloc |-> input.alloc])
        /\ RefundFits(x, input)
    BY <1>3 DEF CreateAdjustment, IsNextId
  <2>2. /\ DOMAIN adjustments' = DOMAIN adjustments \cup {n}
        /\ adjustments'[n].expense = x /\ adjustments'[n].type = input.type
        /\ adjustments'[n].amount = input.amount
        /\ \A a \in DOMAIN adjustments : adjustments'[a] = adjustments[a]
    <3>1. PICK row : row = [group |-> expenses[x].group, expense |-> x, type |-> input.type,
                            amount |-> input.amount, currency |-> input.currency,
                            creator |-> calls[c].actor, alloc |-> input.alloc]
      OBVIOUS
    <3>2. row.expense = x /\ row.type = input.type /\ row.amount = input.amount
      BY <3>1
    <3>3. adjustments' = Insert(adjustments, n, row)
      BY <2>1, <3>1
    <3>4. /\ DOMAIN adjustments' = DOMAIN adjustments \cup {n} /\ adjustments'[n] = row
          /\ \A a \in DOMAIN adjustments : a # n => adjustments'[a] = adjustments[a]
      BY <3>3 DEF Insert
    <3> QED
      BY <2>1, <3>2, <3>4
  <2>3. CASE e # x \/ input.type # "refund"
    <3>1. Refunds(e)' = Refunds(e)
      BY <2>1, <2>2, <2>3 DEF Refunds
    <3>2. [a \in Refunds(e) |-> adjustments[a].amount]' = [a \in Refunds(e) |-> adjustments[a].amount]
      BY <3>1, <2>2 DEF Refunds
    <3>3. Refunded(e)' = Refunded(e)
      BY <3>2 DEF Refunded
    <3> QED
      BY <3>3, <2>1 DEF AdjustmentsFit
  <2>4. CASE e = x /\ input.type = "refund"
    <3>1. Refunds(e)' = Refunds(e) \cup {n} /\ n \notin Refunds(e)
      BY <2>1, <2>2, <2>4 DEF Refunds
    <3> DEFINE f == [a \in Refunds(e) |-> adjustments[a].amount]
               g == [a \in Refunds(e) |-> adjustments[a].amount]'
    <3>2. IsFiniteSet(Refunds(e)) /\ Refunded(e) = SumOver(f, Refunds(e))
          /\ \A a \in Refunds(e) : f[a] \in Int
      BY RefundedIs
    <3>3. Refunded(e)' = SumOver(g, Refunds(e) \cup {n})
      <4>1. Refunded(e)' = SumOver(g, Refunds(e)')
        BY SumIs DEF Refunded
      <4> QED
        BY <4>1, <3>1
    <3>4. g[n] = input.amount /\ \A a \in Refunds(e) : g[a] = f[a]
      BY <3>1, <2>2 DEF Refunds
    <3>5. input.amount \in Int
      BY <2>0
    <3>6. Refunded(e) \in Int
      BY RefundedIs
    <3> HIDE DEF f, g
    <3>7. SumOver(g, Refunds(e) \cup {n}) = input.amount + SumOver(g, Refunds(e))
      BY <3>1, <3>2, <3>4, <3>5, SumAdd
    <3>8. SumOver(g, Refunds(e)) = SumOver(f, Refunds(e))
      <4>1. \A a \in Refunds(e) : f[a] \in Int /\ f[a] = g[a]
        BY <3>2, <3>4
      <4> QED
        BY <4>1, <3>2, SumSame
    <3>9. Refunded(e)' = input.amount + Refunded(e)
      BY <3>2, <3>3, <3>7, <3>8
    <3>10. input.amount <= expenses[e].amount - Refunded(e) /\ expenses'[e] = expenses[e]
           /\ expenses[e].amount \in Int
      BY <1>0, <2>1, <2>4 DEF RefundFits
    <3> QED
      BY <3>5, <3>6, <3>9, <3>10
  <2> QED
    BY <2>3, <2>4
<1>4. CASE ExpenseNext
  BY <1>2, <1>4, ReadingTypes DEF ExpenseNext, CreateExpense, UpdateExpense, tables
<1>5. CASE StatusNext \/ SettlementNext
  BY <1>2, <1>5 DEF StatusNext, ChangeExpenseStatus, SettlementNext, CreateSettlement,
                    ConfirmSettlement
<1>6. CASE AdjustmentNext
  BY <1>2, <1>3, <1>6 DEF AdjustmentNext, LookupAdjustment, tables
<1> QED
  BY <1>2, <1>4, <1>5, <1>6, ReadersOnlyRead DEF Next, vars, ledgerVars, tables

\* However many refunds race, together they give back at most what was spent
\* (CreateAdjustment compares with the refunds it finds under the expense's lock).
THEOREM AdjustmentsAlwaysFit == Spec => []AdjustmentsFit
<1>1. Init => AdjustmentsFit
  BY DEF Init, LedgerInit, AdjustmentsFit
<1>2. /\ LedgerInv /\ FiniteTables /\ AdjustmentsBelong' /\ AdjustmentsFit /\ [Next]_vars
         => AdjustmentsFit'
  BY StepRefunds DEF AdjustmentsFit, AdjustmentsBelong
<1> QED
  BY <1>1, <1>2, LedgerInvariant, TablesFinite, AdjustmentsAlwaysBelong, PTL DEF Spec

-----------------------------------------------------------------------------
(* The audit log explains the ledger *)

\* A log that tells how an expense came to be this row.
Tells(log, row) ==
  /\ Len(log) = row.version
  /\ \A i \in DOMAIN log : log[i].version = i
  /\ log[1].action = "created"
  /\ \A i \in 2..Len(log) :
       log[i].action = IF i = Len(log) /\ row.status # "pending" THEN row.status ELSE "updated"

ExpenseStory(e) ==
  LET log == audit[<<"expense", e>>]
  IN  IF e \notin DOMAIN expenses THEN log = <<>> ELSE Tells(log, expenses[e])

\* AuditExplainsLedger says nothing of a settlement that has not been recorded.
SettlementStory(s) ==
  audit[<<"settlement", s>>] =
    IF s \notin DOMAIN settlements THEN <<>>
    ELSE IF settlements[s].status = "pending"
         THEN << [action |-> "created", version |-> 1] >>
         ELSE << [action |-> "created", version |-> 1],
                 [action |-> "confirmed", version |-> 2] >>

AuditInv ==
  (\A e \in ExpenseIds : ExpenseStory(e)) /\ (\A s \in SettlementIds : SettlementStory(s))

\* One more entry for one more version.
LEMMA TellsMore ==
  ASSUME NEW log \in Seq(Entry), NEW row, NEW new, row.version \in Nat \ {0},
         Tells(log, row), row.status = "pending", new.version = row.version + 1,
         NEW entry \in Entry, entry.version = row.version + 1,
         entry.action = IF new.status = "pending" THEN "updated" ELSE new.status
  PROVE  Tells(Append(log, entry), new)
<1> DEFINE n == Len(log)
           longer == Append(log, entry)
<1>1. /\ n \in Nat \ {0} /\ n = row.version
      /\ DOMAIN log = 1..n /\ DOMAIN longer = 1..(n + 1) /\ Len(longer) = n + 1
      /\ longer[n + 1] = entry /\ \A i \in 1..n : longer[i] = log[i]
  BY DEF Tells
<1> HIDE DEF longer, n
<1>2. \A i \in 1..n : log[i].version = i
  BY <1>1 DEF Tells
<1>3. \A i \in 2..n : log[i].action = "updated"
  BY <1>1 DEF Tells, n
<1>4. log[1].action = "created"
  BY DEF Tells
<1>5. \A i \in DOMAIN longer : longer[i].version = i
  <2> SUFFICES ASSUME NEW i \in 1..(n + 1) PROVE longer[i].version = i
    BY <1>1
  <2>1. CASE i = n + 1
    BY <1>1, <2>1
  <2>2. CASE i \in 1..n
    BY <1>1, <1>2, <2>2
  <2> QED
    BY <1>1, <2>1, <2>2
<1>6. longer[1].action = "created"
  BY <1>1, <1>4
<1>7. \A i \in 2..(n + 1) :
        longer[i].action =
          IF i = n + 1 /\ new.status # "pending" THEN new.status ELSE "updated"
  <2> SUFFICES ASSUME NEW i \in 2..(n + 1)
               PROVE  longer[i].action =
                        IF i = n + 1 /\ new.status # "pending" THEN new.status ELSE "updated"
    OBVIOUS
  <2>1. CASE i = n + 1
    BY <1>1, <2>1
  <2>2. CASE i \in 2..n
    BY <1>1, <1>3, <2>2
  <2> QED
    BY <1>1, <2>1, <2>2
<1>8. Tells(longer, new)
  BY <1>1, <1>5, <1>6, <1>7 DEF Tells
<1> QED
  BY <1>8 DEF longer

\* An entry about one row leaves the others' logs alone.
LEMMA Logged ==
  ASSUME audit \in [Entity -> Seq(Entry)], NEW entity \in Entity, NEW action, NEW version,
         Log(entity, action, version)
  PROVE  /\ audit'[entity] = Append(audit[entity], [action |-> action, version |-> version])
         /\ \A other \in Entity : other # entity => audit'[other] = audit[other]
BY DEF Log

LEMMA StepStories ==
  ASSUME LedgerInv, AuditInv, [Next]_vars
  PROVE  AuditInv'
<1> USE DEF LedgerInv, TypeOK
<1>0. /\ \A e \in ExpenseIds : <<"expense", e>> \in Entity
      /\ \A s \in SettlementIds : <<"settlement", s>> \in Entity
      /\ \A a \in AdjustmentIds : <<"adjustment", a>> \in Entity
      /\ \A e, s : <<"expense", e>> # <<"settlement", s>>
      /\ \A e, a : <<"expense", e>> # <<"adjustment", a>>
      /\ \A s, a : <<"settlement", s>> # <<"adjustment", a>>
      /\ \A e, n : e # n => <<"expense", e>> # <<"expense", n>>
      /\ \A s, n : s # n => <<"settlement", s>> # <<"settlement", n>>
  BY DEF Entity
<1>1. CASE UNCHANGED <<expenses, settlements, audit>>
  BY <1>1 DEF AuditInv, ExpenseStory, SettlementStory, Tells
<1>2. ASSUME NEW n \in ExpenseIds, UNCHANGED settlements,
             \A e \in ExpenseIds \ {n} :
               /\ e \in DOMAIN expenses' <=> e \in DOMAIN expenses
               /\ e \in DOMAIN expenses => expenses'[e] = expenses[e],
             n \in DOMAIN expenses', NEW action, NEW version,
             Log(<<"expense", n>>, action, version),
             Tells(Append(audit[<<"expense", n>>],
                          [action |-> action, version |-> version]), expenses'[n])
      PROVE  AuditInv'
  <2>1. /\ audit'[<<"expense", n>>] = Append(audit[<<"expense", n>>],
                                             [action |-> action, version |-> version])
        /\ \A e \in ExpenseIds \ {n} : audit'[<<"expense", e>>] = audit[<<"expense", e>>]
        /\ \A s \in SettlementIds : audit'[<<"settlement", s>>] = audit[<<"settlement", s>>]
    BY <1>0, <1>2, Logged
  <2>2. ASSUME NEW e \in ExpenseIds PROVE ExpenseStory(e)'
    <3>1. CASE e = n
      <4>1. Tells(audit'[<<"expense", n>>], expenses'[n])
        BY <1>2, <2>1
      <4>2. e \in DOMAIN expenses'
        BY <1>2, <3>1
      <4> QED
        BY <3>1, <4>1, <4>2 DEF ExpenseStory, Tells
    <3>2. CASE e # n /\ e \in DOMAIN expenses
      <4>1. /\ Tells(audit[<<"expense", e>>], expenses[e]) /\ e \in DOMAIN expenses'
            /\ audit'[<<"expense", e>>] = audit[<<"expense", e>>]
            /\ expenses'[e] = expenses[e]
        BY <1>2, <2>1, <3>2 DEF AuditInv, ExpenseStory
      <4> QED
        BY <4>1 DEF ExpenseStory, Tells
    <3>3. CASE e # n /\ e \notin DOMAIN expenses
      BY <1>2, <2>1, <3>3 DEF AuditInv, ExpenseStory
    <3> QED
      BY <3>1, <3>2, <3>3
  <2>3. \A s \in SettlementIds : SettlementStory(s)'
    BY <1>2, <2>1 DEF AuditInv, SettlementStory
  <2> QED
    BY <2>2, <2>3 DEF AuditInv
<1>3. ASSUME NEW c \in Clients, NEW n \in ExpenseIds, CreateExpense(c, n)
      PROVE  AuditInv'
  <2> DEFINE row == [group |-> calls[c].input.group, payer |-> calls[c].input.payer,
                     creator |-> calls[c].actor, amount |-> calls[c].input.amount,
                     currency |-> calls[c].input.currency,
                     status |-> "pending", version |-> 1]
             entry == [action |-> "created", version |-> 1]
  <2>1. /\ expenses' = Insert(expenses, n, row) /\ Log(<<"expense", n>>, "created", 1)
        /\ UNCHANGED settlements /\ n \notin DOMAIN expenses
    BY <1>3 DEF CreateExpense, IsNextId
  <2>2. audit[<<"expense", n>>] = <<>>
    BY <2>1 DEF AuditInv, ExpenseStory
  <2>3. entry \in Entry
    BY DEF Entry
  <2>4. Append(<<>>, entry) = <<entry>>
    BY <2>3
  <2>5. expenses'[n] = row /\ n \in DOMAIN expenses'
    BY <2>1 DEF Insert
  <2>6. Tells(<<entry>>, row)
    BY <2>3 DEF Tells
  <2>7. \A e \in ExpenseIds \ {n} :
               /\ e \in DOMAIN expenses' <=> e \in DOMAIN expenses
               /\ e \in DOMAIN expenses => expenses'[e] = expenses[e]
    BY <2>1 DEF Insert
  <2> QED
    BY <1>2, <2>1, <2>2, <2>4, <2>5, <2>6, <2>7
<1>4. ASSUME NEW n \in DOMAIN expenses, NEW new, UNCHANGED settlements,
             expenses' = [expenses EXCEPT ![n] = new], expenses[n].status = "pending",
             new.version = expenses[n].version + 1,
             NEW action \in {"updated", "confirmed", "cancelled"},
             action = IF new.status = "pending" THEN "updated" ELSE new.status,
             Log(<<"expense", n>>, action, expenses[n].version + 1)
      PROVE  AuditInv'
  <2> DEFINE log == audit[<<"expense", n>>]
             entry == [action |-> action, version |-> expenses[n].version + 1]
  <2>1. n \in ExpenseIds /\ expenses[n] \in ExpenseRow
    BY ExpenseUsers
  <2>2. log \in Seq(Entry) /\ Tells(log, expenses[n])
    BY <1>0, <2>1 DEF AuditInv, ExpenseStory
  <2>3. expenses[n].version \in Nat \ {0} /\ entry \in Entry
    BY <2>1 DEF ExpenseRow, Entry
  <2>4. Tells(Append(log, entry), new)
    BY <1>4, <2>2, <2>3, TellsMore
  <2>5. /\ expenses'[n] = new /\ n \in DOMAIN expenses'
        /\ \A e \in ExpenseIds \ {n} :
               /\ e \in DOMAIN expenses' <=> e \in DOMAIN expenses
               /\ e \in DOMAIN expenses => expenses'[e] = expenses[e]
    BY <1>4 DEF IsTable
  <2> QED
    BY <1>2, <1>4, <2>1, <2>4, <2>5
<1>5. ASSUME NEW c \in Clients, UpdateExpense(c)
      PROVE  AuditInv'
  <2> DEFINE n == calls[c].expense
             new == UpdatedRow(expenses[n], calls[c].input)
  <2>1. /\ n \in DOMAIN expenses /\ calls[c].input \in ExpenseInput
        /\ expenses[n].status = "pending"
    BY <1>5, LedgerCallShapes DEF UpdateExpense, UpdateMatches, CallsRead
  <2>2. new.version = expenses[n].version + 1 /\ new.status = "pending"
    BY <2>1, UpdatedShape, ExpenseUsers
  <2>3. /\ expenses' = [expenses EXCEPT ![n] = new] /\ UNCHANGED settlements
        /\ Log(<<"expense", n>>, "updated", expenses[n].version + 1)
    BY <1>5 DEF UpdateExpense
  <2> HIDE DEF new
  <2> QED
    BY <1>4, <2>1, <2>2, <2>3
<1>6. ASSUME NEW actor \in Users, NEW n \in ExpenseIds,
             NEW target \in {"confirmed", "cancelled"}, ChangeExpenseStatus(actor, n, target)
      PROVE  AuditInv'
  <2> DEFINE new == StatusChanged(expenses[n], target)
  <2>1. n \in DOMAIN expenses /\ expenses[n].status = "pending"
    BY <1>6 DEF ChangeExpenseStatus, ValidateExpenseTransition
  <2>2. new = [group |-> expenses[n].group, payer |-> expenses[n].payer,
               creator |-> expenses[n].creator, amount |-> expenses[n].amount,
               currency |-> expenses[n].currency, status |-> target,
               version |-> expenses[n].version + 1]
    BY <2>1, StatusShape, ExpenseUsers
  <2>3. /\ expenses' = [expenses EXCEPT ![n] = new] /\ UNCHANGED settlements
        /\ Log(<<"expense", n>>, target, expenses[n].version + 1)
    BY <1>6 DEF ChangeExpenseStatus
  <2> HIDE DEF new
  <2>4. new.version = expenses[n].version + 1 /\ new.status = target
    BY <2>2
  <2> QED
    BY <1>4, <2>1, <2>3, <2>4
<1>7. ASSUME NEW n \in SettlementIds, UNCHANGED expenses,
             \A s \in SettlementIds \ {n} :
               /\ s \in DOMAIN settlements' <=> s \in DOMAIN settlements
               /\ s \in DOMAIN settlements => settlements'[s] = settlements[s],
             NEW action, NEW version, Log(<<"settlement", n>>, action, version),
             audit'[<<"settlement", n>>] = Append(audit[<<"settlement", n>>],
                                                  [action |-> action, version |-> version])
               => SettlementStory(n)'
      PROVE  AuditInv'
  <2>1. /\ audit'[<<"settlement", n>>] = Append(audit[<<"settlement", n>>],
                                                [action |-> action, version |-> version])
        /\ \A e \in ExpenseIds : audit'[<<"expense", e>>] = audit[<<"expense", e>>]
        /\ \A s \in SettlementIds \ {n} :
             audit'[<<"settlement", s>>] = audit[<<"settlement", s>>]
    BY <1>0, <1>7, Logged
  <2>2. ASSUME NEW e \in ExpenseIds PROVE ExpenseStory(e)'
    <3>1. ExpenseStory(e)
      BY DEF AuditInv
    <3>2. expenses' = expenses /\ audit'[<<"expense", e>>] = audit[<<"expense", e>>]
      BY <1>7, <2>1
    <3> QED
      BY <3>1, <3>2 DEF ExpenseStory, Tells
  <2>3. \A s \in SettlementIds : s # n => SettlementStory(s)'
    BY <1>7, <2>1 DEF AuditInv, SettlementStory
  <2>4. SettlementStory(n)'
    BY <1>7, <2>1
  <2> QED
    BY <2>2, <2>3, <2>4 DEF AuditInv
<1>8. ASSUME NEW n \in SettlementIds, NEW input \in SettlementInput, CreateSettlement(n, input)
      PROVE  AuditInv'
  <2> DEFINE row == [group |-> input.group, sender |-> input.sender,
                     receiver |-> input.receiver, amount |-> input.amount,
                     currency |-> input.currency, status |-> "pending", version |-> 1]
             entry == [action |-> "created", version |-> 1]
  <2>1. /\ settlements' = Insert(settlements, n, row) /\ UNCHANGED expenses
        /\ Log(<<"settlement", n>>, "created", 1) /\ n \notin DOMAIN settlements
    BY <1>8 DEF CreateSettlement, IsNextId
  <2>2. audit[<<"settlement", n>>] = <<>>
    BY <2>1 DEF AuditInv, SettlementStory
  <2>3. entry \in Entry
    BY DEF Entry
  <2>4. Append(<<>>, entry) = <<entry>>
    BY <2>3
  <2>5. n \in DOMAIN settlements' /\ settlements'[n].status = "pending"
    BY <2>1 DEF Insert
  <2>6. \A s \in SettlementIds \ {n} :
               /\ s \in DOMAIN settlements' <=> s \in DOMAIN settlements
               /\ s \in DOMAIN settlements => settlements'[s] = settlements[s]
    BY <2>1 DEF Insert
  <2>7. audit'[<<"settlement", n>>] = Append(audit[<<"settlement", n>>], entry)
          => SettlementStory(n)'
    BY <2>2, <2>4, <2>5 DEF SettlementStory
  <2> QED
    BY <1>7, <2>1, <2>6, <2>7
<1>9. ASSUME NEW actor \in Users, NEW n \in SettlementIds, ConfirmSettlement(actor, n)
      PROVE  AuditInv'
  <2> DEFINE new == StatusChanged(settlements[n], "confirmed")
             first == [action |-> "created", version |-> 1]
             second == [action |-> "confirmed", version |-> 2]
  <2>1. /\ n \in DOMAIN settlements /\ settlements[n] \in SettlementRow
        /\ settlements[n].status = "pending" /\ settlements[n].version = 1
    BY <1>9 DEF ConfirmSettlement, Confirmable, IsTable, Received
  <2>2. new.status = "confirmed"
    BY <2>1, ReceivedShape
  <2>3. /\ settlements' = [settlements EXCEPT ![n] = new] /\ UNCHANGED expenses
        /\ Log(<<"settlement", n>>, "confirmed", 2)
    BY <1>9, <2>1 DEF ConfirmSettlement
  <2> HIDE DEF new
  <2>4. audit[<<"settlement", n>>] = <<first>>
    BY <2>1 DEF AuditInv, SettlementStory
  <2>5. first \in Entry /\ second \in Entry
    BY DEF Entry
  <2>6. Append(<<first>>, second) = <<first, second>>
    BY <2>5, AppendToOne
  <2>7. n \in DOMAIN settlements' /\ settlements'[n].status = "confirmed"
    BY <2>1, <2>2, <2>3
  <2>8. \A s \in SettlementIds \ {n} :
               /\ s \in DOMAIN settlements' <=> s \in DOMAIN settlements
               /\ s \in DOMAIN settlements => settlements'[s] = settlements[s]
    BY <2>3 DEF IsTable
  <2>9. audit'[<<"settlement", n>>] = Append(audit[<<"settlement", n>>], second)
          => SettlementStory(n)'
    BY <2>4, <2>6, <2>7 DEF SettlementStory
  <2> QED
    BY <1>7, <2>3, <2>8, <2>9
<1>10. ASSUME NEW c \in Clients, NEW a \in AdjustmentIds, NEW input \in AdjustmentInput,
              CreateAdjustment(c, a, input)
       PROVE  AuditInv'
  <2>1. /\ UNCHANGED <<expenses, settlements>>
        /\ \A e \in ExpenseIds : audit'[<<"expense", e>>] = audit[<<"expense", e>>]
        /\ \A s \in SettlementIds : audit'[<<"settlement", s>>] = audit[<<"settlement", s>>]
    BY <1>0, <1>10, Logged DEF CreateAdjustment
  <2>2. ASSUME NEW e \in ExpenseIds PROVE ExpenseStory(e)'
    <3>1. ExpenseStory(e)
      BY DEF AuditInv
    <3> QED
      BY <2>1, <3>1 DEF ExpenseStory, Tells
  <2>3. ASSUME NEW s \in SettlementIds PROVE SettlementStory(s)'
    <3>1. SettlementStory(s)
      BY DEF AuditInv
    <3> QED
      BY <2>1, <3>1 DEF SettlementStory
  <2> QED
    BY <2>2, <2>3 DEF AuditInv
<1>11. CASE ExpenseNext
  <2>1. PICK c \in Clients :
          \/ \E actor \in Users, input \in ExpenseInput : PrepareCreate(c, actor, input)
          \/ \E n \in ExpenseIds : CreateExpense(c, n)
          \/ \E actor \in Users, n \in ExpenseIds, version \in 1..MaxVersion - 1, g \in Groups :
               ReadForUpdate(c, actor, n, version, g)
          \/ \E input \in ExpenseInput : PrepareUpdate(c, input)
          \/ UpdateExpense(c)
          \/ Fail(c)
    BY <1>11 DEF ExpenseNext
  <2> QED
    BY <1>1, <1>3, <1>5, <2>1, ReadingTypes DEF tables
<1>12. CASE StatusNext
  BY <1>6, <1>12 DEF StatusNext
<1>13. CASE AdjustmentNext
  BY <1>1, <1>10, <1>13 DEF AdjustmentNext, LookupAdjustment, tables
<1>14. CASE SettlementNext
  BY <1>8, <1>9, <1>14 DEF SettlementNext
<1> QED
  BY <1>1, <1>11, <1>12, <1>13, <1>14, ReadersOnlyRead DEF Next, vars, ledgerVars, tables

\* The audit log can be replayed: it has every version of each expense and settlement
\* once, in order, and ends in the row's status.
THEOREM AuditAlwaysExplains == Spec => []AuditExplainsLedger
<1>1. Init => AuditInv
  BY DEF Init, LedgerInit, AuditInv, ExpenseStory, SettlementStory, Entity
<1>2. LedgerInv /\ AuditInv => AuditExplainsLedger
  BY DEF LedgerInv, TypeOK, IsTable, AuditInv, AuditExplainsLedger, ExpenseStory,
         SettlementStory, Tells
<1> QED
  BY <1>1, <1>2, StepStories, LedgerInvariant, PTL DEF Spec

-----------------------------------------------------------------------------
(* Reads *)

\* A reader of one expense has seen a row that exists; if it counted, or never will,
\* then it is still that row, and so are the allocations.
ReadHolds(r) ==
  LET read == reads[r]
  IN  /\ read.op \in {"none", "row", "expense", "member", "expenses", "settlements", "ledger"}
      /\ read.op \in {"member", "expenses", "settlements", "ledger"} =>
           read = [op |-> read.op, group |-> read.group, since |-> read.since,
                   ledger |-> read.ledger]
      /\ read.op \in {"row", "expense"} =>
           /\ read.expense \in DOMAIN expenses
           /\ read.row.status # "pending" => read.row = expenses[read.expense]
      /\ read.op = "expense" /\ read.row.status # "pending" =>
           read.alloc = allocations[read.expense]

ReadsHold == reads = [r \in Readers |-> reads[r]] /\ \A r \in Readers : ReadHolds(r)

\* What others do meanwhile does not touch a row that is settled.
LEMMA KeptRead ==
  ASSUME LedgerInv, [Next]_vars, NEW r \in Readers, ReadHolds(r), reads'[r] = reads[r]
  PROVE  ReadHolds(r)'
<1>1. CASE reads[r].op \in {"row", "expense"}
  <2>1. Kept(reads[r].expense)
    BY <1>1, StepKeeps DEF ReadHolds
  <2> QED
    BY <1>1, <2>1 DEF ReadHolds, Kept
<1>2. CASE reads[r].op \notin {"row", "expense"}
  BY <1>2 DEF ReadHolds
<1> QED
  BY <1>1, <1>2

LEMMA StepReads ==
  ASSUME LedgerInv, ReadsHold, [Next]_vars
  PROVE  ReadsHold'
<1>1. CASE UNCHANGED reads
  BY <1>1, KeptRead DEF ReadsHold
<1>2. ASSUME NEW r \in Readers, NEW read, reads' = [reads EXCEPT ![r] = read],
             ReadHolds(r)'
      PROVE  ReadsHold'
  <2>1. \A q \in Readers : q # r => reads'[q] = reads[q]
    BY <1>2 DEF ReadsHold
  <2>2. \A q \in Readers : ReadHolds(q)'
    BY <1>2, <2>1, KeptRead DEF ReadsHold
  <2>3. reads' = [q \in Readers |-> reads'[q]]
    BY <1>2 DEF ReadsHold
  <2> QED
    BY <2>2, <2>3 DEF ReadsHold
<1>3. ASSUME NEW r \in Readers, NEW actor \in Users, NEW e \in ExpenseIds,
             ReadExpenseRow(r, actor, e)
      PROVE  ReadsHold'
  <2> DEFINE read == [op |-> "row", expense |-> e, row |-> expenses[e]]
  <2>1. /\ reads' = [reads EXCEPT ![r] = read] /\ e \in DOMAIN expenses
        /\ UNCHANGED <<expenses, allocations>>
    BY <1>3 DEF ReadExpenseRow, tables
  <2>2. reads'[r] = read
    BY <2>1 DEF ReadsHold
  <2>3. ReadHolds(r)'
    BY <2>1, <2>2 DEF ReadHolds
  <2> QED
    BY <1>2, <2>1, <2>3
<1>4. ASSUME NEW r \in Readers, LoadExpenseDetails(r)
      PROVE  ReadsHold'
  <2> DEFINE old == reads[r]
             read == [op |-> "expense", expense |-> old.expense, row |-> old.row,
                      alloc |-> allocations[old.expense]]
  <2>1. /\ reads' = [reads EXCEPT ![r] = read] /\ old.op = "row"
        /\ UNCHANGED <<expenses, allocations>>
    BY <1>4 DEF LoadExpenseDetails, tables
  <2>2. reads'[r] = read
    BY <2>1 DEF ReadsHold
  <2>3. ReadHolds(r)'
    BY <2>1, <2>2 DEF ReadHolds, ReadsHold
  <2> QED
    BY <1>2, <2>1, <2>3
<1>5. ASSUME NEW r \in Readers, NEW actor \in Users, NEW g \in Groups,
             BeginLoadLedger(r, actor, g)
      PROVE  ReadsHold'
  <2> DEFINE read == [op |-> "member", group |-> g, since |-> LedgerNow(g),
                      ledger |-> EmptyLedger]
  <2>1. reads' = [reads EXCEPT ![r] = read]
    BY <1>5 DEF BeginLoadLedger
  <2>2. reads'[r] = read
    BY <2>1 DEF ReadsHold
  <2>3. ReadHolds(r)'
    BY <2>2 DEF ReadHolds
  <2> QED
    BY <1>2, <2>1, <2>3
<1>6. ASSUME NEW r \in Readers, NEW from \in {"member", "expenses", "settlements"},
             NEW to \in {"expenses", "settlements", "ledger"}, NEW table, NEW rows,
             LedgerStatement(r, from, to, table, rows)
      PROVE  ReadsHold'
  <2> DEFINE old == reads[r]
             read == [op |-> to, group |-> old.group, since |-> old.since,
                      ledger |-> [old.ledger EXCEPT ![table] = rows]]
  <2>1. old = [op |-> old.op, group |-> old.group, since |-> old.since, ledger |-> old.ledger]
    BY <1>6 DEF LedgerStatement, ReadsHold, ReadHolds
  <2>2. reads' = [reads EXCEPT ![r] = read]
    <3> DEFINE r1 == [old EXCEPT !.op = to]
    <3>1. r1 = [op |-> to, group |-> old.group, since |-> old.since, ledger |-> old.ledger]
      BY <2>1
    <3>2. Loaded(old, to, table, rows) = [r1 EXCEPT !.ledger[table] = rows]
      BY DEF Loaded
    <3> HIDE DEF r1
    <3>3. [r1 EXCEPT !.ledger[table] = rows] = read
      BY <3>1
    <3>4. Loaded(old, to, table, rows) = read
      BY <3>2, <3>3
    <3> QED
      BY <1>6, <3>4 DEF LedgerStatement
  <2>3. reads'[r] = read
    BY <2>2 DEF ReadsHold
  <2> HIDE DEF read
  <2>4. read.op = to /\ read = [op |-> read.op, group |-> read.group, since |-> read.since,
                                ledger |-> read.ledger]
    BY DEF read
  <2>5. ReadHolds(r)'
    BY <2>3, <2>4 DEF ReadHolds
  <2> QED
    BY <1>2, <2>2, <2>5
<1>7. ASSUME NEW r \in Readers, EndRead(r)
      PROVE  ReadsHold'
  <2>1. reads' = [reads EXCEPT ![r] = NoRead]
    BY <1>7 DEF EndRead
  <2>2. ReadHolds(r)'
    BY <2>1 DEF ReadHolds, ReadsHold, NoRead
  <2> QED
    BY <1>2, <2>1, <2>2
<1>8. CASE ReadNext
  BY <1>3, <1>4, <1>5, <1>6, <1>7, <1>8 DEF ReadNext, LoadLedgerStep
<1>9. CASE ExpenseNext
  BY <1>1, <1>9, ReadingTypes DEF ExpenseNext, CreateExpense, UpdateExpense
<1>10. CASE StatusNext \/ SettlementNext
  BY <1>1, <1>10 DEF StatusNext, ChangeExpenseStatus, SettlementNext, CreateSettlement,
                     ConfirmSettlement
<1>11. CASE AdjustmentNext
  BY <1>1, <1>11 DEF AdjustmentNext, LookupAdjustment, CreateAdjustment
<1> QED
  BY <1>1, <1>8, <1>9, <1>10, <1>11 DEF Next, vars, ledgerVars

\* GetExpense never shows a row that counts with allocations of another version.
THEOREM SettledAlwaysReadWhole == Spec => []SettledReadsWhole
<1>1. Init => ReadsHold
  BY DEF Init, LedgerInit, ReadsHold, ReadHolds, NoRead
<1>2. ReadsHold => SettledReadsWhole
  BY DEF ReadsHold, ReadHolds, SettledReadsWhole
<1> QED
  BY <1>1, <1>2, StepReads, LedgerInvariant, PTL DEF Spec

-----------------------------------------------------------------------------
(* Ledgers read across several statements *)

\* Settlements and adjustments are only added; what a settlement says stays, and one
\* that counts stays as it is.
LEMMA RowsStay ==
  ASSUME LedgerInv, [Next]_vars
  PROVE  /\ \A s \in DOMAIN settlements :
              /\ s \in DOMAIN settlements'
              /\ settlements'[s].sender = settlements[s].sender
              /\ settlements'[s].receiver = settlements[s].receiver
              /\ settlements[s].status = "confirmed" => settlements'[s] = settlements[s]
         /\ \A a \in DOMAIN adjustments :
              a \in DOMAIN adjustments' /\ adjustments'[a] = adjustments[a]
<1> USE DEF LedgerInv, TypeOK
<1>1. CASE UNCHANGED <<settlements, adjustments>>
  BY <1>1
<1>2. ASSUME NEW c \in Clients, NEW n \in AdjustmentIds, NEW input \in AdjustmentInput,
             CreateAdjustment(c, n, input)
      PROVE  /\ UNCHANGED settlements
             /\ \A a \in DOMAIN adjustments :
                  a \in DOMAIN adjustments' /\ adjustments'[a] = adjustments[a]
  BY <1>2 DEF CreateAdjustment, IsNextId, Insert
<1>3. ASSUME NEW n \in SettlementIds, NEW input \in SettlementInput, CreateSettlement(n, input)
      PROVE  /\ UNCHANGED adjustments
             /\ \A s \in DOMAIN settlements :
                  s \in DOMAIN settlements' /\ settlements'[s] = settlements[s]
  BY <1>3 DEF CreateSettlement, IsNextId, Insert
<1>4. ASSUME NEW actor \in Users, NEW n \in SettlementIds, ConfirmSettlement(actor, n)
      PROVE  /\ UNCHANGED adjustments
             /\ \A s \in DOMAIN settlements :
                  /\ s \in DOMAIN settlements'
                  /\ settlements'[s].sender = settlements[s].sender
                  /\ settlements'[s].receiver = settlements[s].receiver
                  /\ settlements[s].status = "confirmed" => settlements'[s] = settlements[s]
  <2>1. /\ n \in DOMAIN settlements /\ settlements[n] \in SettlementRow
        /\ settlements[n].status = "pending" /\ settlements[n].version = 1
        /\ UNCHANGED adjustments
        /\ settlements' = [settlements EXCEPT ![n] = StatusChanged(settlements[n], "confirmed")]
    BY <1>4 DEF ConfirmSettlement, Confirmable, IsTable, Received
  <2>2. PICK row : row = StatusChanged(settlements[n], "confirmed")
    OBVIOUS
  <2>3. row.sender = settlements[n].sender /\ row.receiver = settlements[n].receiver
    BY <2>1, <2>2, ReceivedShape
  <2>4. settlements' = [settlements EXCEPT ![n] = row]
    BY <2>1, <2>2
  <2> QED
    BY <2>1, <2>3, <2>4
<1>5. CASE ExpenseNext
  BY <1>1, <1>5, ReadingTypes DEF ExpenseNext, CreateExpense, UpdateExpense, tables
<1>6. CASE StatusNext
  BY <1>1, <1>6 DEF StatusNext, ChangeExpenseStatus
<1>7. CASE AdjustmentNext
  BY <1>1, <1>2, <1>7 DEF AdjustmentNext, LookupAdjustment, tables
<1>8. CASE SettlementNext
  BY <1>3, <1>4, <1>8 DEF SettlementNext
<1> QED
  BY <1>1, <1>5, <1>6, <1>7, <1>8, ReadersOnlyRead DEF Next, vars, ledgerVars, tables

\* Nobody settles with himself.
SendersDiffer ==
  \A s \in DOMAIN settlements : settlements[s].sender # settlements[s].receiver

LEMMA StepSenders ==
  ASSUME LedgerInv, SendersDiffer, [Next]_vars
  PROVE  SendersDiffer'
<1>1. ASSUME NEW s \in DOMAIN settlements', s \notin DOMAIN settlements
      PROVE  settlements'[s].sender # settlements'[s].receiver
  <2>1. PICK n \in SettlementIds, input \in SettlementInput : CreateSettlement(n, input)
    <3>1. CASE ExpenseNext
      BY <1>1, <3>1, ReadingTypes DEF ExpenseNext, CreateExpense, UpdateExpense, tables
    <3>2. CASE StatusNext \/ AdjustmentNext
      BY <1>1, <3>2 DEF StatusNext, ChangeExpenseStatus, AdjustmentNext, LookupAdjustment,
                        CreateAdjustment, tables
    <3>3. CASE SettlementNext
      BY <1>1, <3>3 DEF SettlementNext, ConfirmSettlement
    <3> QED
      BY <1>1, <3>1, <3>2, <3>3, ReadersOnlyRead DEF Next, vars, ledgerVars, tables
  <2>2. PICK row : row = [group |-> input.group, sender |-> input.sender,
                          receiver |-> input.receiver, amount |-> input.amount,
                          currency |-> input.currency, status |-> "pending", version |-> 1]
    OBVIOUS
  <2>3. row.sender = input.sender /\ row.receiver = input.receiver
    BY <2>2
  <2>4. settlements' = Insert(settlements, n, row) /\ input.sender # input.receiver
    BY <2>1, <2>2 DEF CreateSettlement
  <2> QED
    BY <1>1, <2>3, <2>4 DEF Insert
<1> QED
  BY <1>1, RowsStay DEF SendersDiffer

\* What counts goes on counting, row for row.
LEMMA LedgerGrows ==
  ASSUME LedgerInv, AdjustmentsBelong, [Next]_vars, NEW g
  PROVE  /\ ConfirmedExpenses(g) \subseteq ConfirmedExpenses(g)'
         /\ ConfirmedSettlements(g) \subseteq ConfirmedSettlements(g)'
         /\ GroupAdjustments(g) \subseteq GroupAdjustments(g)'
<1>1. \A e \in DOMAIN expenses :
        expenses[e].status = "confirmed" =>
          e \in DOMAIN expenses' /\ expenses'[e] = expenses[e] /\ allocations'[e] = allocations[e]
  BY StepKeeps DEF Kept
<1>2. ConfirmedExpenses(g) \subseteq ConfirmedExpenses(g)'
  BY <1>1 DEF ConfirmedExpenses
<1>3. ConfirmedSettlements(g) \subseteq ConfirmedSettlements(g)'
  BY RowsStay DEF ConfirmedSettlements
<1>4. GroupAdjustments(g) \subseteq GroupAdjustments(g)'
  <2>1. \A a \in DOMAIN adjustments :
          /\ a \in DOMAIN adjustments' /\ adjustments'[a] = adjustments[a]
          /\ expenses'[adjustments[a].expense] = expenses[adjustments[a].expense]
    BY <1>1, RowsStay DEF AdjustmentsBelong, AdjustmentFits
  <2> QED
    BY <2>1 DEF GroupAdjustments
<1> QED
  BY <1>2, <1>3, <1>4

\* What a reader has of each table lies between what counted when it began and what
\* counts now.
Between(since, got, now) == since \subseteq got /\ got \subseteq now

Bounded(r) ==
  LET read == reads[r]
      g    == read.group
  IN  read.op \in {"member", "expenses", "settlements", "ledger"} =>
        /\ read.ledger = [expenses    |-> read.ledger.expenses,
                          settlements |-> read.ledger.settlements,
                          adjustments |-> read.ledger.adjustments]
        /\ read.since.expenses \subseteq ConfirmedExpenses(g)
        /\ read.since.settlements \subseteq ConfirmedSettlements(g)
        /\ read.since.adjustments \subseteq GroupAdjustments(g)
        /\ read.op # "member" =>
             Between(read.since.expenses, read.ledger.expenses, ConfirmedExpenses(g))
        /\ read.op \in {"settlements", "ledger"} =>
             Between(read.since.settlements, read.ledger.settlements, ConfirmedSettlements(g))
        /\ read.op = "ledger" =>
             Between(read.since.adjustments, read.ledger.adjustments, GroupAdjustments(g))

ReadsBounded == \A r \in Readers : Bounded(r)

LEMMA KeptBounds ==
  ASSUME LedgerInv, AdjustmentsBelong, [Next]_vars, NEW r \in Readers, Bounded(r),
         reads'[r] = reads[r]
  PROVE  Bounded(r)'
<1> DEFINE g == reads[r].group
<1>1. /\ ConfirmedExpenses(g) \subseteq ConfirmedExpenses(g)'
      /\ ConfirmedSettlements(g) \subseteq ConfirmedSettlements(g)'
      /\ GroupAdjustments(g) \subseteq GroupAdjustments(g)'
  <2>1. PICK h : h = g
    OBVIOUS
  <2>2. /\ ConfirmedExpenses(h) \subseteq ConfirmedExpenses(h)'
        /\ ConfirmedSettlements(h) \subseteq ConfirmedSettlements(h)'
        /\ GroupAdjustments(h) \subseteq GroupAdjustments(h)'
    BY LedgerGrows
  <2> QED
    BY <2>1, <2>2 DEF ConfirmedExpenses, ConfirmedSettlements, GroupAdjustments
<1> QED
  BY <1>1 DEF Bounded, Between

LEMMA StepBounds ==
  ASSUME LedgerInv, AdjustmentsBelong, ReadsHold, ReadsBounded, [Next]_vars
  PROVE  ReadsBounded'
<1>1. CASE UNCHANGED reads
  BY <1>1, KeptBounds DEF ReadsBounded
<1>2. ASSUME NEW r \in Readers, NEW read, reads' = [reads EXCEPT ![r] = read],
             Bounded(r)'
      PROVE  ReadsBounded'
  <2>1. \A q \in Readers : q # r => reads'[q] = reads[q]
    BY <1>2 DEF ReadsHold
  <2> QED
    BY <1>2, <2>1, KeptBounds DEF ReadsBounded
<1>3. ASSUME NEW r \in Readers, NEW read, reads' = [reads EXCEPT ![r] = read],
             read.op \in {"none", "row", "expense"}
      PROVE  ReadsBounded'
  <2>1. reads'[r] = read
    BY <1>3 DEF ReadsHold
  <2> QED
    BY <1>2, <1>3, <2>1 DEF Bounded
<1>4. ASSUME NEW r \in Readers, NEW actor \in Users, NEW e \in ExpenseIds,
             ReadExpenseRow(r, actor, e)
      PROVE  ReadsBounded'
  BY <1>3, <1>4 DEF ReadExpenseRow
<1>5. ASSUME NEW r \in Readers, LoadExpenseDetails(r)
      PROVE  ReadsBounded'
  BY <1>3, <1>5 DEF LoadExpenseDetails
<1>6. ASSUME NEW r \in Readers, EndRead(r)
      PROVE  ReadsBounded'
  BY <1>3, <1>6 DEF EndRead, NoRead
<1>7. ASSUME UNCHANGED tables, NEW g
      PROVE  /\ ConfirmedExpenses(g)' = ConfirmedExpenses(g)
             /\ ConfirmedSettlements(g)' = ConfirmedSettlements(g)
             /\ GroupAdjustments(g)' = GroupAdjustments(g)
  BY <1>7 DEF tables, ConfirmedExpenses, ConfirmedSettlements, GroupAdjustments
<1>8. ASSUME NEW r \in Readers, NEW actor \in Users, NEW g \in Groups,
             BeginLoadLedger(r, actor, g)
      PROVE  ReadsBounded'
  <2> DEFINE read == [op |-> "member", group |-> g, since |-> LedgerNow(g),
                      ledger |-> EmptyLedger]
  <2>1. reads' = [reads EXCEPT ![r] = read] /\ UNCHANGED tables
    BY <1>8 DEF BeginLoadLedger
  <2>2. reads'[r] = read
    BY <2>1 DEF ReadsHold
  <2>3. /\ reads'[r].op = "member" /\ reads'[r].group = g
        /\ reads'[r].since.expenses = ConfirmedExpenses(g)
        /\ reads'[r].since.settlements = ConfirmedSettlements(g)
        /\ reads'[r].since.adjustments = GroupAdjustments(g)
        /\ reads'[r].ledger = [expenses |-> {}, settlements |-> {}, adjustments |-> {}]
    BY <2>2 DEF LedgerNow, EmptyLedger
  <2>4. Bounded(r)'
    <3>1. /\ ConfirmedExpenses(g)' = ConfirmedExpenses(g)
          /\ ConfirmedSettlements(g)' = ConfirmedSettlements(g)
          /\ GroupAdjustments(g)' = GroupAdjustments(g)
      BY <1>7, <2>1
    <3> QED
      BY <2>3, <3>1 DEF Bounded
  <2> HIDE DEF read
  <2> QED
    BY <1>2, <2>1, <2>4
<1>9. ASSUME NEW r \in Readers, LoadLedgerStep(r)
      PROVE  ReadsBounded'
  <2> DEFINE old == reads[r]
             g   == old.group
  <2>1. UNCHANGED tables
    BY <1>9 DEF LoadLedgerStep, LedgerStatement
  <2>2. /\ old.op \in {"member", "expenses", "settlements"}
        /\ old = [op |-> old.op, group |-> g, since |-> old.since, ledger |-> old.ledger]
        /\ old.ledger = [expenses    |-> old.ledger.expenses,
                         settlements |-> old.ledger.settlements,
                         adjustments |-> old.ledger.adjustments]
    BY <1>9 DEF LoadLedgerStep, LedgerStatement, ReadsHold, ReadHolds, ReadsBounded, Bounded
  <2>3. PICK got : /\ reads'[r] = [op |-> got.op, group |-> g, since |-> old.since,
                                   ledger |-> got.ledger]
                   /\ got.ledger = [expenses    |-> got.ledger.expenses,
                                    settlements |-> got.ledger.settlements,
                                    adjustments |-> got.ledger.adjustments]
                   /\ \/ /\ old.op = "member" /\ got.op = "expenses"
                         /\ got.ledger.expenses = ConfirmedExpenses(g)
                      \/ /\ old.op = "expenses" /\ got.op = "settlements"
                         /\ got.ledger.expenses = old.ledger.expenses
                         /\ got.ledger.settlements = ConfirmedSettlements(g)
                      \/ /\ old.op = "settlements" /\ got.op = "ledger"
                         /\ got.ledger.expenses = old.ledger.expenses
                         /\ got.ledger.settlements = old.ledger.settlements
                         /\ got.ledger.adjustments = GroupAdjustments(g)
    <3>1. ASSUME NEW from, NEW to, NEW table \in {"expenses", "settlements", "adjustments"},
                 NEW rows, LedgerStatement(r, from, to, table, rows)
          PROVE  /\ old.op = from
                 /\ reads'[r] = [op |-> to, group |-> g, since |-> old.since,
                                 ledger |-> [old.ledger EXCEPT ![table] = rows]]
      <4> DEFINE r1 == [old EXCEPT !.op = to]
      <4>1. r1 = [op |-> to, group |-> g, since |-> old.since, ledger |-> old.ledger]
        BY <2>2
      <4>2. Loaded(old, to, table, rows) = [r1 EXCEPT !.ledger[table] = rows]
        BY DEF Loaded
      <4>3. reads'[r] = Loaded(old, to, table, rows) /\ old.op = from
        BY <3>1 DEF LedgerStatement, ReadsHold
      <4> HIDE DEF r1
      <4>4. [r1 EXCEPT !.ledger[table] = rows] =
              [op |-> to, group |-> g, since |-> old.since,
               ledger |-> [old.ledger EXCEPT ![table] = rows]]
        BY <4>1
      <4> QED
        BY <4>2, <4>3, <4>4
    <3>2. CASE LedgerStatement(r, "member", "expenses", "expenses", ConfirmedExpenses(g))
      <4>1. PICK ledger : ledger = [old.ledger EXCEPT !["expenses"] = ConfirmedExpenses(g)]
        OBVIOUS
      <4>2. ledger = [expenses |-> ConfirmedExpenses(g), settlements |-> old.ledger.settlements,
                      adjustments |-> old.ledger.adjustments]
        BY <2>2, <4>1
      <4>3. PICK got : got = [op |-> "expenses", ledger |-> ledger]
        OBVIOUS
      <4>4. got.op = "expenses" /\ got.ledger = ledger
        BY <4>3
      <4>5. /\ reads'[r] = [op |-> got.op, group |-> g, since |-> old.since, ledger |-> got.ledger]
            /\ old.op = "member"
        BY <3>1, <3>2, <4>1, <4>4
      <4>6. got.ledger = [expenses    |-> got.ledger.expenses,
                          settlements |-> got.ledger.settlements,
                          adjustments |-> got.ledger.adjustments]
        BY <4>2, <4>4
      <4>7. /\ old.op = "member" /\ got.op = "expenses"
            /\ got.ledger.expenses = ConfirmedExpenses(g)
        BY <4>2, <4>4, <4>5
      <4> QED
        BY <4>5, <4>6, <4>7, Zenon
    <3>3. CASE LedgerStatement(r, "expenses", "settlements", "settlements",
                               ConfirmedSettlements(g))
      <4>1. PICK ledger :
              ledger = [old.ledger EXCEPT !["settlements"] = ConfirmedSettlements(g)]
        OBVIOUS
      <4>2. ledger = [expenses |-> old.ledger.expenses, settlements |-> ConfirmedSettlements(g),
                      adjustments |-> old.ledger.adjustments]
        BY <2>2, <4>1
      <4>3. PICK got : got = [op |-> "settlements", ledger |-> ledger]
        OBVIOUS
      <4>4. got.op = "settlements" /\ got.ledger = ledger
        BY <4>3
      <4>5. /\ reads'[r] = [op |-> got.op, group |-> g, since |-> old.since, ledger |-> got.ledger]
            /\ old.op = "expenses"
        BY <3>1, <3>3, <4>1, <4>4
      <4>6. got.ledger = [expenses    |-> got.ledger.expenses,
                          settlements |-> got.ledger.settlements,
                          adjustments |-> got.ledger.adjustments]
        BY <4>2, <4>4
      <4>7. /\ old.op = "expenses" /\ got.op = "settlements"
            /\ got.ledger.expenses = old.ledger.expenses
            /\ got.ledger.settlements = ConfirmedSettlements(g)
        BY <4>2, <4>4, <4>5
      <4> QED
        BY <4>5, <4>6, <4>7, Zenon
    <3>4. CASE LedgerStatement(r, "settlements", "ledger", "adjustments", GroupAdjustments(g))
      <4>1. PICK ledger : ledger = [old.ledger EXCEPT !["adjustments"] = GroupAdjustments(g)]
        OBVIOUS
      <4>2. ledger = [expenses |-> old.ledger.expenses, settlements |-> old.ledger.settlements,
                      adjustments |-> GroupAdjustments(g)]
        BY <2>2, <4>1
      <4>3. PICK got : got = [op |-> "ledger", ledger |-> ledger]
        OBVIOUS
      <4>4. got.op = "ledger" /\ got.ledger = ledger
        BY <4>3
      <4>5. /\ reads'[r] = [op |-> got.op, group |-> g, since |-> old.since, ledger |-> got.ledger]
            /\ old.op = "settlements"
        BY <3>1, <3>4, <4>1, <4>4
      <4>6. got.ledger = [expenses    |-> got.ledger.expenses,
                          settlements |-> got.ledger.settlements,
                          adjustments |-> got.ledger.adjustments]
        BY <4>2, <4>4
      <4>7. /\ old.op = "settlements" /\ got.op = "ledger"
            /\ got.ledger.expenses = old.ledger.expenses
            /\ got.ledger.settlements = old.ledger.settlements
            /\ got.ledger.adjustments = GroupAdjustments(g)
        BY <4>2, <4>4, <4>5
      <4> QED
        BY <4>5, <4>6, <4>7, Zenon
    <3> QED
      BY <1>9, <3>2, <3>3, <3>4 DEF LoadLedgerStep
  <2>4. PICK h : h = g
    OBVIOUS
  <2>5. /\ ConfirmedExpenses(h)' = ConfirmedExpenses(h)
        /\ ConfirmedSettlements(h)' = ConfirmedSettlements(h)
        /\ GroupAdjustments(h)' = GroupAdjustments(h)
    BY <1>7, <2>1
  <2>6. Bounded(r) /\ reads'[r].group = h /\ reads'[r].op = got.op
        /\ reads'[r].since = old.since /\ reads'[r].ledger = got.ledger
    BY <2>3, <2>4 DEF ReadsBounded
  <2>7. Bounded(r)'
    BY <2>3, <2>4, <2>5, <2>6 DEF Bounded, Between
  <2>8. reads' = [reads EXCEPT ![r] = reads'[r]]
    BY <1>9 DEF LoadLedgerStep, LedgerStatement, ReadsHold
  <2> QED
    BY <1>2, <2>7, <2>8
<1>10. CASE ReadNext
  BY <1>4, <1>5, <1>6, <1>8, <1>9, <1>10 DEF ReadNext
<1>11. CASE ExpenseNext
  BY <1>1, <1>11, ReadingTypes DEF ExpenseNext, CreateExpense, UpdateExpense
<1>12. CASE StatusNext \/ SettlementNext
  BY <1>1, <1>12 DEF StatusNext, ChangeExpenseStatus, SettlementNext, CreateSettlement,
                     ConfirmSettlement
<1>13. CASE AdjustmentNext
  BY <1>1, <1>13 DEF AdjustmentNext, LookupAdjustment, CreateAdjustment
<1> QED
  BY <1>1, <1>10, <1>11, <1>12, <1>13 DEF Next, vars, ledgerVars

LEMMA AllocationShape ==
  ASSUME NEW alloc \in Allocation
  PROVE  DOMAIN alloc \subseteq Users /\ \A u \in DOMAIN alloc : alloc[u] \in Nat
<1>1. PICK amount \in Amounts : alloc \in Proposals(amount)
  BY DEF Allocation
<1> QED
  BY <1>1, AmountsAssumption DEF Proposals

\* Whatever a reader has of rows that count, the balances can be computed from it.
LEMMA PartsComputable ==
  ASSUME LedgerInv, FiniteTables, AllocationsBalance, AdjustmentsBelong, SendersDiffer,
         NEW g, NEW ledger,
         ledger.expenses \subseteq ConfirmedExpenses(g),
         ledger.settlements \subseteq ConfirmedSettlements(g),
         ledger.adjustments \subseteq GroupAdjustments(g)
  PROVE  Computable(ledger, Users, Currencies)
<1> USE DEF LedgerInv, TypeOK
<1>0. \A amount \in Amounts : amount \in Int /\ amount > 0
  BY AmountsAssumption
<1>1. ASSUME NEW row \in ledger.expenses
      PROVE  Payable(row, Users) /\ Allocated(row)
  <2>1. PICK e \in DOMAIN expenses :
          row = [id |-> e, payer |-> expenses[e].payer, amount |-> expenses[e].amount,
                 currency |-> expenses[e].currency, alloc |-> allocations[e]]
    BY DEF ConfirmedExpenses
  <2>2. /\ expenses[e].payer \in Users /\ expenses[e].amount \in Amounts
        /\ allocations[e] \in Allocation /\ SumFunction(allocations[e]) = expenses[e].amount
    BY DEF AllocationsBalance, IsTable, ExpenseRow
  <2>3. /\ DOMAIN allocations[e] \subseteq Users
        /\ \A u \in DOMAIN allocations[e] : allocations[e][u] \in Nat
    BY <2>2, AllocationShape
  <2> QED
    BY <1>0, <2>1, <2>2, <2>3 DEF Payable, Allocated
<1>2. ASSUME NEW row \in ledger.settlements
      PROVE  Payment(row, Users) /\ Transferred(row)
  <2>1. PICK s \in DOMAIN settlements :
          row = [id |-> s, sender |-> settlements[s].sender,
                 receiver |-> settlements[s].receiver, amount |-> settlements[s].amount,
                 currency |-> settlements[s].currency]
    BY DEF ConfirmedSettlements
  <2>2. /\ settlements[s].sender \in Users /\ settlements[s].receiver \in Users
        /\ settlements[s].amount \in Amounts /\ settlements[s].sender # settlements[s].receiver
    BY DEF SendersDiffer, IsTable, SettlementRow
  <2> QED
    BY <1>0, <2>1, <2>2 DEF Payment, Transferred
<1>3. ASSUME NEW row \in ledger.adjustments
      PROVE  Payable(row, Users) /\ Allocated(row)
  <2>1. PICK a \in DOMAIN adjustments :
          row = [id |-> a, payer |-> expenses[adjustments[a].expense].payer,
                 type |-> adjustments[a].type, amount |-> adjustments[a].amount,
                 currency |-> adjustments[a].currency, alloc |-> adjustments[a].alloc]
    BY DEF GroupAdjustments
  <2>2. /\ adjustments[a].expense \in DOMAIN expenses /\ adjustments[a].amount \in Amounts
        /\ adjustments[a].alloc \in Allocation
        /\ SumFunction(adjustments[a].alloc) = adjustments[a].amount
    BY DEF AdjustmentsBelong, AdjustmentFits, IsTable, AdjustmentRow
  <2>3. expenses[adjustments[a].expense].payer \in Users
    BY <2>2 DEF IsTable, ExpenseRow
  <2>4. /\ DOMAIN adjustments[a].alloc \subseteq Users
        /\ \A u \in DOMAIN adjustments[a].alloc : adjustments[a].alloc[u] \in Nat
    BY <2>2, AllocationShape
  <2> QED
    BY <1>0, <2>1, <2>2, <2>3, <2>4 DEF Payable, Allocated
<1>4. IsFiniteSet(ledger.expenses)
  <2>1. PICK f : f = [e \in DOMAIN expenses |->
          [id |-> e, payer |-> expenses[e].payer, amount |-> expenses[e].amount,
           currency |-> expenses[e].currency, alloc |-> allocations[e]]]
    OBVIOUS
  <2>2. ledger.expenses \subseteq {f[e] : e \in DOMAIN expenses}
    BY <2>1 DEF ConfirmedExpenses
  <2>3. IsFiniteSet({f[e] : e \in DOMAIN expenses})
    BY ImageFinite DEF FiniteTables
  <2> QED
    BY <2>2, <2>3, FS_Subset
<1>5. IsFiniteSet(ledger.settlements)
  <2>1. PICK f : f = [s \in DOMAIN settlements |->
          [id |-> s, sender |-> settlements[s].sender, receiver |-> settlements[s].receiver,
           amount |-> settlements[s].amount, currency |-> settlements[s].currency]]
    OBVIOUS
  <2>2. ledger.settlements \subseteq {f[s] : s \in DOMAIN settlements}
    BY <2>1 DEF ConfirmedSettlements
  <2>3. IsFiniteSet({f[s] : s \in DOMAIN settlements})
    BY ImageFinite DEF FiniteTables
  <2> QED
    BY <2>2, <2>3, FS_Subset
<1>6. IsFiniteSet(ledger.adjustments)
  <2>1. PICK f : f = [a \in DOMAIN adjustments |->
          [id |-> a, payer |-> expenses[adjustments[a].expense].payer,
           type |-> adjustments[a].type, amount |-> adjustments[a].amount,
           currency |-> adjustments[a].currency, alloc |-> adjustments[a].alloc]]
    OBVIOUS
  <2>2. ledger.adjustments \subseteq {f[a] : a \in DOMAIN adjustments}
    BY <2>1 DEF GroupAdjustments
  <2>3. IsFiniteSet({f[a] : a \in DOMAIN adjustments})
    BY ImageFinite DEF FiniteTables
  <2> QED
    BY <2>2, <2>3, FS_Subset
<1>7. LedgerOf(ledger, Users)
  BY <1>1, <1>2, <1>3, <1>4, <1>5, <1>6 DEF LedgerOf
<1>8. \A k \in Currencies : CurrencyTotal(ledger, Users, k) = 0
  BY <1>7, UsersAssumption, LedgerCloses
<1> QED
  BY <1>1, <1>2, <1>3, <1>8 DEF Computable, WellFormed

\* A ledger read across three statements while others write has everything that counted
\* when the read began and nothing that does not count now, and CalculateBalances never
\* fails on it: however it is torn, its net amounts add up to zero.
THEOREM LedgerReadsAlwaysBounded == Spec => []LedgerReadBounded
<1>1. Init => ReadsBounded /\ SendersDiffer /\ ReadsHold
  BY DEF Init, LedgerInit, ReadsBounded, Bounded, SendersDiffer, ReadsHold, ReadHolds, NoRead
<1>2. /\ LedgerInv /\ FiniteTables /\ AllocationsBalance /\ AdjustmentsBelong /\ SendersDiffer
      /\ ReadsBounded
      => LedgerReadBounded
  <2> SUFFICES ASSUME LedgerInv, FiniteTables, AllocationsBalance, AdjustmentsBelong,
                      SendersDiffer, ReadsBounded, NEW r \in Readers, reads[r].op = "ledger"
               PROVE  LET got == reads[r].ledger
                          now == LedgerNow(reads[r].group)
                      IN  /\ \A table \in {"expenses", "settlements", "adjustments"} :
                               /\ reads[r].since[table] \subseteq got[table]
                               /\ got[table] \subseteq now[table]
                          /\ Computable(got, Users, Currencies)
    BY DEF LedgerReadBounded
  <2> DEFINE got == reads[r].ledger
             g   == reads[r].group
  <2>1. /\ Between(reads[r].since.expenses, got.expenses, ConfirmedExpenses(g))
        /\ Between(reads[r].since.settlements, got.settlements, ConfirmedSettlements(g))
        /\ Between(reads[r].since.adjustments, got.adjustments, GroupAdjustments(g))
    BY DEF ReadsBounded, Bounded
  <2>2. Computable(got, Users, Currencies)
    BY <2>1, PartsComputable DEF Between
  <2> QED
    BY <2>1, <2>2 DEF Between, LedgerNow
<1> QED
  BY <1>1, <1>2, StepReads, StepBounds, StepSenders, LedgerInvariant, TablesFinite,
     AllocationsAlwaysBalance, AdjustmentsAlwaysBelong, PTL DEF Spec

-----------------------------------------------------------------------------
(* CoreLedger implements CoreRecords *)

\* The abstract members and archived groups.
Belonging == [g \in Groups |-> Members(g)]
Archived  == {g \in Groups : status[g] = "archived"}

Stutters ==
  /\ Belonging' = Belonging /\ Archived' = Archived
  /\ UNCHANGED <<expenses, allocations, settlements, adjustments>>

LEMMA SameGroups ==
  ASSUME UNCHANGED groupVars
  PROVE  Belonging' = Belonging /\ Archived' = Archived
<1>1. \A g \in Groups : Members(g)' = Members(g)
  BY DEF Members, IsMember, groupVars
<1>2. Archived' = Archived
  BY DEF Archived, groupVars
<1> QED
  BY <1>1, <1>2 DEF Belonging

LEMMA Joins ==
  ASSUME NEW g \in Groups, NEW users \in SUBSET Users, status[g] # "archived",
         status' = [status EXCEPT ![g] = status'[g]], status'[g] # "archived",
         status \in [Groups -> Status],
         \A h \in Groups, u \in Users :
           IsMember(h, u)' <=> IsMember(h, u) \/ (h = g /\ u \in users),
         UNCHANGED ledgerVars
  PROVE  Stutters \/ Records!Next
<1>1. Archived' = Archived /\ g \notin Archived
  BY DEF Archived
<1>2. \A h \in Groups : Members(h)' = IF h = g THEN Members(h) \cup users ELSE Members(h)
  BY DEF Members
<1>3. Belonging' = [Belonging EXCEPT ![g] = @ \cup users]
  BY <1>2 DEF Belonging
<1>4. CASE users = {}
  <2>1. Belonging' = Belonging
    BY <1>3, <1>4 DEF Belonging
  <2> QED
    BY <1>1, <2>1 DEF Stutters, ledgerVars
<1>5. CASE users # {}
  <2>1. Records!Join(g, users)
    BY <1>1, <1>3, <1>5 DEF Records!Join, Belonging, Archived, ledgerVars
  <2> QED
    BY <2>1 DEF Records!Next
<1> QED
  BY <1>4, <1>5

LEMMA GroupStepsImplement ==
  ASSUME GroupInv, GroupNext, UNCHANGED ledgerVars
  PROVE  Stutters \/ Records!Next
<1> USE DEF GroupInv, GroupTypeOK
<1>1. ASSUME NEW actor \in Users, NEW g \in Groups, CreateGroup(actor, g)
      PROVE  Stutters \/ Records!Next
  <2>1. \A h \in Groups, u \in Users :
          IsMember(h, u)' <=> IsMember(h, u) \/ (h = g /\ u \in {actor})
    BY <1>1 DEF CreateGroup, IsMember
  <2>2. status[g] # "archived" /\ status' = [status EXCEPT ![g] = status'[g]]
        /\ status'[g] # "archived"
    BY <1>1 DEF CreateGroup
  <2>3. {actor} \in SUBSET Users
    OBVIOUS
  <2> QED
    BY <2>1, <2>2, <2>3, Joins
<1>2. ASSUME NEW g \in Groups, NEW users \in SUBSET Users, NEW action,
             Enrol(g, users, action), UNCHANGED status, status[g] # "archived"
      PROVE  Stutters \/ Records!Next
  <2>1. \A h \in Groups, u \in Users :
          IsMember(h, u)' <=> IsMember(h, u) \/ (h = g /\ u \in users)
    BY <1>2 DEF Enrol, IsMember
  <2>2. status' = [status EXCEPT ![g] = status'[g]] /\ status'[g] # "archived"
    BY <1>2
  <2> QED
    BY <1>2, <2>1, <2>2, Joins
<1>3. ASSUME NEW actor \in Users, NEW g \in Groups, JoinGroup(actor, g)
      PROVE  Stutters \/ Records!Next
  BY <1>2, <1>3 DEF JoinGroup
<1>4. ASSUME UNCHANGED <<status, role>>
      PROVE  Stutters
  <2>1. \A g \in Groups : Members(g)' = Members(g)
    BY <1>4 DEF Members, IsMember
  <2> QED
    BY <1>4, <2>1 DEF Stutters, Belonging, Archived, ledgerVars
<1>5. ASSUME NEW c \in GroupClients, AddGroupMembers(c)
      PROVE  Stutters \/ Records!Next
  BY <1>2, <1>5, CallShapes DEF AddGroupMembers, ValidateMemberAdd
<1>6. ASSUME NEW c \in GroupClients, UpdateMemberRole(c)
      PROVE  Stutters
  <2>1. /\ groupCall[c].group \in Groups /\ groupCall[c].target \in Users
        /\ groupCall[c].desired # "none"
        /\ role[groupCall[c].group][groupCall[c].target] # "none"
    BY <1>6, CallShapes DEF UpdateMemberRole, SnapshotHolds
  <2>2. \A g \in Groups, u \in Users : IsMember(g, u)' <=> IsMember(g, u)
    BY <1>6, <2>1 DEF UpdateMemberRole, IsMember
  <2>3. \A g \in Groups : Members(g)' = Members(g)
    BY <2>2 DEF Members
  <2> QED
    BY <1>6, <2>3 DEF UpdateMemberRole, Stutters, Belonging, Archived, ledgerVars
<1>7. ASSUME NEW c \in GroupClients, ArchiveGroup(c)
      PROVE  Records!Next
  <2>1. PICK g \in Groups :
          /\ status[g] = "active" /\ status' = [status EXCEPT ![g] = "archived"]
          /\ UNCHANGED role
    BY <1>7, CallShapes DEF ArchiveGroup
  <2>2. Members(g) # {}
    BY <2>1 DEF OneOwner, Members, IsMember
  <2>3. Archived' = Archived \cup {g}
    BY <2>1 DEF Archived
  <2>4. \A h \in Groups : Members(h)' = Members(h)
    BY <2>1 DEF Members, IsMember
  <2>5. Belonging' = Belonging
    BY <2>4 DEF Belonging
  <2>6. Records!Archive(g)
    BY <2>1, <2>2, <2>3, <2>5 DEF Records!Archive, Belonging, Archived, ledgerVars
  <2> QED
    BY <2>6 DEF Records!Next
<1>8. ASSUME NEW c \in GroupClients, EndGroupCall(c)
      PROVE  Stutters
  BY <1>4, <1>8 DEF EndGroupCall
<1>9. ASSUME NEW c \in GroupClients, NEW actor \in Users, NEW g \in Groups,
             \/ \E users \in SUBSET Users : LookupAdd(c, actor, g, users)
             \/ \E target \in Users, desired \in {"admin", "member"} :
                  LookupRole(c, actor, g, target, desired)
             \/ LookupArchive(c, actor, g)
      PROVE  Stutters
  BY <1>4, <1>9 DEF LookupAdd, LookupRole, LookupArchive
<1> QED
  BY <1>1, <1>3, <1>5, <1>6, <1>7, <1>8, <1>9 DEF GroupNext, GroupCallStep

\* An unarchived group whose members a request names is open to it.
LEMMA Opens ==
  ASSUME NEW g \in Groups, NEW users \in SUBSET Users, status[g] # "archived",
         \A u \in users : IsMember(g, u)
  PROVE  Records!OpenTo(g, users)
BY DEF Records!OpenTo, Members

LEMMA ExpenseStepsImplement ==
  ASSUME LedgerInv, NEW c \in Clients,
         (\E e \in ExpenseIds : CreateExpense(c, e)) \/ UpdateExpense(c)
  PROVE  Records!Next
<1> USE DEF LedgerInv, TypeOK
<1> DEFINE call == calls[c]
           input == call.input
           users == {call.actor, input.payer} \cup DOMAIN input.drafts
<1>1. call.actor \in Users /\ input \in ExpenseInput
  BY LedgerCallShapes DEF CreateExpense, UpdateExpense
<1>2. /\ input.group \in Groups /\ users \in SUBSET Users
      /\ SumFunction(input.drafts) = input.amount
  BY <1>1, InputShape
<1>3. status[input.group] # "archived" /\ \A u \in users : IsMember(input.group, u)
  BY DEF CreateExpense, UpdateExpense, EnsureExpenseWriteAllowed, PrepareAllowed, Involved
<1>4. Records!OpenTo(input.group, users)
  BY <1>2, <1>3, Opens
<1>5. UNCHANGED groupVars
  BY DEF CreateExpense, UpdateExpense
<1>6. Belonging' = Belonging /\ Archived' = Archived
  BY <1>5, SameGroups
<1>7. ASSUME NEW e \in ExpenseIds, CreateExpense(c, e)
      PROVE  Records!Next
  <2>1. Records!CreateExpense(e, call.actor, input)
    BY <1>2, <1>4, <1>6, <1>7
       DEF CreateExpense, IsNextId, Records!CreateExpense, Records!Put, Insert, Belonging,
           Archived
  <2> QED
    BY <1>1, <2>1 DEF Records!Next
<1>8. CASE UpdateExpense(c)
  <2> DEFINE e == call.expense
  <2>1. e \in ExpenseIds /\ e \in DOMAIN expenses /\ expenses[e].group = input.group
    BY <1>8, LedgerCallShapes DEF UpdateExpense, CallsRead
  <2>2. Records!UpdateExpense(e, call.actor, expenses[e].version, input)
    BY <1>2, <1>4, <1>6, <1>8, <2>1
       DEF UpdateExpense, UpdateMatches, UpdatedRow, Records!UpdateExpense,
           Records!Replaceable, Records!Replaced, Belonging, Archived
  <2> QED
    BY <1>1, <2>1, <2>2 DEF Records!Next
<1> QED
  BY <1>7, <1>8

LEMMA StatusStepsImplement ==
  ASSUME LedgerInv, NEW actor \in Users, NEW e \in ExpenseIds,
         NEW target \in {"confirmed", "cancelled"}, ChangeExpenseStatus(actor, e, target)
  PROVE  Records!Next
<1>1. UNCHANGED groupVars
  BY DEF ChangeExpenseStatus
<1>2. Belonging' = Belonging /\ Archived' = Archived
  BY <1>1, SameGroups
<1>3. actor \in Belonging[expenses[e].group] /\ expenses[e].status = "pending"
  BY ExpenseUsers DEF LedgerInv, ChangeExpenseStatus, ValidateExpenseTransition, Members, Belonging
<1>4. Records!SetStatus(e, actor, target)
  BY <1>2, <1>3 DEF ChangeExpenseStatus, StatusChanged, Records!SetStatus, Records!Settled,
                    Belonging, Archived
<1> QED
  BY <1>4 DEF Records!Next

LEMMA AdjustmentStepsImplement ==
  ASSUME LedgerInv, NEW c \in Clients, NEW a \in AdjustmentIds, NEW input \in AdjustmentInput,
         CreateAdjustment(c, a, input)
  PROVE  Records!Next
<1> USE DEF LedgerInv, TypeOK
<1> DEFINE call == calls[c]
           e == call.expense
           users == {call.actor} \cup DOMAIN input.alloc
<1>1. /\ e \in ExpenseIds /\ e \in DOMAIN expenses /\ call.actor \in Users
      /\ IsMember(expenses[e].group, call.actor)
  BY LedgerCallShapes DEF CreateAdjustment, CallsRead
<1>2. expenses[e].group \in Groups /\ users \in SUBSET Users
  BY <1>1, ExpenseUsers, AdjustmentShape
<1>3. status[expenses[e].group] # "archived" /\ \A u \in users : IsMember(expenses[e].group, u)
  BY <1>1 DEF CreateAdjustment, MayAdjust, BalancedOver
<1>4. Records!OpenTo(expenses[e].group, users)
  BY <1>2, <1>3, Opens
<1>5. UNCHANGED groupVars
  BY DEF CreateAdjustment
<1>6. Belonging' = Belonging /\ Archived' = Archived
  BY <1>5, SameGroups
<1>7. Refunded(e) = Records!Given(e)
  BY DEF Refunded, Refunds, Records!Given
<1>8. Records!CreateAdjustment(a, e, call.actor, input)
  BY <1>1, <1>4, <1>6, <1>7
     DEF CreateAdjustment, IsNextId, MayAdjust, BalancedOver, RefundFits,
         Records!CreateAdjustment, Records!Put, Insert, Belonging, Archived
<1> QED
  BY <1>1, <1>8 DEF Records!Next

LEMMA SettlementStepsImplement ==
  ASSUME LedgerInv, SettlementNext
  PROVE  Records!Next
<1> USE DEF LedgerInv, TypeOK
<1>1. UNCHANGED groupVars
  BY DEF SettlementNext, CreateSettlement, ConfirmSettlement
<1>2. Belonging' = Belonging /\ Archived' = Archived
  BY <1>1, SameGroups
<1>3. ASSUME NEW s \in SettlementIds, NEW input \in SettlementInput, CreateSettlement(s, input)
      PROVE  Records!Next
  <2>1. input.group \in Groups /\ {input.sender, input.receiver} \in SUBSET Users
    BY DEF SettlementInput
  <2>2. Records!OpenTo(input.group, {input.sender, input.receiver})
    BY <1>3, <2>1, Opens DEF CreateSettlement
  <2>3. Records!CreateSettlement(s, input)
    BY <1>2, <1>3, <2>2 DEF CreateSettlement, IsNextId, Records!CreateSettlement, Records!Put,
                            Insert, Belonging, Archived
  <2> QED
    BY <2>3 DEF Records!Next
<1>4. ASSUME NEW actor \in Users, NEW s \in SettlementIds, ConfirmSettlement(actor, s)
      PROVE  Records!Next
  <2>1. Records!ConfirmSettlement(s, actor)
    BY <1>2, <1>4 DEF ConfirmSettlement, Confirmable, StatusChanged,
                      Records!ConfirmSettlement, Records!Settled, Belonging, Archived
  <2> QED
    BY <2>1 DEF Records!Next
<1> QED
  BY <1>3, <1>4 DEF SettlementNext

\* Operations on money happen whole or not at all and one after the other, whatever
\* the requests have read before and however they interleave.
THEOREM LedgerImplementsRecords == Spec => ImplementsRecords
<1>1. Init => Records!Init
  <2> SUFFICES ASSUME Init PROVE Records!Init
    OBVIOUS
  <2>1. [g \in Groups |-> Members(g)] = [g \in Groups |-> {}]
    BY DEF Init, GroupInit, Members, IsMember
  <2>2. {g \in Groups : status[g] = "archived"} = {}
    BY DEF Init, GroupInit
  <2> QED
    BY <2>1, <2>2 DEF Records!Init, Init, LedgerInit
<1>2. LedgerInv /\ [Next]_vars => [Records!Next]_(Records!records)
  <2> SUFFICES ASSUME LedgerInv, [Next]_vars PROVE Stutters \/ Records!Next
    BY DEF Stutters, Belonging, Archived, Records!records
  <2>1. CASE UNCHANGED <<groupVars, tables>>
    BY <2>1, SameGroups DEF Stutters, tables
  <2>2. CASE UNCHANGED vars \/ ReadNext
    BY <2>1, <2>2, ReadersOnlyRead DEF vars, ledgerVars, tables
  <2>3. CASE GroupNext /\ UNCHANGED ledgerVars
    BY <2>3, GroupStepsImplement DEF LedgerInv
  <2>4. CASE ExpenseNext
    BY <2>1, <2>4, ReadingTypes, ExpenseStepsImplement DEF ExpenseNext
  <2>5. CASE StatusNext
    BY <2>5, StatusStepsImplement DEF StatusNext
  <2>6. CASE AdjustmentNext
    BY <2>1, <2>6, AdjustmentStepsImplement, ReadingTypes DEF AdjustmentNext
  <2>7. CASE SettlementNext
    BY <2>7, SettlementStepsImplement
  <2> QED
    BY <2>2, <2>3, <2>4, <2>5, <2>6, <2>7 DEF Next
<1> QED
  BY <1>1, <1>2, LedgerInvariant, PTL DEF Spec, ImplementsRecords, Records!Spec

===============================================================================
