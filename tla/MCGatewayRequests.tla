--------------------------- MODULE MCGatewayRequests ---------------------------
(* A small instance of GatewayRequests for TLC: one group of two users, who send *)
(* requests about one expense, one adjustment and one settlement.                *)
EXTENDS GatewayRequests, Functions, TLC

CONSTANTS u1, u2, g, a, b, RUB

MCUsers == {u1, u2}

\* u1 pays for itself, or u2 does.
Own(u) == [group |-> g, payer |-> u, amount |-> 1, currency |-> RUB, drafts |-> (u :> 1)]

MCExpenseInputs == {Own(u1), Own(u2)}

Debt == [group |-> g, sender |-> u1, receiver |-> u2, amount |-> 1, currency |-> RUB]

MCSettlementInputs == {Debt}

Refund == [type |-> "refund", amount |-> 1, currency |-> RUB, alloc |-> (u1 :> 1)]

MCAdjustmentInputs == {Refund}

With(route, i) == [route |-> route, intent |-> i]

Update(u, version) ==
  With("updateExpense", [op |-> "updateExpense", actor |-> u, id |-> 1, version |-> version,
                         input |-> Own(u)])

OnExpense(op, u) == With(op, [op |-> op, actor |-> u, id |-> 1])

Create(op, u, input) == With(op, [op |-> op, actor |-> u, input |-> input])

\* Requests that change no record of money or members.
Others ==
  {With(route, NoIntent) : route \in DOMAIN Route \ Writing}

Founding == {With("createGroup", [op |-> "createGroup", actor |-> u1, group |-> g])}

Joining ==
  {With("joinGroup", [op |-> "joinGroup", actor |-> u2, group |-> g]),
   With("addGroupMembers", [op |-> "addGroupMembers", actor |-> u1, group |-> g,
                            users |-> {u2}])}

Archiving == {With("archiveGroup", [op |-> "archiveGroup", actor |-> u1, group |-> g])}

\* By the receiver, in the Mini App or with the button.
Confirming ==
  {With("confirmSettlement", [op |-> "confirmSettlement", actor |-> u2, id |-> 1])}

Expenses == {Create("createExpense", u1, Own(u1))}

\* An expense that is updated, confirmed and cancelled; settlements and adjustments
\* in a group that is archived; and all that changes no record.
MCWorkloads ==
  {(a :> Expenses \cup {Update(u1, 1), Update(u1, 2)})
   @@ (b :> Founding \cup
        {With("joinGroup", [op |-> "joinGroup", actor |-> u2, group |-> g]), Update(u2, 1),
         OnExpense("confirmExpense", u2), OnExpense("cancelExpense", u1)}),
   (a :> Founding \cup Archiving \cup Confirming \cup {Create("createSettlement", u1, Debt)})
   @@ (b :> Joining \cup Confirming),
   (a :> Expenses \cup {OnExpense("confirmExpense", u1)})
   @@ (b :> Founding \cup Archiving \cup
        {OnExpense("confirmExpense", u1),
         With("createAdjustment", [op |-> "createAdjustment", actor |-> u1, id |-> 1,
                                   input |-> Refund])}),
   (a :> Founding \cup Archiving) @@ (b :> Others)}

===============================================================================
