---------------------------- MODULE MCExpenseToPlan ----------------------------
(* A small instance of ExpenseToPlan for TLC: integers of four bits.           *)
EXTENDS ExpenseToPlan, TLC

UpTo(S, n) == UNION {[1 .. k -> S] : k \in 0 .. n}

\* Every request over small numbers, the ones a client should not have sent
\* included.
ParticipantRequests ==
  [type : {"equal", "fixed", "shares", "percentage"}, amount : 0 .. 5,
   participants : UpTo([user : 0 .. 4, value : -1 .. 2], 2)
                  \cup [1 .. 3 -> [user : 1 .. 3, value : 0 .. 3]]]

ItemRequests ==
  [type : {"item"}, amount : 0 .. 5,
   items : UpTo([amount : 0 .. 4, ids : UpTo(0 .. 3, 2) \cup {<<3, 1, 2>>}], 2)]

\* Six units among one, two or all users equally, with a part of zero, and by items.
Listed(users, numbers) == [i \in DOMAIN users |-> [user |-> users[i], value |-> numbers[i]]]

ConfirmedRequests ==
  [type : {"equal"}, amount : {6},
   participants : {Listed(ids, ids) : ids \in {<<1>>, <<1, 2>>, <<1, 2, 3>>}}]
  \cup {[type |-> "fixed", amount |-> 6, participants |-> Listed(<<1, 3>>, <<0, 6>>)],
        [type |-> "item", amount |-> 6,
         items |-> <<[amount |-> 2, ids |-> <<1>>], [amount |-> 4, ids |-> <<3, 1>>]>>]}

AllRequests == ParticipantRequests \cup ItemRequests \cup ConfirmedRequests

-----------------------------------------------------------------------------
\* The parts of an amount, nobody's being zero.
Parts(amount) ==
  {alloc \in UNION {[P -> 1 .. amount] : P \in SUBSET Users \ {{}}} :
     SumFunction(alloc) = amount}

Adjustments ==
  [kind : {"adjustment"}, id : {1}, type : {"refund", "correction"}, payer : Users,
   amount : {1}, currency : {1}, alloc : Parts(1)]

Transfer(from, to, amount, k) ==
  [kind |-> "settlement", id |-> 1, sender |-> from, receiver |-> to, amount |-> amount,
   currency |-> k]
Settlements ==
  {Transfer(u, v, 1, 1) : u, v \in Users}
  \cup {Transfer(1, 2, 0, 1), Transfer(1, 3, 1, 2), Transfer(3, 2, 1, 2)}

Valid(t) == t.amount > 0 /\ t.sender # t.receiver
Moves(a) == a.payer \notin DOMAIN a.alloc

\* A transfer in the same or another currency and an adjustment, each possibly
\* missing; with the expense some amounts add up to more than MaxInt, and some
\* balances to MinInt.  Nothing is counted after a transfer that is not valid, and
\* an adjustment of its payer's own part changes no balance: both stand alone.
SmallOthers ==
  {<<>>} \cup {<<t>> : t \in Settlements} \cup {<<a>> : a \in Adjustments}
  \cup {<<t, a>> : t \in {t \in Settlements : Valid(t)},
                   a \in {a \in Adjustments : Moves(a)}}

===============================================================================
