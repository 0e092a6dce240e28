------------------------------- MODULE PlanProofs -------------------------------
(***************************************************************************)
(* Proofs about ExpenseToPlan, the chain from a request to a plan, for any *)
(* users, currencies, requests, ledgers and width of integers.             *)
(***************************************************************************)
EXTENDS ExpenseToPlan, BalancesProofs, SequenceTheorems

-----------------------------------------------------------------------------
(* The parts speak of the same sums *)

LEMMA SameSums ==
  ASSUME NEW f
  PROVE  /\ Calculate!SumFunction(f) = SumOver(f, DOMAIN f)
         /\ Plan!SumFunction(f) = SumOver(f, DOMAIN f)
         /\ Divide!SumFunction(f) = SumOver(f, DOMAIN f)
         /\ SumFunction(f) = SumOver(f, DOMAIN f)
<1>1. Calculate!SumFunction(f) = SumOver(f, DOMAIN f)
  BY DEF Calculate!SumFunction, Calculate!SumFunctionOnSet, Calculate!FoldFunctionOnSet,
         Calculate!MapThenFoldSet, SumOver, SumFunctionOnSet, FoldFunctionOnSet, MapThenFoldSet
<1>2. Plan!SumFunction(f) = SumOver(f, DOMAIN f)
  BY DEF Plan!SumFunction, Plan!SumFunctionOnSet, Plan!FoldFunctionOnSet,
         Plan!MapThenFoldSet, SumOver, SumFunctionOnSet, FoldFunctionOnSet, MapThenFoldSet
<1>3. Divide!SumFunction(f) = SumOver(f, DOMAIN f)
  BY DEF Divide!SumFunction, Divide!SumFunctionOnSet, Divide!FoldFunctionOnSet,
         Divide!MapThenFoldSet, SumOver, SumFunctionOnSet, FoldFunctionOnSet, MapThenFoldSet
<1> QED
  BY <1>1, <1>2, <1>3, SumIs

LEMMA SameNets ==
  ASSUME NEW ledger, NEW u, NEW k
  PROVE  /\ Calculate!Net(ledger, u, k) = Net(ledger, u, k)
         /\ \A map, key : Calculate!Of(map, key) = Of(map, key)
<1>1. ASSUME NEW rows PROVE Calculate!InCurrency(rows, k) = InCurrency(rows, k)
  BY DEF Calculate!InCurrency, InCurrency
<1>2. \A f : Calculate!SumFunction(f) = SumFunction(f)
  BY SameSums
<1> QED
  BY <1>1, <1>2
     DEF Calculate!Net, Net, Calculate!ExpenseShare, ExpenseShare, Calculate!SettlementShare,
         SettlementShare, Calculate!AdjustmentShare, AdjustmentShare, Calculate!When, When,
         Calculate!Of, Of, Calculate!Sign, Sign

-----------------------------------------------------------------------------
(* A net amount is one sum over the rows *)

\* What a row adds to the net amount of u in k.
Share(op, u) ==
  IF op.kind = "expense" THEN ExpenseShare(op, u)
  ELSE IF op.kind = "settlement" THEN SettlementShare(op, u) ELSE AdjustmentShare(op, u)
Effect(op, u, k) == IF op.currency = k THEN Share(op, u) ELSE 0
NetOf(rows, u, k) == SumOver([op \in rows |-> Effect(op, u, k)], rows)

OfKind(rows, kind) == {op \in rows : op.kind = kind}
LedgerFrom(rows) ==
  [expenses    |-> OfKind(rows, "expense"),
   settlements |-> OfKind(rows, "settlement"),
   adjustments |-> OfKind(rows, "adjustment")]

\* A finite set of rows.
AreRows(rows) == IsFiniteSet(rows) /\ \A op \in rows : IsRow(op)

LEMMA EffectInt ==
  ASSUME NEW op, IsRow(op), NEW u, NEW k
  PROVE  Share(op, u) \in Int /\ Effect(op, u, k) \in Int
<1>1. CASE op.kind = "settlement"
  BY <1>1 DEF IsRow, Share, Effect, SettlementShare, When
<1>2. CASE op.kind # "settlement"
  <2>1. When(op.payer = u, op.amount) - Of(op.alloc, u) \in Int
    BY <1>2 DEF IsRow, When, Of
  <2>2. Sign(op) = 1 \/ Sign(op) = -1
    BY DEF Sign
  <2>3. Sign(op) * (When(op.payer = u, op.amount) - Of(op.alloc, u)) \in Int
    BY <2>1, <2>2
  <2> QED
    BY <1>2, <2>1, <2>3 DEF Share, Effect, ExpenseShare, AdjustmentShare
<1> QED
  BY <1>1, <1>2

\* The rows of a kind contribute what their table contributes.
LEMMA KindSum ==
  ASSUME NEW rows, AreRows(rows), NEW u, NEW k, NEW kind, NEW g,
         \A op \in InCurrency(OfKind(rows, kind), k) : g[op] = Share(op, u)
  PROVE  SumOver(g, InCurrency(OfKind(rows, kind), k))
           = SumOver([op \in rows |-> Effect(op, u, k)], OfKind(rows, kind))
<1> DEFINE f == [op \in rows |-> Effect(op, u, k)]
           K == OfKind(rows, kind)
           C == InCurrency(K, k)
<1>1. /\ IsFiniteSet(K) /\ IsFiniteSet(C) /\ C \in SUBSET K /\ K \subseteq rows
      /\ \A op \in K : f[op] \in Int
      /\ \A op \in K \ C : f[op] = 0
      /\ \A op \in C : f[op] = g[op]
  <2>1. K \subseteq rows /\ C \subseteq K
    BY DEF OfKind, InCurrency
  <2>2. IsFiniteSet(K) /\ IsFiniteSet(C)
    BY <2>1, FS_Subset DEF AreRows
  <2>3. \A op \in K : f[op] \in Int
    BY <2>1, EffectInt DEF AreRows
  <2> QED
    BY <2>1, <2>2, <2>3 DEF InCurrency, Effect
<1> HIDE DEF f, K, C
<1>2. SumOver(f, K) = SumOver(f, C)
  BY <1>1, SumSupport
<1>3. SumOver(f, C) = SumOver(g, C)
  BY <1>1, SumSame
<1> QED
  BY <1>2, <1>3 DEF f, K, C

LEMMA NetIs ==
  ASSUME NEW rows, AreRows(rows), NEW u, NEW k
  PROVE  Net(LedgerFrom(rows), u, k) = NetOf(rows, u, k) /\ NetOf(rows, u, k) \in Int
<1> DEFINE f == [op \in rows |-> Effect(op, u, k)]
           E == OfKind(rows, "expense")
           S == OfKind(rows, "settlement")
           A == OfKind(rows, "adjustment")
           e == [op \in InCurrency(E, k) |-> ExpenseShare(op, u)]
           s == [op \in InCurrency(S, k) |-> SettlementShare(op, u)]
           a == [op \in InCurrency(A, k) |-> AdjustmentShare(op, u)]
<1>1. /\ \A op \in InCurrency(E, k) : e[op] = Share(op, u)
      /\ \A op \in InCurrency(S, k) : s[op] = Share(op, u)
      /\ \A op \in InCurrency(A, k) : a[op] = Share(op, u)
  BY DEF InCurrency, OfKind, Share
<1>2. Net(LedgerFrom(rows), u, k)
        = SumOver(e, InCurrency(E, k)) + SumOver(s, InCurrency(S, k)) + SumOver(a, InCurrency(A, k))
  <2>1. SumFunction(e) = SumOver(e, InCurrency(E, k))
    BY SumIs
  <2>2. SumFunction(s) = SumOver(s, InCurrency(S, k))
    BY SumIs
  <2>3. SumFunction(a) = SumOver(a, InCurrency(A, k))
    BY SumIs
  <2> QED
    BY <2>1, <2>2, <2>3 DEF Net, LedgerFrom
<1>3. SumOver(e, InCurrency(E, k)) = SumOver(f, E)
  BY <1>1, KindSum
<1>4. SumOver(s, InCurrency(S, k)) = SumOver(f, S)
  BY <1>1, KindSum
<1>5. SumOver(a, InCurrency(A, k)) = SumOver(f, A)
  BY <1>1, KindSum
<1>6. /\ IsFiniteSet(rows) /\ \A op \in rows : f[op] \in Int
      /\ E \in SUBSET rows /\ S \in SUBSET (rows \ E) /\ A = (rows \ E) \ S
  BY EffectInt DEF AreRows, IsRow, OfKind
<1> HIDE DEF f, E, S, A, e, s, a
<1>7. SumOver(f, rows) = SumOver(f, E) + SumOver(f, rows \ E)
  BY <1>6, SumParts
<1>8. IsFiniteSet(rows \ E) /\ \A op \in rows \ E : f[op] \in Int
  BY <1>6, FS_Subset
<1>9. SumOver(f, rows \ E) = SumOver(f, S) + SumOver(f, A)
  BY <1>6, <1>8, SumParts
<1>10. /\ SumOver(f, rows) \in Int /\ SumOver(f, E) \in Int /\ SumOver(f, S) \in Int
       /\ SumOver(f, A) \in Int
  <2>1. \A D \in SUBSET rows : SumOver(f, D) \in Int
    <3> TAKE D \in SUBSET rows
    <3>1. IsFiniteSet(D) /\ \A op \in D : f[op] \in Int
      BY <1>6, FS_Subset
    <3> QED
      BY <3>1, SumInt
  <2>2. rows \in SUBSET rows /\ E \in SUBSET rows /\ S \in SUBSET rows /\ A \in SUBSET rows
    BY <1>6
  <2> QED
    BY <2>1, <2>2
<1>11. NetOf(rows, u, k) = SumOver(f, rows)
  BY DEF NetOf, f
<1> QED
  BY <1>2, <1>3, <1>4, <1>5, <1>7, <1>9, <1>10, <1>11

\* One more row.
OneMore(rows, op, more) ==
  AreRows(rows) /\ IsRow(op) /\ op \notin rows /\ more = rows \cup {op}

LEMMA NetAdds ==
  ASSUME NEW rows, NEW op, NEW more, OneMore(rows, op, more), NEW u, NEW k
  PROVE  NetOf(more, u, k) = NetOf(rows, u, k) + Effect(op, u, k)
<1> DEFINE f == [r \in rows |-> Effect(r, u, k)]
           g == [r \in rows \cup {op} |-> Effect(r, u, k)]
<1>1. AreRows(rows) /\ IsRow(op) /\ op \notin rows /\ more = rows \cup {op}
  BY DEF OneMore
<1>2. /\ g[op] = Effect(op, u, k) /\ g[op] \in Int /\ IsFiniteSet(rows)
      /\ \A r \in rows : f[r] \in Int /\ f[r] = g[r] /\ g[r] \in Int
  BY <1>1, EffectInt DEF AreRows
<1>3. NetOf(rows, u, k) = SumOver(f, rows) /\ NetOf(more, u, k) = SumOver(g, rows \cup {op})
  BY <1>1 DEF NetOf
<1> HIDE DEF f, g
<1>4. SumOver(f, rows) = SumOver(g, rows)
  BY <1>2, SumSame
<1>5. SumOver(g, rows \cup {op}) = g[op] + SumOver(g, rows)
  BY <1>1, <1>2, SumAdd
<1>6. SumOver(g, rows) \in Int
  BY <1>2, SumInt
<1>7. Effect(op, u, k) \in Int
  BY <1>1, EffectInt
<1> QED
  BY <1>1, <1>2, <1>3, <1>4, <1>5, <1>6, <1>7

-----------------------------------------------------------------------------
(* Counting the operations *)

\* What an operation adds to the map, credit and charge, is its share.
LEMMA ChangesAreShares ==
  ASSUME NEW op, IsRow(op), NEW u
  PROVE  /\ DOMAIN Calculate!Credited(op) \subseteq Users
         /\ DOMAIN Calculate!Charged(op) \subseteq Users
         /\ Of(Calculate!Credited(op), u) \in Int /\ Of(Calculate!Charged(op), u) \in Int
         /\ Of(Calculate!Credited(op), u) + Of(Calculate!Charged(op), u) = Share(op, u)
<1>1. CASE op.kind = "settlement"
  <2>1. /\ Calculate!Credited(op) = [v \in {op.sender} |-> op.amount]
        /\ Calculate!Charged(op) = [v \in {op.receiver} |-> -op.amount]
    BY <1>1 DEF IsRow, Calculate!Credited, Calculate!Charged, Calculate!Signed
  <2>2. /\ Of(Calculate!Credited(op), u) = When(op.sender = u, op.amount)
        /\ Of(Calculate!Charged(op), u) = -When(op.receiver = u, op.amount)
    BY <1>1, <2>1 DEF Of, When, IsRow
  <2>3. Share(op, u) = When(op.sender = u, op.amount) - When(op.receiver = u, op.amount)
    BY <1>1 DEF Share, SettlementShare
  <2>4. When(op.sender = u, op.amount) \in Int /\ When(op.receiver = u, op.amount) \in Int
    BY DEF When, IsRow
  <2>5. op.sender \in Users /\ op.receiver \in Users
    BY <1>1 DEF IsRow
  <2> QED
    BY <2>1, <2>2, <2>3, <2>4, <2>5
<1>2. CASE op.kind # "settlement"
  <2> DEFINE sign == Calculate!Signed(op)
  <2>1. /\ Calculate!Credited(op) = [v \in {op.payer} |-> sign * op.amount]
        /\ Calculate!Charged(op) = [v \in DOMAIN op.alloc |-> -sign * op.alloc[v]]
    BY <1>2 DEF Calculate!Credited, Calculate!Charged
  <2>2. /\ sign = 1 \/ sign = -1
        /\ op.kind = "expense" => sign = 1
        /\ op.kind = "adjustment" => sign = Sign(op)
    BY DEF Calculate!Signed, Calculate!Sign, Sign
  <2>3. op.amount \in Int /\ Of(op.alloc, u) \in Int /\ When(op.payer = u, op.amount) \in Int
    BY <1>2 DEF IsRow, Of, When
  <2>4. Of(Calculate!Credited(op), u) = sign * When(op.payer = u, op.amount)
    BY <2>1, <2>2, <2>3 DEF Of, When
  <2>5. Of(Calculate!Charged(op), u) = -sign * Of(op.alloc, u)
    BY <2>1, <2>2, <2>3 DEF Of
  <2>6. Share(op, u) = sign * (When(op.payer = u, op.amount) - Of(op.alloc, u))
    <3>1. CASE op.kind = "expense"
      BY <3>1, <2>2, <2>3 DEF Share, ExpenseShare
    <3>2. CASE op.kind = "adjustment"
      BY <3>2, <2>2, <2>3 DEF Share, AdjustmentShare
    <3> QED
      BY <1>2, <3>1, <3>2 DEF IsRow
  <2>7. op.payer \in Users /\ DOMAIN op.alloc \subseteq Users
    BY <1>2 DEF IsRow
  <2> HIDE DEF sign
  <2>8. CASE sign = 1
    BY <2>1, <2>3, <2>4, <2>5, <2>6, <2>7, <2>8
  <2>9. CASE sign = -1
    BY <2>1, <2>3, <2>4, <2>5, <2>6, <2>7, <2>9
  <2> QED
    BY <2>2, <2>8, <2>9
<1> QED
  BY <1>1, <1>2

\* A map from users and currencies to integers.
IsMap(map) == DOMAIN map \subseteq Users \X Currencies /\ \A key \in DOMAIN map : map[key] \in Int

LEMMA AddedIs ==
  ASSUME NEW map, IsMap(map), NEW changes, DOMAIN changes \subseteq Users,
         \A u \in Users : Of(changes, u) \in Int, NEW k \in Currencies
  PROVE  /\ IsMap(Calculate!Added(map, changes, k))
         /\ \A u \in Users, c \in Currencies :
              Of(Calculate!Added(map, changes, k), <<u, c>>)
                = Of(map, <<u, c>>) + (IF c = k THEN Of(changes, u) ELSE 0)
<1> DEFINE D == (DOMAIN map) \cup ((DOMAIN changes) \X {k})
           new == Calculate!Added(map, changes, k)
<1>1. new = [key \in D |-> Of(map, key) + (IF key[2] = k THEN Of(changes, key[1]) ELSE 0)]
  BY SameNets DEF Calculate!Added
<1>2. D \subseteq Users \X Currencies
  BY DEF IsMap
<1>3. \A u \in Users, c \in Currencies : Of(map, <<u, c>>) \in Int
  BY DEF IsMap, Of
<1>4. ASSUME NEW u \in Users, NEW c \in Currencies
      PROVE  /\ <<u, c>> \in D =>
                  new[<<u, c>>] = Of(map, <<u, c>>) + (IF c = k THEN Of(changes, u) ELSE 0)
             /\ <<u, c>> \notin D => Of(map, <<u, c>>) = 0 /\ (c = k => Of(changes, u) = 0)
  BY <1>1 DEF Of
<1> HIDE DEF D
<1>5. DOMAIN new = D
  BY <1>1
<1> HIDE DEF new
<1>6. ASSUME NEW u \in Users, NEW c \in Currencies
      PROVE  Of(new, <<u, c>>) = Of(map, <<u, c>>) + (IF c = k THEN Of(changes, u) ELSE 0)
  BY <1>3, <1>4, <1>5 DEF Of
<1>7. IsMap(new)
  BY <1>2, <1>3, <1>4, <1>5 DEF IsMap
<1> QED
  BY <1>6, <1>7 DEF new

\* The first n rows of the argument.
First(n) == {input[i] : i \in 1 .. n}

LEMMA FirstRows ==
  ASSUME IsLedger(input), NEW n \in 0 .. Len(input)
  PROVE  /\ AreRows(First(n))
         /\ n < Len(input) => /\ First(n + 1) = First(n) \cup {input[n + 1]}
                              /\ input[n + 1] \notin First(n) /\ IsRow(input[n + 1])
<1>1. DOMAIN input = 1 .. Len(input) /\ Len(input) \in Nat
  BY DEF IsLedger
<1>2. IsFiniteSet(1 .. n)
  BY FS_Interval
<1>3. IsFiniteSet(First(n))
  BY <1>2, ImageFinite DEF First
<1>4. AreRows(First(n))
  BY <1>1, <1>3 DEF AreRows, First, IsLedger
<1>5. ASSUME n < Len(input)
      PROVE  /\ First(n + 1) = First(n) \cup {input[n + 1]}
             /\ input[n + 1] \notin First(n) /\ IsRow(input[n + 1])
  <2>1. n + 1 \in DOMAIN input /\ \A i \in 1 .. n : i \in DOMAIN input /\ i # n + 1
    BY <1>1, <1>5
  <2>2. 1 .. (n + 1) = (1 .. n) \cup {n + 1}
    OBVIOUS
  <2>3. First(n + 1) = First(n) \cup {input[n + 1]}
    BY <2>2 DEF First
  <2>4. input[n + 1] \notin First(n)
    BY <2>1 DEF First, IsLedger
  <2> QED
    BY <2>1, <2>3, <2>4 DEF IsLedger
<1> QED
  BY <1>4, <1>5

\* The map after the first n rows have been counted is what they mean.
CountedUpTo(n) ==
  /\ n \in 0 .. Len(input) /\ rest = SubSeq(input, n + 1, Len(input))
  /\ \A u \in Users, k \in Currencies : Of(values, <<u, k>>) = NetOf(First(n), u, k)

CountInv ==
  /\ IsLedger(input)
  /\ counting \in {"count", "totals", "done", "refused"}
  /\ IsMap(values) /\ Calculate!Fits(values)
  /\ \E n \in 0 .. Len(input) : CountedUpTo(n)
  /\ counting \in {"totals", "done"} => rest = <<>>

\* The map with the credit of the next row, and with its charges as well.
Credited == Calculate!Added(values, Calculate!Credited(Head(rest)), Head(rest).currency)
Charged  == Calculate!Added(Credited, Calculate!Charged(Head(rest)), Head(rest).currency)

LEMMA NextRow ==
  ASSUME CountInv, rest # <<>>, NEW n \in 0 .. Len(input), CountedUpTo(n)
  PROVE  /\ n < Len(input) /\ n + 1 \in 0 .. Len(input) /\ n \in Nat
         /\ Head(rest) = input[n + 1] /\ Tail(rest) = SubSeq(input, n + 2, Len(input))
         /\ AreRows(First(n)) /\ First(n + 1) = First(n) \cup {Head(rest)}
         /\ Head(rest) \notin First(n) /\ IsRow(Head(rest))
         /\ Head(rest).currency \in Currencies
         /\ IsMap(Credited) /\ IsMap(Charged)
         /\ \A u \in Users, c \in Currencies :
              /\ Of(Credited, <<u, c>>)
                   = Of(values, <<u, c>>) + (IF c = Head(rest).currency
                                             THEN Of(Calculate!Credited(Head(rest)), u) ELSE 0)
              /\ Of(Charged, <<u, c>>) = NetOf(First(n + 1), u, c)
<1> DEFINE op       == Head(rest)
<1>1. CountedUpTo(n)
  OBVIOUS
<1>2. /\ input \in Seq({input[i] : i \in DOMAIN input}) /\ DOMAIN input = 1 .. Len(input)
      /\ Len(input) \in Nat
  BY DEF CountInv, IsLedger
<1>3. n < Len(input) /\ op = input[n + 1] /\ Tail(rest) = SubSeq(input, n + 2, Len(input))
  <2>1. rest # <<>> /\ rest = SubSeq(input, n + 1, Len(input))
    BY <1>1 DEF CountedUpTo
  <2>2. n < Len(input)
    BY <1>2, <2>1, SubSeqEmpty
  <2>3. n + 1 \in 1 .. Len(input) /\ Len(input) \in (n + 1) .. Len(input)
    BY <1>2, <2>2
  <2>4. /\ Head(SubSeq(input, n + 1, Len(input))) = input[n + 1]
        /\ Tail(SubSeq(input, n + 1, Len(input))) = SubSeq(input, (n + 1) + 1, Len(input))
    BY <1>2, <2>3, HeadTailOfSubSeq
  <2>5. (n + 1) + 1 = n + 2
    OBVIOUS
  <2> QED
    BY <2>1, <2>2, <2>4, <2>5
<1>4. /\ AreRows(First(n)) /\ First(n + 1) = First(n) \cup {op} /\ op \notin First(n)
      /\ IsRow(op)
  BY <1>3, FirstRows DEF CountInv
<1>5. op.currency \in Currencies
  BY <1>4 DEF IsRow
<1>6. /\ DOMAIN Calculate!Credited(op) \subseteq Users
      /\ DOMAIN Calculate!Charged(op) \subseteq Users
      /\ \A u \in Users : /\ Of(Calculate!Credited(op), u) \in Int
                           /\ Of(Calculate!Charged(op), u) \in Int
                           /\ Of(Calculate!Credited(op), u) + Of(Calculate!Charged(op), u)
                                = Share(op, u)
  BY <1>4, ChangesAreShares
<1>7. IsMap(values)
  BY DEF CountInv
<1> HIDE DEF op
<1>8. /\ IsMap(Credited)
      /\ \A u \in Users, c \in Currencies :
           Of(Credited, <<u, c>>)
             = Of(values, <<u, c>>)
               + (IF c = op.currency THEN Of(Calculate!Credited(op), u) ELSE 0)
  BY <1>5, <1>6, <1>7, AddedIs DEF Credited, op
<1>9. /\ IsMap(Charged)
      /\ \A u \in Users, c \in Currencies :
           Of(Charged, <<u, c>>)
             = Of(Credited, <<u, c>>)
               + (IF c = op.currency THEN Of(Calculate!Charged(op), u) ELSE 0)
  BY <1>5, <1>6, <1>8, AddedIs DEF Charged, op
<1>10. ASSUME NEW u \in Users, NEW c \in Currencies
       PROVE  Of(Charged, <<u, c>>) = NetOf(First(n + 1), u, c)
  <2>1. Of(values, <<u, c>>) = NetOf(First(n), u, c) /\ NetOf(First(n), u, c) \in Int
    BY <1>1, <1>4, NetIs DEF CountedUpTo
  <2>2. NetOf(First(n + 1), u, c) = NetOf(First(n), u, c) + Effect(op, u, c)
    <3>1. OneMore(First(n), op, First(n + 1))
      BY <1>4 DEF OneMore
    <3> QED
      BY <3>1, NetAdds
  <2>3. Effect(op, u, c) = IF c = op.currency THEN Share(op, u) ELSE 0
    BY DEF Effect
  <2> QED
    BY <1>6, <1>8, <1>9, <2>1, <2>2, <2>3
<1>11. n + 1 \in 0 .. Len(input) /\ n \in Nat
  BY <1>2, <1>3
<1> QED
  BY <1>3, <1>4, <1>5, <1>8, <1>9, <1>10, <1>11 DEF op

LEMMA CountStep ==
  ASSUME CountInv, Calculate!CountOperation
  PROVE  CountInv'
<1>1. PICK n \in 0 .. Len(input) : CountedUpTo(n)
  BY DEF CountInv
<1>2. rest # <<>> /\ counting = "count"
  BY DEF Calculate!CountOperation
<1>3. /\ n + 1 \in 0 .. Len(input) /\ Tail(rest) = SubSeq(input, n + 2, Len(input)) /\ IsMap(Charged)
      /\ \A u \in Users, c \in Currencies : Of(Charged, <<u, c>>) = NetOf(First(n + 1), u, c)
  BY <1>1, <1>2, NextRow
<1>4. CASE counting' = "refused" /\ UNCHANGED <<rest, values, left, totals>> /\ UNCHANGED input
  <2>1. CountedUpTo(n)'
    BY <1>1, <1>4 DEF CountedUpTo, First, NetOf, Effect, Share
  <2> QED
    BY <1>4, <2>1 DEF CountInv, IsMap, Calculate!Fits, IsLedger, IsRow
<1>5. CASE /\ values' = Charged /\ rest' = Tail(rest) /\ UNCHANGED <<input, counting>>
            /\ Calculate!Fits(Charged)
  <2>1. First(n + 1)' = First(n + 1)
    BY <1>5 DEF First
  <2>2. CountedUpTo(n + 1)'
    <3>1. (n + 1) + 1 = n + 2
      OBVIOUS
    <3> QED
      BY <1>3, <1>5, <2>1, <3>1 DEF CountedUpTo
  <2>3. n + 1 \in 0 .. Len(input')
    BY <1>3, <1>5
  <2> QED
    BY <1>2, <1>3, <1>5, <2>2, <2>3 DEF CountInv, IsLedger
<1> QED
  BY <1>4, <1>5 DEF Calculate!CountOperation, Calculate!Refuse, Credited, Charged

-----------------------------------------------------------------------------
(* Adding up the currencies *)

At(k)      == [u \in Users |-> Of(values, <<u, k>>)]
Reached(k) == {u \in Users : <<u, k>> \in (DOMAIN values) \ left}

\* Each total is the sum of the entries the loop has reached.
TotalsInv ==
  /\ totals \in [Currencies -> Int]
  /\ left \subseteq DOMAIN values
  /\ counting = "count" => left = {} /\ \A k \in Currencies : totals[k] = 0
  /\ counting \in {"totals", "done"} =>
       \A k \in Currencies : totals[k] = SumOver(At(k), Reached(k))
  /\ counting = "done" => left = {} /\ \A k \in Currencies : totals[k] = 0

ArithmeticInv == CountInv /\ TotalsInv

LEMMA AtInt ==
  ASSUME IsMap(values), NEW k \in Currencies
  PROVE  /\ \A u \in Users : At(k)[u] = Of(values, <<u, k>>) /\ At(k)[u] \in Int
         /\ IsFiniteSet(Users) /\ IsFiniteSet(Reached(k)) /\ Reached(k) \subseteq Users
<1>1. IsFiniteSet(Users) /\ Reached(k) \subseteq Users
  BY PlanAssumption DEF Reached
<1> QED
  BY <1>1, FS_Subset DEF At, Of, IsMap

\* Reaching one more entry.
LEMMA TotalAdds ==
  ASSUME CountInv, TotalsInv, counting = "totals", NEW u \in Users, NEW k \in Currencies,
         <<u, k>> \in left
  PROVE  /\ SumOver(At(k), Reached(k) \cup {u}) = totals[k] + values[<<u, k>>]
         /\ u \notin Reached(k)
<1>1. IsMap(values) /\ <<u, k>> \in DOMAIN values
  BY DEF CountInv, TotalsInv
<1>2. At(k)[u] = values[<<u, k>>] /\ u \notin Reached(k)
  BY <1>1 DEF At, Of, Reached
<1>3. /\ IsFiniteSet(Reached(k)) /\ At(k)[u] \in Int
      /\ \A v \in Reached(k) : At(k)[v] \in Int
  BY <1>1, AtInt
<1>4. SumOver(At(k), Reached(k) \cup {u}) = At(k)[u] + SumOver(At(k), Reached(k))
  BY <1>2, <1>3, SumAdd
<1>5. totals[k] = SumOver(At(k), Reached(k)) /\ totals[k] \in Int
  BY DEF TotalsInv
<1> QED
  BY <1>2, <1>3, <1>4, <1>5

LEMMA AddStep ==
  ASSUME CountInv, TotalsInv, NEW key \in Users \X Currencies, Calculate!AddToTotal(key)
  PROVE  TotalsInv'
<1>1. PICK u \in Users, k \in Currencies : key = <<u, k>>
  OBVIOUS
<1>2. key[1] = u /\ key[2] = k
  BY <1>1
<1>3. counting = "totals" /\ <<u, k>> \in left /\ UNCHANGED <<rest, values>>
  BY <1>1 DEF Calculate!AddToTotal, Calculate!Refuse
<1>4. CASE counting' = "refused" /\ UNCHANGED <<left, totals>>
  BY <1>3, <1>4 DEF TotalsInv
<1>5. CASE /\ totals' = [totals EXCEPT ![k] = totals[k] + values[<<u, k>>]]
           /\ left' = left \ {<<u, k>>} /\ UNCHANGED counting
  <2>1. /\ SumOver(At(k), Reached(k) \cup {u}) = totals[k] + values[<<u, k>>]
        /\ values[<<u, k>>] \in Int
    BY <1>3, TotalAdds DEF CountInv, TotalsInv, IsMap
  <2>2. \A c \in Currencies : At(c)' = At(c)
    BY <1>3 DEF At
  <2>3. Reached(k)' = Reached(k) \cup {u}
    <3>1. <<u, k>> \in DOMAIN values
      BY <1>3 DEF TotalsInv
    <3> QED
      BY <1>3, <1>5, <3>1 DEF Reached
  <2>4. \A c \in Currencies : c # k => Reached(c)' = Reached(c)
    BY <1>3, <1>5 DEF Reached
  <2>5. totals'[k] = SumOver(At(k)', Reached(k)')
    BY <1>5, <2>1, <2>2, <2>3 DEF TotalsInv
  <2>6. \A c \in Currencies : totals'[c] = SumOver(At(c)', Reached(c)')
    BY <1>3, <1>5, <2>2, <2>4, <2>5 DEF TotalsInv
  <2> QED
    BY <1>3, <1>5, <2>1, <2>6 DEF TotalsInv
<1> QED
  BY <1>1, <1>2, <1>4, <1>5 DEF Calculate!AddToTotal, Calculate!Refuse

LEMMA ArithmeticStep ==
  ASSUME ArithmeticInv, Calculate!ArithmeticNext
  PROVE  ArithmeticInv'
<1> USE DEF ArithmeticInv
<1>1. CASE Calculate!CountOperation
  <2>1. TotalsInv'
    BY <1>1 DEF TotalsInv, Calculate!CountOperation, Calculate!Refuse
  <2> QED
    BY <1>1, <2>1, CountStep
<1>2. ASSUME UNCHANGED <<input, rest, values>>, counting = "totals" \/ rest = <<>>,
             counting' \in {"totals", "done", "refused"}
      PROVE  CountInv'
  <2>1. \A n : First(n)' = First(n)
    BY <1>2 DEF First
  <2>2. \A n : CountedUpTo(n)' <=> CountedUpTo(n)
    BY <1>2, <2>1 DEF CountedUpTo, NetOf, Effect, Share
  <2>3. counting' \in {"totals", "done"} => rest' = <<>>
    BY <1>2 DEF CountInv
  <2> QED
    BY <1>2, <2>2, <2>3 DEF CountInv, IsMap, Calculate!Fits, IsLedger, IsRow
<1>3. CASE Calculate!Counted
  <2>1. CountInv'
    BY <1>2, <1>3 DEF Calculate!Counted
  <2>2. \A k \in Currencies : Reached(k)' = {}
    BY <1>3 DEF Calculate!Counted, Reached
  <2>3. \A k \in Currencies : SumOver(At(k)', {}) = 0
    BY SumEmpty
  <2> QED
    BY <1>3, <2>1, <2>2, <2>3 DEF Calculate!Counted, TotalsInv
<1>4. CASE Calculate!Balanced
  <2>1. CountInv'
    BY <1>2, <1>4 DEF Calculate!Balanced, Calculate!Refuse
  <2> QED
    BY <1>4, <2>1 DEF Calculate!Balanced, Calculate!Refuse, TotalsInv, At, Reached
<1>5. ASSUME NEW key \in Users \X Currencies, Calculate!AddToTotal(key)
      PROVE  ArithmeticInv'
  <2>1. CountInv'
    BY <1>2, <1>5 DEF Calculate!AddToTotal, Calculate!Refuse, CountInv
  <2> QED
    BY <1>5, <2>1, AddStep
<1> QED
  BY <1>1, <1>3, <1>4, <1>5 DEF Calculate!ArithmeticNext

\* When every row is counted the map holds the net amounts of the ledger.
LEMMA AllCounted ==
  ASSUME ArithmeticInv, counting \in {"totals", "done"}
  PROVE  /\ AreRows(Calculate!Operations) /\ Calculate!Ledger = LedgerFrom(Calculate!Operations)
         /\ IsMap(values)
         /\ \A u \in Users, k \in Currencies :
              /\ Of(values, <<u, k>>) = Net(Calculate!Ledger, u, k)
              /\ Of(values, <<u, k>>) = NetOf(Calculate!Operations, u, k)
              /\ Of(values, <<u, k>>) \in Int
<1>1. PICK n \in 0 .. Len(input) : CountedUpTo(n)
  BY DEF ArithmeticInv, CountInv
<1>2. input \in Seq({input[i] : i \in DOMAIN input}) /\ IsLedger(input) /\ rest = <<>>
      /\ DOMAIN input = 1 .. Len(input) /\ Len(input) \in Nat /\ IsMap(values)
  BY DEF ArithmeticInv, CountInv, IsLedger
<1>3. n = Len(input)
  <2>0. Len(input) \in Nat
    BY <1>2
  <2> SUFFICES ASSUME n < Len(input) PROVE FALSE
    BY <2>0
  <2> DEFINE S == {input[j] : j \in DOMAIN input}
  <2>1. \A i \in (n + 1) .. Len(input) : input[i] \in S
    <3> TAKE i \in (n + 1) .. Len(input)
    <3>1. Len(input) \in Nat /\ DOMAIN input = 1 .. Len(input)
      BY <1>2
    <3>2. n \in Nat
      BY <3>1
    <3>3. i \in 1 .. Len(input)
      BY <3>1, <3>2
    <3> QED
      BY <3>1, <3>3
  <2> HIDE DEF S
  <2>2. Len(SubSeq(input, n + 1, Len(input)))
          = IF n + 1 <= Len(input) THEN Len(input) - (n + 1) + 1 ELSE 0
    BY <1>2, <2>1, SubSeqProperties
  <2>3. SubSeq(input, n + 1, Len(input)) = <<>>
    BY <1>1, <1>2 DEF CountedUpTo
  <2>4. Len(<<>>) = 0
    OBVIOUS
  <2>5. n \in Nat /\ n + 1 <= Len(input)
    BY <2>0
  <2>6. Len(SubSeq(input, n + 1, Len(input))) = 0
    BY <2>3, <2>4
  <2> QED
    BY <2>0, <2>2, <2>5, <2>6
<1>4. First(n) = Calculate!Operations /\ AreRows(First(n))
  BY <1>2, <1>3, FirstRows DEF First, Calculate!Operations
<1>5. Calculate!Ledger = LedgerFrom(First(n))
  BY <1>4 DEF Calculate!Ledger, LedgerFrom, OfKind
<1>6. ASSUME NEW u \in Users, NEW k \in Currencies
      PROVE  /\ Of(values, <<u, k>>) = Net(Calculate!Ledger, u, k)
             /\ Of(values, <<u, k>>) = NetOf(First(n), u, k)
             /\ Of(values, <<u, k>>) \in Int
  <2>1. Net(LedgerFrom(First(n)), u, k) = NetOf(First(n), u, k) /\ NetOf(First(n), u, k) \in Int
    BY <1>4, NetIs
  <2> QED
    BY <1>1, <1>5, <2>1 DEF CountedUpTo
<1> QED
  BY <1>2, <1>4, <1>5, <1>6

\* The balances that are returned are the net amounts of the ledger, and they close.
LEMMA DoneMeans ==
  ASSUME ArithmeticInv, counting = "done"
  PROVE  /\ \A u \in Users, k \in Currencies :
              /\ Of(values, <<u, k>>) = Net(Calculate!Ledger, u, k)
              /\ Of(values, <<u, k>>) \in Int
         /\ \A k \in Currencies : SumOver(At(k), Users) = 0
<1>1. ASSUME NEW k \in Currencies
      PROVE  SumOver(At(k), Users) = 0
  <2>1. SumOver(At(k), Reached(k)) = 0
    BY DEF ArithmeticInv, TotalsInv
  <2>2. \A u \in Users \ Reached(k) : At(k)[u] = 0
    BY DEF ArithmeticInv, TotalsInv, At, Reached, Of
  <2>3. /\ IsFiniteSet(Users) /\ Reached(k) \in SUBSET Users
        /\ \A u \in Users : At(k)[u] \in Int
    BY AllCounted, AtInt
  <2>4. SumOver(At(k), Users) = SumOver(At(k), Reached(k))
    BY <2>2, <2>3, SumSupport
  <2> QED
    BY <2>1, <2>4
<1> QED
  BY <1>1, AllCounted

-----------------------------------------------------------------------------
(* A well-formed ledger that fits is never refused *)

\* A row that passes the checks of CalculateBalances.
Sound(op) == IsRow(op) /\ op.amount > 0 /\ Calculate!Valid(op)

AreSound(rows) == IsFiniteSet(rows) /\ \A op \in rows : Sound(op)

\* What the rows are about, together.
Weight(rows) == SumOver([op \in rows |-> op.amount], rows)

LEMMA SoundIs ==
  ASSUME NEW op, Sound(op)
  PROVE  /\ op.amount \in Nat
         /\ op.kind = "settlement" => op.sender # op.receiver
         /\ op.kind # "settlement" => SumFunction(op.alloc) = op.amount
                                      /\ \A u \in DOMAIN op.alloc : op.alloc[u] \in Nat
<1>1. op.amount \in Nat
  BY DEF Sound, IsRow
<1>2. Calculate!SumFunction(op.alloc) = SumFunction(op.alloc)
  BY SameSums
<1> QED
  BY <1>1, <1>2
     DEF Sound, IsRow, Calculate!Valid, Calculate!Transferred, Calculate!Allocated

\* Nobody is credited or charged more than the row's amount.
LEMMA ShareOfOne ==
  ASSUME NEW S \in SUBSET Users, NEW p, NEW x \in Nat, NEW f,
         \A u \in S : f[u] = When(p = u, x)
  PROVE  SumOver(f, S) \in 0 .. x
<1>1. IsFiniteSet(S)
  BY PlanAssumption, FS_Subset
<1>2. CASE p \in S
  BY <1>1, <1>2, SumOfWhen
<1>3. CASE p \notin S
  <2>1. \A u \in S : f[u] = 0
    BY <1>3 DEF When
  <2>2. SumOver(f, S) = 0
    BY <1>1, <2>1, SumZero
  <2> QED
    BY <2>2
<1> QED
  BY <1>2, <1>3

LEMMA ShareOfParts ==
  ASSUME NEW S \in SUBSET Users, NEW op, Sound(op), op.kind # "settlement", NEW f,
         \A u \in S : f[u] = Of(op.alloc, u)
  PROVE  SumOver(f, S) \in 0 .. op.amount
<1> DEFINE g == [u \in Users |-> Of(op.alloc, u)]
<1>1. /\ IsFiniteSet(Users) /\ IsFiniteSet(S) /\ IsFiniteSet(Users \ S)
  BY PlanAssumption, FS_Subset
<1>2. /\ op.amount \in Nat /\ SumFunction(op.alloc) = op.amount
      /\ \A u \in DOMAIN op.alloc : op.alloc[u] \in Nat
  BY SoundIs
<1>3. \A u \in Users : g[u] \in Nat /\ g[u] \in Int /\ g[u] = Of(op.alloc, u)
  BY <1>2 DEF Of
<1>4. DOMAIN op.alloc \subseteq Users /\ \A u \in DOMAIN op.alloc : op.alloc[u] \in Int
  BY DEF Sound, IsRow
<1> HIDE DEF g
<1>5. SumOver(g, Users) = op.amount
  BY <1>1, <1>2, <1>3, <1>4, SumOfParts
<1>6. SumOver(g, Users) = SumOver(g, S) + SumOver(g, Users \ S)
  BY <1>1, <1>3, SumParts
<1>7. \A u \in S : g[u] \in Nat /\ g[u] \in Int /\ g[u] = f[u]
  BY <1>3
<1>8. SumOver(g, S) \in Nat
  BY <1>1, <1>7, SumNat
<1>9. SumOver(g, Users \ S) \in Nat
  BY <1>1, <1>3, SumNat
<1>10. SumOver(g, S) = SumOver(f, S)
  BY <1>1, <1>7, SumSame
<1> QED
  BY <1>2, <1>5, <1>6, <1>8, <1>9, <1>10

LEMMA SharesBound ==
  ASSUME NEW S \in SUBSET Users, NEW op, Sound(op), NEW f,
         \A u \in S : f[u] = Share(op, u)
  PROVE  SumOver(f, S) \in Int /\ -op.amount <= SumOver(f, S) /\ SumOver(f, S) <= op.amount
<1>1. IsFiniteSet(S) /\ op.amount \in Nat /\ IsRow(op)
  BY PlanAssumption, FS_Subset, SoundIs DEF Sound
<1>2. CASE op.kind = "settlement"
  <2> DEFINE g == [u \in S |-> When(op.sender = u, op.amount)]
             h == [u \in S |-> When(op.receiver = u, op.amount)]
  <2>1. \A u \in S : /\ g[u] = When(op.sender = u, op.amount) /\ g[u] \in Int
                     /\ h[u] = When(op.receiver = u, op.amount) /\ h[u] \in Int
                     /\ f[u] \in Int /\ g[u] = h[u] + f[u]
    BY <1>1, <1>2 DEF Share, SettlementShare, When
  <2> HIDE DEF g, h
  <2>2. SumOver(g, S) \in 0 .. op.amount /\ SumOver(h, S) \in 0 .. op.amount
    <3>1. \A u \in S : g[u] = When(op.sender = u, op.amount)
      BY <2>1
    <3>2. \A u \in S : h[u] = When(op.receiver = u, op.amount)
      BY <2>1
    <3>3. SumOver(g, S) \in 0 .. op.amount
      BY <1>1, <3>1, ShareOfOne
    <3>4. SumOver(h, S) \in 0 .. op.amount
      BY <1>1, <3>2, ShareOfOne
    <3> QED
      BY <3>3, <3>4
  <2>3. SumOver(g, S) = SumOver(h, S) + SumOver(f, S)
    BY <1>1, <2>1, SumPlus
  <2>4. SumOver(f, S) \in Int
    BY <1>1, <2>1, SumInt
  <2> QED
    BY <1>1, <2>2, <2>3, <2>4
<1>3. CASE op.kind # "settlement"
  <2> DEFINE g == [u \in S |-> When(op.payer = u, op.amount)]
             h == [u \in S |-> Of(op.alloc, u)]
             d == [u \in S |-> g[u] - h[u]]
  <2>1. \A u \in S : /\ g[u] = When(op.payer = u, op.amount) /\ g[u] \in Int
                     /\ h[u] = Of(op.alloc, u) /\ h[u] \in Int
                     /\ d[u] \in Int /\ g[u] = h[u] + d[u]
    BY <1>1, <1>3 DEF When, Of, IsRow
  <2>2. \/ \A u \in S : d[u] \in Int /\ d[u] = f[u]
        \/ \A u \in S : d[u] \in Int /\ f[u] = -d[u]
    <3>1. Sign(op) = 1 \/ Sign(op) = -1
      BY DEF Sign
    <3>2. \A u \in S : f[u] = d[u] \/ f[u] = Sign(op) * d[u]
      BY <1>3 DEF Share, ExpenseShare, AdjustmentShare
    <3>3. op.kind = "expense" => \A u \in S : f[u] = d[u]
      BY <1>3 DEF Share, ExpenseShare
    <3>4. op.kind # "expense" => \A u \in S : f[u] = Sign(op) * d[u]
      BY <1>3 DEF Share, AdjustmentShare
    <3>5. CASE op.kind = "expense"
      BY <2>1, <3>3, <3>5
    <3>6. CASE op.kind # "expense" /\ Sign(op) = 1
      BY <2>1, <3>4, <3>6
    <3>7. CASE op.kind # "expense" /\ Sign(op) = -1
      BY <2>1, <3>4, <3>7
    <3> QED
      BY <3>1, <3>5, <3>6, <3>7
  <2> HIDE DEF g, h, d
  <2>3. SumOver(g, S) \in 0 .. op.amount
    BY <1>1, <2>1, ShareOfOne
  <2>4. SumOver(h, S) \in 0 .. op.amount
    BY <1>3, <2>1, ShareOfParts
  <2>5. SumOver(g, S) = SumOver(h, S) + SumOver(d, S)
    BY <1>1, <2>1, SumPlus
  <2>6. SumOver(d, S) \in Int
    BY <1>1, <2>1, SumInt
  <2>7. SumOver(f, S) = SumOver(d, S) \/ SumOver(f, S) = -SumOver(d, S)
    <3>1. CASE \A u \in S : d[u] \in Int /\ d[u] = f[u]
      BY <1>1, <3>1, SumSame
    <3>2. CASE \A u \in S : d[u] \in Int /\ f[u] = -d[u]
      BY <1>1, <3>2, SumMinus
    <3> QED
      BY <2>2, <3>1, <3>2
  <2> QED
    BY <1>1, <2>3, <2>4, <2>5, <2>6, <2>7
<1> QED
  BY <1>2, <1>3

\* However the users are grouped, their net amounts together never exceed the weight of the
\* ledger: no sum that the code forms on the way is larger than that of all amounts.
LEMMA NetsBound ==
  ASSUME NEW rows, AreSound(rows), NEW S \in SUBSET Users, NEW k, NEW f,
         \A u \in S : f[u] = NetOf(rows, u, k)
  PROVE  SumOver(f, S) \in Int /\ -Weight(rows) <= SumOver(f, S) /\ SumOver(f, S) <= Weight(rows)
<1> DEFINE row == [op \in rows |-> [u \in S |-> Effect(op, u, k)]]
           column == [u \in S |-> [op \in rows |-> Effect(op, u, k)]]
           r == [op \in rows |-> SumOver(row[op], S)]
           amounts == [op \in rows |-> op.amount]
           minus == [op \in rows |-> -op.amount]
<1>1. IsFiniteSet(S) /\ IsFiniteSet(rows) /\ \A op \in rows : Sound(op) /\ IsRow(op)
  BY PlanAssumption, FS_Subset DEF AreSound, Sound
<1>2. Tabulated(row, column, r, f, rows, S)
  <2>1. \A op \in rows, u \in S : row[op][u] \in Int /\ column[u][op] = row[op][u]
    BY <1>1, EffectInt
  <2>2. \A u \in S : f[u] = SumOver(column[u], rows)
    BY DEF NetOf
  <2> QED
    BY <2>1, <2>2 DEF Tabulated
<1>3. ASSUME NEW op \in rows
      PROVE  r[op] \in Int /\ -op.amount <= r[op] /\ r[op] <= op.amount /\ op.amount \in Nat
  <2>1. op.amount \in Nat /\ r[op] = SumOver(row[op], S)
    BY <1>1, SoundIs
  <2> DEFINE g == row[op]
  <2>2. CASE op.currency = k
    <3>1. \A u \in S : g[u] = Share(op, u)
      BY <2>2 DEF Effect
    <3> HIDE DEF g
    <3>2. SumOver(g, S) \in Int /\ -op.amount <= SumOver(g, S) /\ SumOver(g, S) <= op.amount
      BY <1>1, <3>1, SharesBound
    <3> QED
      BY <2>1, <3>2 DEF g
  <2>3. CASE op.currency # k
    <3>1. \A u \in S : g[u] = 0
      BY <2>3 DEF Effect
    <3> HIDE DEF g
    <3>2. SumOver(g, S) = 0
      BY <1>1, <3>1, SumZero
    <3> QED
      BY <2>1, <3>2 DEF g
  <2> QED
    BY <2>2, <2>3
<1>4. \A op \in rows : /\ r[op] \in Int /\ amounts[op] \in Int /\ minus[op] \in Int
                       /\ r[op] <= amounts[op] /\ minus[op] <= r[op] /\ minus[op] = -amounts[op]
  BY <1>3
<1>5. Weight(rows) = SumOver(amounts, rows)
  BY DEF Weight
<1> HIDE DEF row, column, r, amounts, minus
<1>6. SumOver(r, rows) = SumOver(f, S)
  BY <1>1, <1>2, SumTable
<1>7. SumOver(r, rows) \in Int /\ SumOver(amounts, rows) \in Int
  BY <1>1, <1>4, SumInt
<1>8. SumOver(r, rows) <= SumOver(amounts, rows)
  BY <1>1, <1>4, SumMonotone
<1>9. SumOver(minus, rows) <= SumOver(r, rows)
  BY <1>1, <1>4, SumMonotone
<1>10. SumOver(minus, rows) = -SumOver(amounts, rows)
  BY <1>1, <1>4, SumMinus
<1> QED
  BY <1>5, <1>6, <1>7, <1>8, <1>9, <1>10

\* A ledger whose amounts are right and add up to an integer.
Fitting ==
  /\ Calculate!WellFormed(Calculate!Ledger)
  /\ Calculate!SumFunction([op \in Calculate!Operations |-> op.amount]) =< MaxInt

\* Counting more rows, the weight grows but stays an integer.
LEMMA WeightGrows ==
  ASSUME IsLedger(input), Fitting
  PROVE  /\ AreSound(Calculate!Operations)
         /\ \A rows \in SUBSET Calculate!Operations :
              AreSound(rows) /\ Weight(rows) \in Nat /\ Weight(rows) <= MaxInt
         /\ \A rows \in SUBSET Calculate!Operations, op \in Calculate!Operations :
              op \notin rows => Weight(rows \cup {op}) = Weight(rows) + op.amount
<1> DEFINE all == Calculate!Operations
           amounts == [op \in all |-> op.amount]
<1>1. all = First(Len(input)) /\ Len(input) \in Nat
  BY DEF Calculate!Operations, First, IsLedger
<1>2. AreRows(all)
  <2>1. Len(input) \in 0 .. Len(input)
    BY <1>1
  <2> QED
    BY <1>1, <2>1, FirstRows
<1>3. \A op \in all : Sound(op)
  BY <1>2 DEF Fitting, Calculate!WellFormed, Calculate!Ledger, AreRows, IsRow, Sound,
              Calculate!Valid, Calculate!Transferred, Calculate!Allocated
<1>4. AreSound(all) /\ \A op \in all : amounts[op] \in Nat /\ amounts[op] = op.amount
  BY <1>2, <1>3, SoundIs DEF AreSound, AreRows
<1>5. SumOver(amounts, all) <= MaxInt
  <2>1. Calculate!SumFunction(amounts) = SumOver(amounts, all)
    BY SameSums
  <2> QED
    BY <2>1 DEF Fitting
<1>6. MaxInt \in Nat
  BY PlanAssumption
<1>7. ASSUME NEW rows \in SUBSET all
      PROVE  /\ AreSound(rows) /\ Weight(rows) = SumOver(amounts, rows)
             /\ Weight(rows) \in Nat /\ Weight(rows) <= MaxInt
  <2>1. /\ IsFiniteSet(all) /\ IsFiniteSet(rows) /\ IsFiniteSet(all \ rows)
    BY <1>4, FS_Subset DEF AreSound
  <2> DEFINE g == [op \in rows |-> op.amount]
  <2>2. \A op \in rows : g[op] \in Int /\ g[op] = amounts[op]
    BY <1>4
  <2>3. \A op \in all : amounts[op] \in Nat /\ amounts[op] \in Int
    BY <1>4
  <2>4. Weight(rows) = SumOver(g, rows)
    BY DEF Weight
  <2> HIDE DEF g, amounts, all
  <2>5. SumOver(g, rows) = SumOver(amounts, rows)
    BY <2>1, <2>2, SumSame
  <2>6. SumOver(amounts, all) = SumOver(amounts, rows) + SumOver(amounts, all \ rows)
    BY <2>1, <2>3, SumParts
  <2>7. SumOver(amounts, rows) \in Nat
    BY <2>1, <2>3, SumNat
  <2>8. SumOver(amounts, all \ rows) \in Nat
    BY <2>1, <2>3, SumNat
  <2>9. AreSound(rows)
    BY <1>4, <2>1 DEF AreSound
  <2> QED
    BY <1>5, <1>6, <2>4, <2>5, <2>6, <2>7, <2>8, <2>9
<1>8. ASSUME NEW rows \in SUBSET all, NEW op \in all, op \notin rows
      PROVE  Weight(rows \cup {op}) = Weight(rows) + op.amount
  <2>1. Weight(rows) = SumOver(amounts, rows) /\ Weight(rows) \in Nat /\ AreSound(rows)
    BY <1>7
  <2>2. rows \cup {op} \in SUBSET all
    OBVIOUS
  <2>3. Weight(rows \cup {op}) = SumOver(amounts, rows \cup {op})
    BY <1>7, <2>2
  <2>4. /\ IsFiniteSet(rows) /\ amounts[op] = op.amount /\ amounts[op] \in Int
        /\ \A x \in rows : amounts[x] \in Int
    BY <1>4, <2>1 DEF AreSound
  <2> HIDE DEF amounts
  <2>5. SumOver(amounts, rows \cup {op}) = amounts[op] + SumOver(amounts, rows)
    BY <1>8, <2>4, SumAdd
  <2> QED
    BY <2>1, <2>3, <2>4, <2>5
<1> QED
  BY <1>4, <1>7, <1>8

LEMMA NetBound ==
  ASSUME NEW rows, AreSound(rows), Weight(rows) \in Nat, NEW u \in Users, NEW k
  PROVE  -Weight(rows) <= NetOf(rows, u, k) /\ NetOf(rows, u, k) <= Weight(rows)
         /\ NetOf(rows, u, k) \in Int
<1> DEFINE f == [v \in {u} |-> NetOf(rows, v, k)]
<1>1. \A v \in {u} : f[v] = NetOf(rows, v, k)
  OBVIOUS
<1>2. AreRows(rows)
  BY DEF AreSound, AreRows, Sound
<1>3. NetOf(rows, u, k) \in Int /\ f[u] = NetOf(rows, u, k)
  BY <1>2, NetIs
<1> HIDE DEF f
<1>4. SumOver(f, {u}) = f[u]
  BY <1>3, SumOne
<1>5. {u} \in SUBSET Users
  OBVIOUS
<1>6. -Weight(rows) <= SumOver(f, {u}) /\ SumOver(f, {u}) <= Weight(rows)
  BY <1>1, <1>5, NetsBound
<1> QED
  BY <1>3, <1>4, <1>6

LEMMA CreditBound ==
  ASSUME NEW op, Sound(op), NEW u
  PROVE  /\ Of(Calculate!Credited(op), u) \in Int
         /\ -op.amount <= Of(Calculate!Credited(op), u)
         /\ Of(Calculate!Credited(op), u) <= op.amount
<1>1. op.amount \in Nat
  BY SoundIs
<1>2. Calculate!Signed(op) = 1 \/ Calculate!Signed(op) = -1
  BY DEF Calculate!Signed, Calculate!Sign
<1>3. Of(Calculate!Credited(op), u) = 0
        \/ Of(Calculate!Credited(op), u) = Calculate!Signed(op) * op.amount
  BY DEF Of, Calculate!Credited
<1>4. CASE Calculate!Signed(op) = 1
  BY <1>1, <1>3, <1>4
<1>5. CASE Calculate!Signed(op) = -1
  BY <1>1, <1>3, <1>5
<1> QED
  BY <1>2, <1>4, <1>5

\* Every row of a fitting ledger is counted ...
LEMMA CountsWhenFits ==
  ASSUME ArithmeticInv, Fitting, counting = "count", rest # <<>>
  PROVE  Calculate!Valid(Head(rest)) /\ Calculate!Fits(Credited) /\ Calculate!Fits(Charged)
<1>1. PICK n \in 0 .. Len(input) : CountedUpTo(n)
  BY DEF ArithmeticInv, CountInv
<1> DEFINE op == Head(rest)
<1>2. CountInv /\ IsLedger(input)
  BY DEF ArithmeticInv, CountInv
<1>3. /\ n < Len(input) /\ n \in Nat /\ op = input[n + 1]
      /\ OneMore(First(n), op, First(n + 1))
      /\ IsMap(Credited) /\ IsMap(Charged)
      /\ \A u \in Users, c \in Currencies :
           /\ Of(Credited, <<u, c>>)
                = Of(values, <<u, c>>) + (IF c = op.currency THEN Of(Calculate!Credited(op), u) ELSE 0)
           /\ Of(Charged, <<u, c>>) = NetOf(First(n + 1), u, c)
  BY <1>1, <1>2, NextRow DEF OneMore
<1>4. DOMAIN input = 1 .. Len(input) /\ Len(input) \in Nat
  BY <1>2 DEF IsLedger
<1>5. /\ op \in Calculate!Operations /\ First(n) \in SUBSET Calculate!Operations
      /\ First(n + 1) \in SUBSET Calculate!Operations
  BY <1>3, <1>4 DEF Calculate!Operations, First
<1>6. AreSound(Calculate!Operations) /\ Sound(op)
  BY <1>2, <1>5, WeightGrows DEF AreSound
<1>7. /\ AreSound(First(n)) /\ Weight(First(n)) \in Nat
      /\ AreSound(First(n + 1)) /\ Weight(First(n + 1)) \in Nat /\ Weight(First(n + 1)) <= MaxInt
  BY <1>2, <1>5, WeightGrows
<1>8. Weight(First(n + 1)) = Weight(First(n)) + op.amount
  BY <1>2, <1>3, <1>5, WeightGrows DEF OneMore
<1>9. op.amount \in Nat /\ MaxInt \in Nat
  BY <1>6, SoundIs, PlanAssumption
<1> HIDE DEF op
<1>10. ASSUME NEW u \in Users, NEW c \in Currencies
       PROVE  Of(Credited, <<u, c>>) \in Calculate!Ints /\ Of(Charged, <<u, c>>) \in Calculate!Ints
  <2>1. Of(values, <<u, c>>) = NetOf(First(n), u, c)
    BY <1>1 DEF CountedUpTo
  <2>2. /\ NetOf(First(n), u, c) \in Int
        /\ -Weight(First(n)) <= NetOf(First(n), u, c) /\ NetOf(First(n), u, c) <= Weight(First(n))
    BY <1>7, NetBound
  <2>3. /\ NetOf(First(n + 1), u, c) \in Int
        /\ -Weight(First(n + 1)) <= NetOf(First(n + 1), u, c)
        /\ NetOf(First(n + 1), u, c) <= Weight(First(n + 1))
    BY <1>7, NetBound
  <2>4. /\ Of(Calculate!Credited(op), u) \in Int
        /\ -op.amount <= Of(Calculate!Credited(op), u)
        /\ Of(Calculate!Credited(op), u) <= op.amount
    BY <1>6, CreditBound
  <2>5. Of(Credited, <<u, c>>)
          = NetOf(First(n), u, c) + (IF c = op.currency THEN Of(Calculate!Credited(op), u) ELSE 0)
    BY <1>3, <2>1
  <2>6. Of(Charged, <<u, c>>) = NetOf(First(n + 1), u, c)
    BY <1>3
  <2>7. Of(Credited, <<u, c>>) \in Calculate!Ints
    <3> DEFINE before == NetOf(First(n), u, c)
               credit == Of(Calculate!Credited(op), u)
               w      == Weight(First(n))
    <3>1. /\ before \in Int /\ -w <= before /\ before <= w /\ w \in Nat
          /\ credit \in Int /\ -op.amount <= credit /\ credit <= op.amount
          /\ op.amount \in Nat /\ MaxInt \in Nat
      BY <1>7, <1>9, <2>2, <2>4
    <3>2. w + op.amount <= MaxInt
      BY <1>7, <1>8
    <3>3. Of(Credited, <<u, c>>) = before \/ Of(Credited, <<u, c>>) = before + credit
      <4>1. before + 0 = before
        BY <3>1
      <4> QED
        BY <2>5, <4>1
    <3> HIDE DEF before, credit, w
    <3>4. before \in -MaxInt - 1 .. MaxInt
      BY <3>1, <3>2
    <3>5. before + credit \in -MaxInt - 1 .. MaxInt
      BY <3>1, <3>2
    <3> QED
      BY <3>3, <3>4, <3>5 DEF Calculate!Ints
  <2>8. Of(Charged, <<u, c>>) \in Calculate!Ints
    BY <1>7, <1>9, <2>3, <2>6 DEF Calculate!Ints
  <2> QED
    BY <2>7, <2>8
<1>11. ASSUME NEW map, IsMap(map),
              \A u \in Users, c \in Currencies : Of(map, <<u, c>>) \in Calculate!Ints
       PROVE  Calculate!Fits(map)
  BY <1>11 DEF Calculate!Fits, IsMap, Of
<1>12. Calculate!Valid(op)
  BY <1>6 DEF Sound
<1> QED
  BY <1>3, <1>10, <1>11, <1>12 DEF op

\* ... no sum of a currency leaves the integers, whatever the order of the map ...
LEMMA AddsWhenFits ==
  ASSUME ArithmeticInv, Fitting, counting = "totals", NEW u \in Users, NEW k \in Currencies,
         <<u, k>> \in left
  PROVE  totals[k] + values[<<u, k>>] \in Calculate!Ints
<1> DEFINE S == Reached(k) \cup {u}
           rows == Calculate!Operations
<1>1. IsLedger(input) /\ IsMap(values) /\ CountInv /\ TotalsInv
  BY DEF ArithmeticInv, CountInv
<1>2. SumOver(At(k), S) = totals[k] + values[<<u, k>>]
  BY <1>1, TotalAdds
<1>3. S \in SUBSET Users
  BY DEF Reached
<1>4. \A v \in S : At(k)[v] = NetOf(rows, v, k)
  BY <1>3, AllCounted DEF At
<1>5. AreSound(rows) /\ Weight(rows) \in Nat /\ Weight(rows) <= MaxInt
  BY <1>1, WeightGrows
<1> HIDE DEF S, rows
<1>6. /\ SumOver(At(k), S) \in Int /\ -Weight(rows) <= SumOver(At(k), S)
      /\ SumOver(At(k), S) <= Weight(rows)
  BY <1>3, <1>4, <1>5, NetsBound
<1>7. MaxInt \in Nat
  BY PlanAssumption
<1> QED
  BY <1>2, <1>5, <1>6, <1>7 DEF Calculate!Ints

\* ... and the currencies close.
LEMMA ClosesWhenFits ==
  ASSUME ArithmeticInv, Fitting, counting = "totals", left = {}, NEW k \in Currencies
  PROVE  totals[k] = 0
<1> DEFINE ledger == Calculate!Ledger
           means == [u \in Users |-> Net(ledger, u, k)]
<1>1. /\ IsLedger(input) /\ IsMap(values) /\ AreSound(Calculate!Operations)
      /\ IsFiniteSet(Users) /\ ledger = LedgerFrom(Calculate!Operations)
  BY AllCounted, WeightGrows, PlanAssumption DEF ArithmeticInv, CountInv
<1>2. LedgerOf(ledger, Users)
  <2>1. /\ \A op \in OfKind(Calculate!Operations, "expense") : Payable(op, Users)
        /\ \A op \in OfKind(Calculate!Operations, "adjustment") : Payable(op, Users)
        /\ \A op \in OfKind(Calculate!Operations, "settlement") : Payment(op, Users)
    <3>1. \A op \in Calculate!Operations : Sound(op) /\ IsRow(op)
      BY <1>1 DEF AreSound, Sound
    <3>2. \A op \in Calculate!Operations :
            op.kind # "settlement" => SumFunction(op.alloc) = op.amount
      BY <3>1, SoundIs
    <3> QED
      BY <3>1, <3>2 DEF OfKind, Payable, Payment, IsRow
  <2>2. \A kind : IsFiniteSet(OfKind(Calculate!Operations, kind))
    BY <1>1, FS_Subset DEF OfKind, AreSound
  <2> QED
    BY <1>1, <2>1, <2>2 DEF LedgerOf, LedgerFrom
<1>3. CurrencyTotal(ledger, Users, k) = 0
  BY <1>1, <1>2, LedgerCloses
<1>4. CurrencyTotal(ledger, Users, k) = SumOver(means, Users)
  BY SumIs DEF CurrencyTotal
<1>5. totals[k] = SumOver(At(k), Reached(k))
  BY DEF ArithmeticInv, TotalsInv
<1>6. /\ \A u \in Users : At(k)[u] \in Int /\ At(k)[u] = means[u]
      /\ \A u \in Users \ Reached(k) : At(k)[u] = 0
      /\ Reached(k) \in SUBSET Users
  BY AllCounted DEF At, Reached, Of
<1> HIDE DEF means, ledger
<1>7. SumOver(At(k), Users) = SumOver(At(k), Reached(k))
  BY <1>1, <1>6, SumSupport
<1>8. SumOver(At(k), Users) = SumOver(means, Users)
  BY <1>1, <1>6, SumSame
<1> QED
  BY <1>3, <1>4, <1>5, <1>7, <1>8

LEMMA NeverRefused ==
  ASSUME ArithmeticInv, Fitting => counting # "refused", Calculate!ArithmeticNext, Fitting'
  PROVE  counting' # "refused"
<1>1. input' = input
  BY DEF Calculate!ArithmeticNext, Calculate!CountOperation, Calculate!Counted,
         Calculate!Balanced, Calculate!AddToTotal
<1>2. Fitting
  BY <1>1 DEF Fitting, Calculate!Ledger, Calculate!Operations
<1>3. CASE Calculate!CountOperation
  <2>1. rest # <<>> /\ counting = "count"
    BY <1>3 DEF Calculate!CountOperation
  <2>2. Calculate!Valid(Head(rest)) /\ Calculate!Fits(Credited) /\ Calculate!Fits(Charged)
    BY <1>2, <2>1, CountsWhenFits
  <2> QED
    BY <1>3, <2>1, <2>2 DEF Calculate!CountOperation, Credited, Charged
<1>4. CASE Calculate!Counted
  BY <1>4 DEF Calculate!Counted
<1>5. CASE Calculate!Balanced
  <2>1. CASE counting = "totals" /\ left = {}
    BY <1>2, <1>5, <2>1, ClosesWhenFits DEF Calculate!Balanced
  <2> QED
    BY <1>5, <2>1 DEF Calculate!Balanced
<1>6. ASSUME NEW key \in Users \X Currencies, Calculate!AddToTotal(key)
      PROVE  counting' # "refused"
  <2>1. PICK u \in Users, k \in Currencies : key = <<u, k>>
    OBVIOUS
  <2>2. counting = "totals" /\ <<u, k>> \in left /\ key[2] = k
    BY <1>6, <2>1 DEF Calculate!AddToTotal
  <2>3. totals[k] + values[key] \in Calculate!Ints
    BY <1>2, <2>1, <2>2, AddsWhenFits
  <2> QED
    BY <1>6, <2>2, <2>3 DEF Calculate!AddToTotal
<1> QED
  BY <1>3, <1>4, <1>5, <1>6 DEF Calculate!ArithmeticNext

-----------------------------------------------------------------------------
(* Handing out a remainder *)

LEMMA SameNames ==
  ASSUME NEW S
  PROVE  Divide!Cardinality(S) = Cardinality(S) /\ Divide!Range(S) = Range(S)
BY DEF Divide!Cardinality, Cardinality, Divide!Range, Range

LEMMA Quotients ==
  ASSUME NEW a \in Int, NEW b \in Int, b > 0
  PROVE  /\ a \div b \in Int /\ a % b \in Int /\ 0 <= a % b /\ a % b < b
         /\ a = b * (a \div b) + (a % b)
         /\ a >= 0 => a \div b \in Nat
BY Z3

LEMMA Largest ==
  ASSUME NEW S \in SUBSET Nat, IsFiniteSet(S), S # {}
  PROVE  \E x \in S : \A y \in S : y <= x
<1> DEFINE Good == {T \in SUBSET S : T = {} \/ \E x \in T : \A y \in T : y <= x}
<1>1. {} \in Good
  OBVIOUS
<1>2. ASSUME NEW T \in SUBSET S, NEW x \in S \ T, T \in Good
      PROVE  T \cup {x} \in Good
  <2>1. CASE T = {}
    BY <1>2, <2>1
  <2>2. ASSUME NEW z \in T, \A y \in T : y <= z
        PROVE  T \cup {x} \in Good
    <3>1. CASE x <= z
      BY <1>2, <2>2, <3>1
    <3>2. CASE z <= x
      <4>1. \A y \in T \cup {x} : y <= x
        BY <1>2, <2>2, <3>2
      <4> QED
        BY <1>2, <4>1
    <3> QED
      BY <1>2, <2>2, <3>1, <3>2
  <2> QED
    BY <1>2, <2>1, <2>2
<1> HIDE DEF Good
<1>3. S \in Good
  BY <1>1, <1>2, Growing
<1> QED
  BY <1>3 DEF Good

\* A queue of exactly the members of a set.
Queues(queue, S) ==
  /\ queue \in Seq(S)
  /\ \A i, j \in 1 .. Len(queue) : queue[i] = queue[j] => i = j
  /\ \A x \in S : \E i \in 1 .. Len(queue) : queue[i] = x

\* A one for each of the first users by id.
Handed(S, n) == [u \in S |-> IF Divide!Rank(u, S) < n THEN 1 ELSE 0]

LEMMA RankIs ==
  ASSUME NEW S, S \subseteq Nat, IsFiniteSet(S), NEW u \in S
  PROVE  Divide!Rank(u, S) \in Nat /\ Divide!Rank(u, S) < Cardinality(S)
         /\ Divide!Rank(u, S) = Cardinality({v \in S : v < u})
<1> DEFINE below == {v \in S : v < u}
<1>1. below \in SUBSET (S \ {u})
  OBVIOUS
<1>2. IsFiniteSet(S \ {u}) /\ Cardinality(S \ {u}) = Cardinality(S) - 1 /\ Cardinality(S) \in Nat
  BY FS_RemoveElement, FS_CardinalityType
<1>3. IsFiniteSet(below) /\ Cardinality(below) <= Cardinality(S \ {u})
  BY <1>1, <1>2, FS_Subset
<1>4. Cardinality(below) \in Nat
  BY <1>3, FS_CardinalityType
<1>5. Divide!Rank(u, S) = Cardinality(below)
  BY SameNames DEF Divide!Rank
<1> QED
  BY <1>2, <1>3, <1>4, <1>5

\* Handing out n ones hands out n.
LEMMA HandedSum ==
  ASSUME NEW S, \A x \in S : x \in Nat, IsFiniteSet(S), NEW n \in 0 .. Cardinality(S)
  PROVE  SumOver(Handed(S, n), S) = n
<1> DEFINE Bad == {T \in SUBSET S : \E l \in 0 .. Cardinality(T) : SumOver(Handed(T, l), T) # l}
<1>1. Bad = {}
  <2> SUFFICES ASSUME Bad # {} PROVE FALSE
    OBVIOUS
  <2>0. Bad \in SUBSET (SUBSET S) /\ Bad # {}
    OBVIOUS
  <2> HIDE DEF Bad
  <2>1. PICK T \in Bad : \A U \in Bad : U \subseteq T => U = T
    BY <2>0, MinimalSubset
  <2>2. T \in SUBSET S /\ IsFiniteSet(T) /\ Cardinality(T) \in Nat /\ T \subseteq Nat
    BY <2>1, FS_Subset, FS_CardinalityType DEF Bad
  <2>3. PICK l \in 0 .. Cardinality(T) : SumOver(Handed(T, l), T) # l
    BY <2>1 DEF Bad
  <2>4. CASE T = {}
    <3>1. Cardinality(T) = 0
      BY <2>4, FS_EmptySet
    <3> QED
      BY <2>3, <2>4, <3>1, SumEmpty
  <2>5. CASE T # {}
    <3>1. PICK x \in T : \A y \in T : y <= x
      BY <2>2, <2>5, Largest
    <3> DEFINE U == T \ {x}
               m == Cardinality(U)
               j == IF l = m + 1 THEN m ELSE l
               f == Handed(T, l)
               g == Handed(U, j)
    <3>2. IsFiniteSet(U) /\ m \in Nat /\ Cardinality(T) = m + 1
      <4>1. IsFiniteSet(U) /\ Cardinality(U) = Cardinality(T) - 1
        BY <2>2, FS_RemoveElement
      <4>2. Cardinality(U) \in Nat
        BY <4>1, FS_CardinalityType
      <4> QED
        BY <2>2, <4>1, <4>2
    <3>3. U \in SUBSET S /\ U \subseteq Nat /\ U \subseteq T /\ U # T
      BY <2>2
    <3>4. j \in 0 .. m /\ l \in 0 .. m + 1
      BY <3>2
    <3>5. SumOver(g, U) = j
      <4>1. U \notin Bad
        BY <2>1, <3>3
      <4> HIDE DEF U, j
      <4> QED
        BY <3>3, <3>4, <4>1 DEF Bad
    <3>6. \A u \in U : Divide!Rank(u, T) = Divide!Rank(u, U) /\ Divide!Rank(u, U) < m
                       /\ Divide!Rank(u, U) \in Nat
      <4> TAKE u \in U
      <4>1. {v \in T : v < u} = {v \in U : v < u}
        <5>1. u \in Nat /\ x \in Nat /\ u <= x
          BY <2>2, <3>1
        <5> QED
          BY <5>1
      <4>2. Divide!Rank(u, T) = Cardinality({v \in T : v < u})
        BY <2>2, RankIs
      <4>3. Divide!Rank(u, U) = Cardinality({v \in U : v < u}) /\ Divide!Rank(u, U) < m
            /\ Divide!Rank(u, U) \in Nat
        BY <3>2, <3>3, RankIs
      <4> QED
        BY <4>1, <4>2, <4>3
    <3>7. Divide!Rank(x, T) = m
      <4>1. {v \in T : v < x} = U
        <5>1. \A v \in T : v \in Nat /\ x \in Nat /\ v <= x
          BY <2>2, <3>1
        <5> QED
          BY <5>1
      <4> QED
        BY <2>2, <4>1, RankIs
    <3>8. /\ \A u \in U : f[u] = g[u] /\ f[u] \in Int
          /\ f[x] = IF l = m + 1 THEN 1 ELSE 0
          /\ \A u \in T : f[u] \in Int
      <4>1. \A u \in U : Divide!Rank(u, T) < l <=> Divide!Rank(u, U) < j
        BY <3>2, <3>4, <3>6
      <4>2. m < l <=> l = m + 1
        BY <3>2, <3>4
      <4> QED
        BY <3>7, <4>1, <4>2 DEF Handed
    <3> HIDE DEF f, g, U, m, j
    <3>9. SumOver(f, T) = f[x] + SumOver(f, U)
      <4>1. IsFiniteSet(T) /\ x \in T /\ \A u \in T : f[u] \in Int
      BY <2>2, <3>8
    <4>2. SumOver(f, T) = f[x] + SumOver(f, T \ {x})
      BY <4>1, SumStep
    <4> QED
      BY <4>2 DEF U
    <3>10. SumOver(f, U) = SumOver(g, U)
      BY <3>2, <3>8, SumSame
    <3>11. SumOver(f, T) = l
      BY <3>2, <3>4, <3>5, <3>8, <3>9, <3>10 DEF j
    <3> QED
      BY <2>3, <3>11 DEF f
  <2> QED
    BY <2>4, <2>5
<1>2. S \notin Bad
  BY <1>1
<1> QED
  BY <1>2

LEMMA SumConstant ==
  ASSUME NEW S, IsFiniteSet(S), NEW b \in Int, NEW f, \A x \in S : f[x] = b
  PROVE  SumOver(f, S) = b * Cardinality(S)
<1> DEFINE Good == {T \in SUBSET S : SumOver(f, T) = b * Cardinality(T)}
<1>1. {} \in Good
  <2>1. Cardinality({}) = 0 /\ SumOver(f, {}) = 0
    BY FS_EmptySet, SumEmpty
  <2> QED
    BY <2>1
<1>2. ASSUME NEW T \in SUBSET S, NEW x \in S \ T, T \in Good
      PROVE  T \cup {x} \in Good
  <2>1. IsFiniteSet(T) /\ Cardinality(T) \in Nat /\ SumOver(f, T) = b * Cardinality(T)
    BY <1>2, FS_Subset, FS_CardinalityType
  <2>2. Cardinality(T \cup {x}) = Cardinality(T) + 1
    BY <2>1, FS_AddElement
  <2>3. SumOver(f, T \cup {x}) = f[x] + SumOver(f, T)
    BY <2>1, SumAdd
  <2>4. \A c \in Int : b + b * c = b * (c + 1)
    OBVIOUS
  <2>5. b + b * Cardinality(T) = b * (Cardinality(T) + 1)
    BY <2>1, <2>4
  <2> QED
    BY <2>1, <2>2, <2>3, <2>5
<1> HIDE DEF Good
<1>3. S \in Good
  BY <1>1, <1>2, Growing
<1> QED
  BY <1>3 DEF Good

LEMMA SumScaled ==
  ASSUME NEW S, IsFiniteSet(S), NEW b \in Int, NEW f, NEW g,
         \A x \in S : f[x] \in Int /\ g[x] = b * f[x]
  PROVE  SumOver(g, S) = b * SumOver(f, S)
<1> DEFINE Good == {T \in SUBSET S : SumOver(g, T) = b * SumOver(f, T)}
<1>1. {} \in Good
  BY SumEmpty
<1>2. ASSUME NEW T \in SUBSET S, NEW x \in S \ T, T \in Good
      PROVE  T \cup {x} \in Good
  <2>1. IsFiniteSet(T) /\ SumOver(g, T) = b * SumOver(f, T) /\ f[x] \in Int /\ g[x] = b * f[x]
    BY <1>2, FS_Subset
  <2>2. g[x] \in Int /\ \A y \in T : f[y] \in Int /\ g[y] \in Int
    <3>1. \A y \in S : b * f[y] \in Int
      OBVIOUS
    <3> QED
      BY <3>1
  <2>3. SumOver(f, T) \in Int
    BY <2>1, <2>2, SumInt
  <2>4. /\ SumOver(f, T \cup {x}) = f[x] + SumOver(f, T)
        /\ SumOver(g, T \cup {x}) = g[x] + SumOver(g, T)
    BY <2>1, <2>2, SumAdd
  <2>5. \A c, d \in Int : b * c + b * d = b * (c + d)
    OBVIOUS
  <2>6. b * f[x] + b * SumOver(f, T) = b * (f[x] + SumOver(f, T))
    BY <2>1, <2>3, <2>5
  <2> QED
    BY <2>1, <2>4, <2>6
<1> HIDE DEF Good
<1>3. S \in Good
  BY <1>1, <1>2, Growing
<1> QED
  BY <1>3 DEF Good

-----------------------------------------------------------------------------
(* An expense is divided completely *)

Entries == Seq([user : Int, value : Int])

LEMMA RangeFinite ==
  ASSUME NEW T, NEW seq \in Seq(T)
  PROVE  /\ DOMAIN seq = 1 .. Len(seq) /\ Len(seq) \in Nat /\ IsFiniteSet(DOMAIN seq)
         /\ Range(seq) = {seq[i] : i \in DOMAIN seq} /\ IsFiniteSet(Range(seq))
         /\ (seq # <<>> => Range(seq) # {})
<1>1. DOMAIN seq = 1 .. Len(seq) /\ Len(seq) \in Nat
  OBVIOUS
<1>2. IsFiniteSet(DOMAIN seq)
  BY <1>1, FS_Interval
<1>3. Range(seq) = {seq[i] : i \in DOMAIN seq}
  BY DEF Range
<1>4. IsFiniteSet(Range(seq))
  BY <1>2, <1>3, ImageFinite
<1>5. ASSUME seq # <<>> PROVE seq[1] \in Range(seq)
  <2>1. 1 \in DOMAIN seq
    BY <1>1, <1>5
  <2> QED
    BY <2>1, <1>3
<1> QED
  BY <1>1, <1>2, <1>3, <1>4, <1>5

LEMMA EntryIs ==
  ASSUME NEW entries \in Entries
  PROVE  /\ \A i \in DOMAIN entries : entries[i].user \in Int /\ entries[i].value \in Int
         /\ Divide!UserOf(entries) \in Seq(Int) /\ Divide!ValueOf(entries) \in Seq(Int)
         /\ DOMAIN Divide!UserOf(entries) = DOMAIN entries
         /\ DOMAIN Divide!ValueOf(entries) = DOMAIN entries
         /\ DOMAIN entries = 1 .. Len(entries) /\ Len(entries) \in Nat
         /\ Len(Divide!UserOf(entries)) = Len(entries)
<1> DEFINE T == [user : Int, value : Int]
<1>1. entries \in Seq(T)
  BY DEF Entries
<1>2. /\ \A i \in DOMAIN entries : entries[i].user \in Int /\ entries[i].value \in Int
      /\ DOMAIN entries = 1 .. Len(entries) /\ Len(entries) \in Nat
  <2>1. \A x \in T : x.user \in Int /\ x.value \in Int
    OBVIOUS
  <2> HIDE DEF T
  <2> QED
    BY <1>1, <2>1
<1> HIDE DEF T
<1>3. Divide!UserOf(entries) \in Seq(Int) /\ Divide!ValueOf(entries) \in Seq(Int)
  BY <1>2 DEF Divide!UserOf, Divide!ValueOf
<1>4. /\ DOMAIN Divide!UserOf(entries) = DOMAIN entries
      /\ DOMAIN Divide!ValueOf(entries) = DOMAIN entries
  BY DEF Divide!UserOf, Divide!ValueOf
<1>5. Len(Divide!UserOf(entries)) = Len(entries)
  BY <1>2, <1>3, <1>4
<1> QED
  BY <1>2, <1>3, <1>4, <1>5

\* One division of an amount among the members of S.
Divides(part, S, amount) ==
  /\ DOMAIN part = S /\ IsFiniteSet(S) /\ \A u \in S : part[u] \in Nat
  /\ SumOver(part, S) = amount

LEMMA IdsAre ==
  ASSUME NEW ids \in Seq(Int), Divide!ValidUniqueIDs(ids)
  PROVE  /\ IsFiniteSet(Range(ids)) /\ Range(ids) # {} /\ \A u \in Range(ids) : u \in Nat
         /\ Cardinality(Range(ids)) \in Nat /\ Cardinality(Range(ids)) > 0
         /\ \A i, j \in DOMAIN ids : ids[i] = ids[j] => i = j
<1>1. ids # <<>> /\ (\A i \in DOMAIN ids : ids[i] > 0) /\ \A i, j \in DOMAIN ids : ids[i] = ids[j] => i = j
  BY DEF Divide!ValidUniqueIDs, Divide!IsInjective
<1>2. IsFiniteSet(Range(ids)) /\ Range(ids) # {} /\ Range(ids) = {ids[i] : i \in DOMAIN ids}
  BY <1>1, RangeFinite
<1>3. \A u \in Range(ids) : u \in Nat
  <2>1. \A i \in DOMAIN ids : ids[i] \in Int
    OBVIOUS
  <2>2. \A i \in DOMAIN ids : ids[i] \in Nat
    BY <1>1, <2>1
  <2> QED
    BY <1>2, <2>2
<1>4. Cardinality(Range(ids)) \in Nat /\ Cardinality(Range(ids)) # 0
  BY <1>2, FS_CardinalityType, FS_EmptySet
<1> QED
  BY <1>1, <1>2, <1>3, <1>4

LEMMA EqualDivides ==
  ASSUME NEW amount \in Int, NEW ids \in Seq(Int), Divide!Equal(amount, ids) # Divide!Refused
  PROVE  /\ Divide!Equal(amount, ids) = <<Divide!Equal(amount, ids)[1]>>
         /\ Divides(Divide!Equal(amount, ids)[1], Range(ids), amount)
         /\ \A u, v \in Range(ids) :
              Divide!Equal(amount, ids)[1][u] - Divide!Equal(amount, ids)[1][v] <= 1
<1> DEFINE S    == Range(ids)
           n    == Cardinality(S)
           base == amount \div n
           over == amount % n
           part == [u \in S |-> base + (IF Divide!Rank(u, S) < over THEN 1 ELSE 0)]
           flat == [u \in S |-> base]
           ones == Handed(S, over)
<1>1. Divide!ValidUniqueIDs(ids) /\ amount > 0 /\ Divide!Equal(amount, ids) = <<part>>
  BY SameNames DEF Divide!Equal
<1>2. IsFiniteSet(S) /\ n \in Nat /\ n > 0 /\ \A u \in S : u \in Nat
  BY <1>1, IdsAre
<1>3. /\ base \in Int /\ base \in Nat /\ over \in Int /\ 0 <= over /\ over < n
      /\ amount = n * base + over
  <2> HIDE DEF n
  <2> QED
    BY <1>1, <1>2, Quotients
<1> HIDE DEF S, n, base, over
<1>4. /\ \A u \in S : /\ part[u] = flat[u] + ones[u] /\ flat[u] \in Int /\ ones[u] \in Int
                      /\ part[u] \in Nat /\ part[u] - base >= 0 /\ part[u] - base <= 1
                      /\ flat[u] = base
      /\ DOMAIN part = S
  BY <1>3 DEF Handed
<1> HIDE DEF part, flat, ones
<1>5. SumOver(part, S) = SumOver(flat, S) + SumOver(ones, S)
  BY <1>2, <1>4, SumPlus
<1>6. SumOver(flat, S) = base * n
  BY <1>2, <1>3, <1>4, SumConstant DEF n
<1>7. SumOver(ones, S) = over
  <2>1. over \in 0 .. Cardinality(S)
    BY <1>2, <1>3 DEF n
  <2> QED
    BY <1>2, <2>1, HandedSum DEF ones
<1>8. SumOver(part, S) = amount
  <2>1. base * n = n * base /\ n * base \in Int
    BY <1>2, <1>3
  <2> QED
    BY <1>3, <1>5, <1>6, <1>7, <2>1
<1>9. \A u, v \in S : part[u] - part[v] <= 1
  <2> TAKE u, v \in S
  <2>1. /\ part[u] \in Int /\ part[v] \in Int /\ base \in Int
        /\ part[u] - base <= 1 /\ part[v] - base >= 0
    BY <1>3, <1>4
  <2> QED
    BY <2>1
<1>10. Divides(part, S, amount)
  BY <1>2, <1>4, <1>8 DEF Divides
<1> QED
  BY <1>1, <1>9, <1>10 DEF S

LEMMA ByUserIs ==
  ASSUME NEW entries \in Entries, Divide!ValidUniqueIDs(Divide!UserOf(entries))
  PROVE  /\ DOMAIN Divide!ByUser(entries) = Range(Divide!UserOf(entries))
         /\ \A i \in DOMAIN entries : Divide!ByUser(entries)[entries[i].user] = entries[i].value
         /\ \A u \in Range(Divide!UserOf(entries)) : \E i \in DOMAIN entries : u = entries[i].user
         /\ \A i \in DOMAIN entries : entries[i].user \in Range(Divide!UserOf(entries))
         /\ SumOver(Divide!ByUser(entries), Range(Divide!UserOf(entries)))
              = SumOver(Divide!ValueOf(entries), DOMAIN entries)
<1> DEFINE S == Range(Divide!UserOf(entries))
           name == Divide!UserOf(entries)
           value == Divide!ValueOf(entries)
           D == DOMAIN entries
           by == Divide!ByUser(entries)
<1>1. DOMAIN by = S
  BY SameNames DEF Divide!ByUser
<1>2. /\ \A i \in D : name[i] = entries[i].user /\ value[i] = entries[i].value
      /\ DOMAIN name = D
  BY DEF Divide!UserOf, Divide!ValueOf
<1>3. S = {name[i] : i \in D}
  BY <1>2 DEF Range
<1>4. \A i, j \in D : name[i] = name[j] => i = j
  BY <1>2 DEF Divide!ValidUniqueIDs, Divide!IsInjective
<1>5. ASSUME NEW i \in D PROVE by[name[i]] = value[i]
  <2> DEFINE c == CHOOSE j \in D : entries[j].user = name[i]
  <2>1. c \in D /\ entries[c].user = name[i]
    BY <1>2
  <2>2. by[name[i]] = entries[c].value
    BY <1>3, SameNames DEF Divide!ByUser
  <2>3. c = i
    BY <1>2, <1>4, <2>1
  <2> QED
    BY <1>2, <2>2, <2>3
<1>6. \A i \in D : value[i] \in Int
  BY <1>2, EntryIs
<1>7. IsFiniteSet(D)
  BY EntryIs, FS_Interval
<1> HIDE DEF name, value, D, by, S
<1>8. SumOver(by, {name[i] : i \in D}) = SumOver(value, D)
  BY <1>4, <1>5, <1>6, <1>7, SumRenamed
<1> QED
  BY <1>1, <1>2, <1>3, <1>5, <1>8 DEF name, value, D, by, S

LEMMA FixedDivides ==
  ASSUME NEW amount \in Int, NEW entries \in Entries,
         Divide!Fixed(amount, entries) # Divide!Refused
  PROVE  /\ Divide!Fixed(amount, entries) = <<Divide!ByUser(entries)>>
         /\ Divides(Divide!ByUser(entries), Range(Divide!UserOf(entries)), amount)
<1> DEFINE S == Range(Divide!UserOf(entries))
           by == Divide!ByUser(entries)
<1>1. /\ Divide!ValidUniqueIDs(Divide!UserOf(entries))
      /\ \A i \in DOMAIN entries : ~(entries[i].value < 0)
      /\ Divide!SumFunction(Divide!ValueOf(entries)) = amount
      /\ Divide!Fixed(amount, entries) = <<by>>
  BY DEF Divide!Fixed
<1>2. SumOver(by, S) = amount
  <2>1. Divide!SumFunction(Divide!ValueOf(entries))
          = SumOver(Divide!ValueOf(entries), DOMAIN entries)
    BY SameSums, EntryIs
  <2> QED
    BY <1>1, <2>1, ByUserIs
<1>3. \A u \in S : by[u] \in Nat
  <2> TAKE u \in S
  <2>1. PICK i \in DOMAIN entries : u = entries[i].user
    BY <1>1, ByUserIs
  <2>2. by[u] = entries[i].value
    BY <1>1, <2>1, ByUserIs
  <2>3. entries[i].value \in Int /\ ~(entries[i].value < 0)
    BY <1>1, EntryIs
  <2> QED
    BY <2>2, <2>3
<1>4. IsFiniteSet(S)
  BY <1>1, EntryIs, IdsAre
<1>5. DOMAIN by = S
  BY <1>1, ByUserIs
<1> QED
  BY <1>1, <1>2, <1>3, <1>4, <1>5 DEF Divides

\* Facts about products that the sums below need.
LEMMA Products ==
  /\ \A t, a, b : t \in Int /\ t > 0 /\ a \in Int /\ b \in Int /\ t * a =< t * b => a =< b
  /\ \A t, a, b : t \in Int /\ a \in Int /\ b \in Int => t * (a - b) = t * a - t * b
  /\ \A a, b : a \in Int /\ b \in Int => a * b \in Int /\ a * b = b * a
  /\ \A a, b : a \in Nat /\ b \in Nat => a * b \in Nat
  /\ \A t, a : t \in Int /\ a \in Int => (a + 1) * t = a * t + t
<1>1. \A t, a, b : t \in Int /\ t > 0 /\ a \in Int /\ b \in Int /\ t * a =< t * b => a =< b
  <2> SUFFICES ASSUME NEW t \in Int, t > 0, NEW a \in Int, NEW b \in Int, a > b
               PROVE  t * a > t * b
    OBVIOUS
  <2>1. PICK d \in Int : d = a - b
    OBVIOUS
  <2>2. d > 0 /\ a = b + d
    BY <2>1
  <2>3. t * d > 0
    BY <2>2, Z3
  <2>4. t * (b + d) = t * b + t * d
    BY <2>1, Z3
  <2>5. t * b \in Int /\ t * d \in Int
    BY <2>1
  <2> QED
    BY <2>2, <2>3, <2>4, <2>5
<1>2. \A t, a, b : t \in Int /\ a \in Int /\ b \in Int => t * (a - b) = t * a - t * b
  BY Z3
<1>3. \A a, b : a \in Int /\ b \in Int => a * b \in Int /\ a * b = b * a
  BY Z3
<1>4. \A a, b : a \in Nat /\ b \in Nat => a * b \in Nat
  BY Z3
<1>5. \A t, a : t \in Int /\ a \in Int => (a + 1) * t = a * t + t
  BY Z3
<1> QED
  BY <1>1, <1>2, <1>3, <1>4, <1>5

\* q is the whole quotient of amount by the weights w, which add up to total.
IsQuotient(q, w, S, amount, total) ==
  /\ IsFiniteSet(S) /\ \A u \in S : w[u] \in Nat /\ q[u] = (amount * w[u]) \div total
  /\ amount \in Nat /\ total \in Nat /\ total > 0 /\ SumOver(w, S) = total

\* Rounding down leaves less than one unit for each member.
LEMMA Rounded ==
  ASSUME NEW S, NEW q, NEW w, NEW amount, NEW total, IsQuotient(q, w, S, amount, total)
  PROVE  /\ \A u \in S : /\ q[u] \in Nat /\ amount * w[u] \in Int /\ q[u] * total \in Int
                         /\ q[u] * total =< amount * w[u] /\ amount * w[u] - q[u] * total < total
         /\ SumOver(q, S) \in Int /\ amount - SumOver(q, S) \in 0 .. Cardinality(S)
<1>1. /\ IsFiniteSet(S) /\ amount \in Nat /\ total \in Nat /\ total > 0 /\ SumOver(w, S) = total
      /\ Cardinality(S) \in Nat
  BY FS_CardinalityType DEF IsQuotient
<1>2. \A u \in S : w[u] \in Nat /\ q[u] = (amount * w[u]) \div total
  BY DEF IsQuotient
<1>3. ASSUME NEW u \in S
      PROVE  /\ q[u] \in Nat /\ amount * w[u] \in Int /\ q[u] * total \in Int
             /\ q[u] * total =< amount * w[u] /\ amount * w[u] - q[u] * total < total
  <2>1. PICK product : product = amount * w[u]
    OBVIOUS
  <2>2. product \in Nat /\ q[u] = product \div total
    BY <1>1, <1>2, <2>1, Products
  <2>3. q[u] \in Nat
    BY <1>1, <2>2, Quotients
  <2>4. /\ product % total \in Int /\ 0 <= product % total /\ product % total < total
        /\ product = total * q[u] + (product % total)
    BY <1>1, <2>2, Quotients
  <2>5. total * q[u] = q[u] * total /\ q[u] * total \in Int
    BY <1>1, <2>3, Products
  <2>6. PICK low, over : low = q[u] * total /\ over = product % total
    OBVIOUS
  <2>7. /\ low \in Int /\ product \in Nat /\ over \in Int /\ 0 <= over /\ over < total
        /\ product = low + over
    BY <2>2, <2>4, <2>5, <2>6
  <2>8. low =< product /\ product - low < total
    BY <1>1, <2>7
  <2> QED
    BY <2>1, <2>3, <2>6, <2>7, <2>8
<1>4. PICK prod : prod = [u \in S |-> amount * w[u]]
  OBVIOUS
<1>5. PICK scaled : scaled = [u \in S |-> total * q[u]]
  OBVIOUS
<1>6. PICK rem : rem = [u \in S |-> amount * w[u] - q[u] * total]
  OBVIOUS
<1>7. PICK most : most = [u \in S |-> total]
  OBVIOUS
<1>8. \A u \in S : /\ prod[u] \in Int /\ scaled[u] \in Int /\ rem[u] \in Nat /\ most[u] = total
                   /\ rem[u] =< most[u] /\ prod[u] = scaled[u] + rem[u]
  <2> TAKE u \in S
  <2>1. total * q[u] = q[u] * total
    BY <1>1, <1>3, Products
  <2> QED
    BY <1>1, <1>3, <1>4, <1>5, <1>6, <1>7, <2>1
<1>9. SumOver(prod, S) = amount * total
  <2>1. \A u \in S : w[u] \in Int /\ prod[u] = amount * w[u]
    BY <1>2, <1>4
  <2> QED
    BY <1>1, <2>1, SumScaled
<1>10. SumOver(scaled, S) = total * SumOver(q, S) /\ SumOver(q, S) \in Int
  <2>1. \A u \in S : q[u] \in Int /\ scaled[u] = total * q[u]
    BY <1>3, <1>5
  <2>2. SumOver(scaled, S) = total * SumOver(q, S)
    BY <1>1, <2>1, SumScaled
  <2> QED
    BY <1>1, <2>1, <2>2, SumInt
<1>11. SumOver(prod, S) = SumOver(scaled, S) + SumOver(rem, S)
  BY <1>1, <1>8, SumPlus
<1>12. SumOver(rem, S) \in Nat /\ SumOver(rem, S) =< total * Cardinality(S)
  <2>1. SumOver(most, S) = total * Cardinality(S)
    BY <1>1, <1>8, SumConstant
  <2>2. SumOver(rem, S) =< SumOver(most, S)
    <3>1. \A u \in S : rem[u] \in Int /\ most[u] \in Int /\ rem[u] <= most[u]
      BY <1>1, <1>8
    <3> QED
      BY <1>1, <3>1, SumMonotone
  <2> QED
    BY <1>1, <1>8, <2>1, <2>2, SumNat
<1>13. PICK over \in Int : over = amount - SumOver(q, S)
  BY <1>1, <1>10
<1>14. total * over = SumOver(rem, S)
  <2>1. total * over = total * amount - total * SumOver(q, S)
    BY <1>1, <1>10, <1>13, Products
  <2>2. amount * total = total * amount /\ total * amount \in Int /\ total * SumOver(q, S) \in Int
    BY <1>1, <1>10, Products
  <2> QED
    BY <1>9, <1>10, <1>11, <1>12, <2>1, <2>2
<1>15. total * 0 =< total * over /\ total * over =< total * Cardinality(S)
  <2>1. total * 0 = 0
    BY <1>1
  <2> QED
    BY <1>12, <1>14, <2>1
<1>16. 0 =< over /\ over =< Cardinality(S)
  BY <1>1, <1>13, <1>15, Products
<1> QED
  BY <1>1, <1>3, <1>10, <1>13, <1>16

\* Nobody's part is off by more than one unit from the exact share.
Near(part, shares, amount) ==
  LET total == SumOver(Divide!ValueOf(shares), DOMAIN shares)
  IN  \A i \in DOMAIN shares :
        /\ -total < part[shares[i].user] * total - amount * shares[i].value
        /\ part[shares[i].user] * total - amount * shares[i].value =< total

LEMMA SharesDivide ==
  ASSUME NEW amount \in Int, NEW shares \in Entries, Divide!Shares(amount, shares) # Divide!Refused
  PROVE  /\ Divide!Shares(amount, shares) = <<Divide!Shares(amount, shares)[1]>>
         /\ Divides(Divide!Shares(amount, shares)[1], Range(Divide!UserOf(shares)), amount)
         /\ Near(Divide!Shares(amount, shares)[1], shares, amount)
<1> DEFINE total  == SumOver(Divide!ValueOf(shares), DOMAIN shares)
           weight == Divide!ByUser(shares)
           S      == Range(Divide!UserOf(shares))
           parts  == [u \in DOMAIN weight |-> Divide!Quotient(amount, weight[u], total)]
           over   == amount - Divide!SumFunction(parts)
           part   == Divide!HandOut(parts, shares, over)
           ones   == Handed(S, over)
<1>1. /\ Divide!ValidUniqueIDs(Divide!UserOf(shares)) /\ \A i \in DOMAIN shares : ~(shares[i].value =< 0)
      /\ amount \in Nat /\ Divide!Shares(amount, shares) = <<part>>
  <2>1. Divide!SumFunction(Divide!ValueOf(shares)) = total
    BY SameSums, EntryIs
  <2>2. ~(amount =< 0)
    BY DEF Divide!Shares
  <2> QED
    BY <2>1, <2>2 DEF Divide!Shares
<1>2. \A i \in DOMAIN shares : shares[i].value \in Nat /\ shares[i].value > 0
  BY <1>1, EntryIs
<1>3. /\ IsFiniteSet(S) /\ S # {} /\ \A u \in S : u \in Nat
      /\ DOMAIN weight = S /\ SumOver(weight, S) = total
  BY <1>1, EntryIs, IdsAre, ByUserIs
<1>4. \A u \in S : weight[u] \in Nat /\ weight[u] > 0
  <2> TAKE u \in S
  <2>1. PICK i \in DOMAIN shares : u = shares[i].user
    BY <1>1, ByUserIs
  <2>2. weight[u] = shares[i].value
    BY <1>1, <2>1, ByUserIs
  <2> QED
    BY <1>2, <2>2
<1>5. \A i \in DOMAIN shares : shares[i].user \in S /\ weight[shares[i].user] = shares[i].value
  BY <1>1, ByUserIs
<1> HIDE DEF total, weight, S
<1>6. total \in Nat /\ total > 0
  <2>1. PICK u \in S : TRUE
    BY <1>3
  <2>2. weight[u] =< SumOver(weight, S) /\ SumOver(weight, S) \in Nat
    BY <1>3, <1>4, SumMember, SumNat
  <2> QED
    BY <1>3, <1>4, <2>2
<1>7. IsQuotient(parts, weight, S, amount, total)
  <2>1. \A u \in S : parts[u] = (amount * weight[u]) \div total
    BY <1>3 DEF Divide!Quotient
  <2> HIDE DEF parts
  <2> QED
    BY <1>1, <1>3, <1>4, <1>6, <2>1 DEF IsQuotient
<1>8. DOMAIN parts = S /\ Divide!SumFunction(parts) = SumOver(parts, S)
  <2>1. DOMAIN parts = S
    BY <1>3
  <2> HIDE DEF parts
  <2> QED
    BY <2>1, SameSums
<1> HIDE DEF parts
<1>9. /\ \A u \in S : /\ parts[u] \in Nat /\ amount * weight[u] \in Int /\ parts[u] * total \in Int
                      /\ parts[u] * total =< amount * weight[u]
                      /\ amount * weight[u] - parts[u] * total < total
      /\ SumOver(parts, S) \in Int /\ amount - SumOver(parts, S) \in 0 .. Cardinality(S)
  BY <1>7, Rounded
<1>10. over \in 0 .. Cardinality(S) /\ over = amount - SumOver(parts, S)
  BY <1>8, <1>9
<1> HIDE DEF over
<1>11. /\ DOMAIN part = S
       /\ \A u \in S : /\ part[u] \in Nat /\ ones[u] \in Nat /\ ones[u] \in {0, 1}
                       /\ part[u] = parts[u] + ones[u]
  BY <1>8, <1>9 DEF Divide!HandOut, Handed
<1>12. SumOver(ones, S) = over
  BY <1>3, <1>10, HandedSum
<1> HIDE DEF part, ones
<1>13. SumOver(part, S) = amount
  <2>1. SumOver(part, S) = SumOver(parts, S) + SumOver(ones, S)
    <3>1. \A u \in S : parts[u] \in Int /\ ones[u] \in Int /\ part[u] = parts[u] + ones[u]
      BY <1>9, <1>11
    <3> QED
      BY <1>3, <3>1, SumPlus
  <2> QED
    BY <1>1, <1>9, <1>10, <1>12, <2>1
<1>14. ASSUME NEW i \in DOMAIN shares
       PROVE  /\ -total < part[shares[i].user] * total - amount * shares[i].value
              /\ part[shares[i].user] * total - amount * shares[i].value =< total
  <2>1. PICK u \in S : u = shares[i].user /\ weight[u] = shares[i].value
    BY <1>5
  <2>2. PICK low, goal : low = parts[u] * total /\ goal = amount * weight[u]
    OBVIOUS
  <2>3. low \in Int /\ goal \in Int /\ low =< goal /\ goal - low < total
    BY <1>9, <2>2
  <2>4. part[u] * total = low \/ part[u] * total = low + total
    <3>1. part[u] = parts[u] \/ part[u] = parts[u] + 1
      BY <1>9, <1>11
    <3>2. (parts[u] + 1) * total = parts[u] * total + total
      BY <1>6, <1>9, Products
    <3> QED
      BY <2>2, <3>1, <3>2
  <2>5. -total < part[u] * total - goal /\ part[u] * total - goal =< total
    BY <1>6, <2>3, <2>4
  <2> QED
    BY <2>1, <2>2, <2>5
<1>15. Divides(part, S, amount)
  BY <1>3, <1>11, <1>13 DEF Divides
<1>16. Near(part, shares, amount)
  BY <1>14 DEF Near, total
<1> QED
  BY <1>1, <1>15, <1>16 DEF S

\* The parts of a request give everybody it names a part, and give away its amount.
Complete(parts, r) ==
  /\ UNION {DOMAIN parts[i] : i \in DOMAIN parts} = Divide!Named(r) /\ IsFiniteSet(DOMAIN parts)
  /\ \A i \in DOMAIN parts : \A u \in DOMAIN parts[i] : parts[i][u] \in Nat
  /\ Divide!SumFunction([i \in DOMAIN parts |-> Divide!SumFunction(parts[i])]) = r.amount

LEMMA OneComplete ==
  ASSUME NEW parts, NEW one, NEW r, r.amount \in Int,
         parts = <<one>>, Divides(one, Divide!Named(r), r.amount)
  PROVE  Complete(parts, r)
<1> DEFINE S == Divide!Named(r)
           sums == [i \in DOMAIN parts |-> Divide!SumFunction(parts[i])]
<1>1. DOMAIN parts = {1} /\ parts[1] = one
  OBVIOUS
<1>2. DOMAIN one = S /\ IsFiniteSet(S) /\ (\A u \in S : one[u] \in Nat) /\ SumOver(one, S) = r.amount
  BY DEF Divides
<1>3. Divide!SumFunction(one) = r.amount
  BY <1>2, SameSums
<1> HIDE DEF S
<1>4. Divide!SumFunction(sums) = r.amount
  <2>1. DOMAIN sums = {1} /\ sums[1] = r.amount /\ sums[1] \in Int
    BY <1>1, <1>3
  <2> HIDE DEF sums
  <2>2. Divide!SumFunction(sums) = SumOver(sums, {1})
    BY <2>1, SameSums, FS_Singleton
  <2>3. SumOver(sums, {1}) = sums[1]
    BY <2>1, SumOne
  <2> QED
    BY <2>1, <2>2, <2>3
<1>5. UNION {DOMAIN parts[i] : i \in DOMAIN parts} = S
  <2>1. {DOMAIN parts[i] : i \in DOMAIN parts} = {S}
    BY <1>1, <1>2
  <2> QED
    BY <2>1
<1>6. \A i \in DOMAIN parts : \A u \in DOMAIN parts[i] : parts[i][u] \in Nat
  BY <1>1, <1>2
<1>7. IsFiniteSet(DOMAIN parts)
  BY <1>1, FS_Singleton
<1> QED
  BY <1>4, <1>5, <1>6, <1>7 DEF Complete, S

\* The items of a request; each is divided equally.
Items == Seq([amount : Int, ids : Seq(Int)])

LEMMA ItemsDivide ==
  ASSUME NEW r, r.amount \in Int, r.items \in Items, r.type = "item", NEW parts,
         parts = Divide!Items(r.amount, r.items), parts # Divide!Refused
  PROVE  /\ Complete(parts, r)
         /\ \A i \in DOMAIN parts : \A u, v \in DOMAIN parts[i] : parts[i][u] - parts[i][v] <= 1
<1> DEFINE items == r.items
           T == [amount : Int, ids : Seq(Int)]
           D == DOMAIN items
           amounts == [i \in D |-> items[i].amount]
           sums == [i \in DOMAIN parts |-> Divide!SumFunction(parts[i])]
<1>1. items \in Seq(T)
  BY DEF Items
<1>2. \A x \in T : x.amount \in Int /\ x.ids \in Seq(Int)
  OBVIOUS
<1>3. /\ parts = [i \in D |-> Divide!Equal(items[i].amount, items[i].ids)[1]]
      /\ \A i \in D : Divide!Equal(items[i].amount, items[i].ids) # Divide!Refused
      /\ Divide!SumFunction(amounts) = r.amount
  BY DEF Divide!Items
<1>4. Divide!Named(r) = UNION {Range(items[i].ids) : i \in D}
  BY SameNames DEF Divide!Named
<1> HIDE DEF items, T
<1>5. IsFiniteSet(D) /\ \A i \in D : items[i] \in T
  BY <1>1, RangeFinite
<1>6. ASSUME NEW i \in D
      PROVE  /\ Divides(parts[i], Range(items[i].ids), items[i].amount)
             /\ items[i].amount \in Int
             /\ \A u, v \in Range(items[i].ids) : parts[i][u] - parts[i][v] <= 1
  <2>1. /\ items[i].amount \in Int /\ items[i].ids \in Seq(Int)
        /\ Divide!Equal(items[i].amount, items[i].ids) # Divide!Refused
        /\ parts[i] = Divide!Equal(items[i].amount, items[i].ids)[1]
    BY <1>2, <1>3, <1>5
  <2> QED
    BY <2>1, EqualDivides
<1>7. DOMAIN parts = D
  BY <1>3
<1>8. ASSUME NEW i \in D
      PROVE  /\ DOMAIN parts[i] = Range(items[i].ids)
             /\ \A u \in DOMAIN parts[i] : parts[i][u] \in Nat
             /\ Divide!SumFunction(parts[i]) = items[i].amount
  <2> DEFINE one == parts[i]
  <2>1. /\ DOMAIN one = Range(items[i].ids) /\ IsFiniteSet(DOMAIN one)
        /\ \A u \in DOMAIN one : one[u] \in Nat
        /\ SumOver(one, DOMAIN one) = items[i].amount
    BY <1>6 DEF Divides
  <2> HIDE DEF one
  <2>2. Divide!SumFunction(one) = items[i].amount
    BY <2>1, SameSums
  <2> QED
    BY <2>1, <2>2 DEF one
<1>9. Divide!SumFunction(sums) = r.amount
  <2>1. sums = amounts
    BY <1>7, <1>8
  <2> QED
    BY <1>3, <2>1
<1>10. UNION {DOMAIN parts[i] : i \in DOMAIN parts} = Divide!Named(r)
  <2>1. {DOMAIN parts[i] : i \in DOMAIN parts} = {Range(items[i].ids) : i \in D}
    BY <1>7, <1>8
  <2> QED
    BY <1>4, <2>1
<1>11. \A i \in DOMAIN parts : \A u, v \in DOMAIN parts[i] : parts[i][u] - parts[i][v] <= 1
  BY <1>6, <1>7, <1>8
<1> QED
  BY <1>5, <1>7, <1>8, <1>9, <1>10, <1>11 DEF Complete

\* How near the parts of a request are to the exact shares.
IsFair(parts, r) ==
  /\ r.type = "equal" => \A u, v \in DOMAIN parts[1] : parts[1][u] - parts[1][v] =< 1
  /\ r.type = "item" =>
       \A i \in DOMAIN parts : \A u, v \in DOMAIN parts[i] : parts[i][u] - parts[i][v] =< 1
  /\ r.type \in {"shares", "percentage"} => Near(parts[1], r.participants, r.amount)

LEMMA PrepareDivides ==
  ASSUME NEW r, Divide!IsRequest(r), Divide!Prepare(r) # Divide!Refused
  PROVE  /\ Divide!Named(r) \subseteq Users
         /\ Complete(Divide!Prepare(r), r) /\ IsFair(Divide!Prepare(r), r)
<1> DEFINE parts == Divide!Prepare(r)
           entries == r.participants
<1>1. r.amount \in Int /\ Divide!Named(r) \subseteq Users
  BY DEF Divide!IsRequest, Divide!Prepare
<1>2. ASSUME r.type # "item"
      PROVE  /\ entries \in Entries /\ Divide!UserOf(entries) \in Seq(Int)
             /\ Divide!Named(r) = Range(Divide!UserOf(entries))
  <2>1. entries \in Entries
    BY <1>2 DEF Divide!IsRequest, Entries
  <2>2. Divide!Named(r) = Range(Divide!UserOf(entries))
    BY <1>2, SameNames DEF Divide!Named
  <2> QED
    BY <2>1, <2>2, EntryIs
<1>3. CASE r.type = "equal"
  <2>1. parts = Divide!Equal(r.amount, Divide!UserOf(entries))
    BY <1>3 DEF Divide!Prepare
  <2>2. /\ parts = <<parts[1]>> /\ Divides(parts[1], Divide!Named(r), r.amount)
        /\ \A u, v \in Divide!Named(r) : parts[1][u] - parts[1][v] <= 1
    BY <1>1, <1>2, <1>3, <2>1, EqualDivides
  <2>3. DOMAIN parts[1] = Divide!Named(r)
    BY <2>2 DEF Divides
  <2> HIDE DEF parts
  <2>4. Complete(parts, r)
    BY <1>1, <2>2, OneComplete
  <2>5. IsFair(parts, r)
    BY <1>3, <2>2, <2>3 DEF IsFair
  <2> QED
    BY <1>1, <2>4, <2>5 DEF parts
<1>4. CASE r.type = "fixed"
  <2>1. parts = Divide!Fixed(r.amount, entries)
    BY <1>4 DEF Divide!Prepare
  <2>2. parts = <<Divide!ByUser(entries)>>
        /\ Divides(Divide!ByUser(entries), Divide!Named(r), r.amount)
    BY <1>1, <1>2, <1>4, <2>1, FixedDivides
  <2> HIDE DEF parts
  <2>3. Complete(parts, r)
    BY <1>1, <2>2, OneComplete
  <2>4. IsFair(parts, r)
    BY <1>4 DEF IsFair
  <2> QED
    BY <1>1, <2>3, <2>4 DEF parts
<1>5. CASE r.type = "shares" \/ r.type = "percentage"
  <2>1. parts = Divide!Shares(r.amount, entries)
    BY <1>5 DEF Divide!Prepare, Divide!Percentage
  <2>2. /\ parts = <<parts[1]>> /\ Divides(parts[1], Divide!Named(r), r.amount)
        /\ Near(parts[1], entries, r.amount)
    BY <1>1, <1>2, <1>5, <2>1, SharesDivide
  <2> HIDE DEF parts
  <2>3. Complete(parts, r)
    BY <1>1, <2>2, OneComplete
  <2>4. IsFair(parts, r)
    BY <1>5, <2>2 DEF IsFair
  <2> QED
    BY <1>1, <2>3, <2>4 DEF parts
<1>6. CASE r.type = "item"
  <2>1. parts = Divide!Items(r.amount, r.items)
    BY <1>6 DEF Divide!Prepare
  <2>2. r.items \in Items
    BY <1>6 DEF Divide!IsRequest, Items
  <2>3. parts # Divide!Refused
    OBVIOUS
  <2> HIDE DEF parts
  <2>4. /\ Complete(parts, r)
        /\ \A i \in DOMAIN parts : \A u, v \in DOMAIN parts[i] : parts[i][u] - parts[i][v] <= 1
    BY <1>1, <1>6, <2>1, <2>2, <2>3, ItemsDivide
  <2>5. IsFair(parts, r)
    BY <1>6, <2>4 DEF IsFair
  <2> QED
    BY <1>1, <2>4, <2>5 DEF parts
<1>7. r.type \in {"equal", "fixed", "shares", "percentage", "item"}
  BY DEF Divide!IsRequest
<1> QED
  BY <1>3, <1>4, <1>5, <1>6, <1>7

-----------------------------------------------------------------------------
(* Every ledger of a request is one that can be loaded *)

\* What a request is divided into: some parts, each of them some integers.
AreParts(parts) ==
  IsFiniteSet(DOMAIN parts) /\ \A i \in DOMAIN parts : \A u \in DOMAIN parts[i] : parts[i][u] \in Int

LEMMA PartsAre ==
  ASSUME NEW r, Divide!IsRequest(r), Divide!Prepare(r) # Divide!Refused
  PROVE  AreParts(Divide!Prepare(r)) /\ Divide!Named(r) \subseteq Users /\ r.amount \in Int
<1>1. r.amount \in Int
  BY DEF Divide!IsRequest
<1>2. Divide!Named(r) \subseteq Users /\ Complete(Divide!Prepare(r), r)
  BY PrepareDivides
<1>3. AreParts(Divide!Prepare(r))
  BY <1>2 DEF Complete, AreParts
<1> QED
  BY <1>1, <1>2, <1>3

\* A request's rows and whatever else is recorded make a ledger.
LEMMA LedgersAreLedgers ==
  ASSUME NEW r \in Requests, NEW ledger \in Ledgers(r)
  PROVE  IsLedger(ledger)
<1>1. CASE ledger = <<>>
  BY <1>1 DEF IsLedger
<1>2. CASE r \in Confirmed /\ Divide!Prepare(r) # Divide!Refused
  <2> DEFINE parts == Divide!Prepare(r)
  <2>1. PICK payer \in Users, other \in Others : ledger = <<ExpenseOf(r, payer)>> \o other
    BY <1>2 DEF Ledgers
  <2>2. AreParts(parts) /\ Divide!Named(r) \subseteq Users /\ r.amount \in Int
    BY <1>2, PartsAre, RequestsAssumption
  <2>3. ASSUME NEW u PROVE Divide!PartOf(u, parts) \in Int
    <3> DEFINE f == [i \in DOMAIN parts |-> IF u \in DOMAIN parts[i] THEN parts[i][u] ELSE 0]
    <3>1. /\ DOMAIN f = DOMAIN parts /\ IsFiniteSet(DOMAIN parts)
          /\ \A i \in DOMAIN parts : f[i] \in Int
      BY <2>2 DEF AreParts
    <3>2. Divide!PartOf(u, parts) = Divide!SumFunction(f)
      BY DEF Divide!PartOf
    <3> HIDE DEF f
    <3> QED
      BY <3>1, <3>2, SameSums, SumInt
  <2> DEFINE op == ExpenseOf(r, payer)
  <2>4. IsRow(op) /\ op.kind = "expense" /\ op.id = 1
    BY <2>2, <2>3, ExpenseAssumption DEF ExpenseOf, IsRow
  <2>5. /\ IsLedger(other)
        /\ \A i \in DOMAIN other : other[i].kind = "expense" => other[i].id # 1
    BY OthersAssumption
  <2> HIDE DEF op
  <2>6. /\ ledger = <<op>> \o other
        /\ other \in Seq({other[i] : i \in DOMAIN other})
    BY <2>1, <2>5 DEF op, IsLedger
  <2>7. /\ DOMAIN ledger = 1 .. (Len(other) + 1) /\ ledger[1] = op /\ Len(other) \in Nat
        /\ DOMAIN other = 1 .. Len(other)
        /\ \A i \in 2 .. (Len(other) + 1) : i - 1 \in DOMAIN other /\ ledger[i] = other[i - 1]
    BY <2>6
  <2>8. \A i \in DOMAIN ledger : IsRow(ledger[i])
    BY <2>4, <2>5, <2>7 DEF IsLedger
  <2>9. \A i, j \in DOMAIN ledger :
          ledger[i].kind = ledger[j].kind /\ ledger[i].id = ledger[j].id => i = j
    <3> TAKE i, j \in DOMAIN ledger
    <3> HAVE ledger[i].kind = ledger[j].kind /\ ledger[i].id = ledger[j].id
    <3>1. \A n \in DOMAIN ledger : n = 1 \/ n \in 2 .. (Len(other) + 1)
      BY <2>7
    <3>2. \A n \in 2 .. (Len(other) + 1) :
            ledger[n].kind = "expense" => ledger[n].id # 1
      BY <2>5, <2>7
    <3>3. CASE i = 1 \/ j = 1
      BY <2>4, <2>7, <3>1, <3>2, <3>3
    <3>4. CASE i # 1 /\ j # 1
      <4>1. /\ i - 1 \in DOMAIN other /\ ledger[i] = other[i - 1]
            /\ j - 1 \in DOMAIN other /\ ledger[j] = other[j - 1]
        BY <2>7, <3>1, <3>4
      <4>2. i - 1 = j - 1
        BY <2>5, <4>1 DEF IsLedger
      <4> QED
        BY <2>7, <4>2
    <3> QED
      BY <3>3, <3>4
  <2>10. ledger \in Seq({ledger[i] : i \in DOMAIN ledger})
    <3>1. ledger = [i \in 1 .. (Len(other) + 1) |-> ledger[i]]
      BY <2>6, <2>7
    <3>2. Len(other) + 1 \in Nat
      BY <2>7
    <3> QED
      BY <2>7, <3>1, <3>2
  <2> QED
    BY <2>8, <2>9, <2>10 DEF IsLedger
<1> QED
  BY <1>1, <1>2 DEF Ledgers

-----------------------------------------------------------------------------
(* Balances are exact *)

LEMMA ArithmeticStart ==
  ASSUME NEW ledger, IsLedger(ledger), Calculate!ArithmeticInit(ledger)
  PROVE  ArithmeticInv /\ counting = "count"
<1>1. /\ IsLedger(input) /\ counting = "count" /\ rest = input /\ left = {}
      /\ values = [key \in {} |-> 0] /\ totals = [k \in Currencies |-> 0]
  BY DEF Calculate!ArithmeticInit
<1>2. Len(input) \in Nat /\ input \in Seq({input[i] : i \in DOMAIN input})
  BY <1>1 DEF IsLedger
<1>3. CountedUpTo(0)
  <2>1. First(0) = {}
    BY DEF First
  <2>2. \A u \in Users, k \in Currencies : NetOf(First(0), u, k) = 0 /\ Of(values, <<u, k>>) = 0
    BY <1>1, <2>1, SumEmpty DEF NetOf, Of
  <2>3. rest = SubSeq(input, 1, Len(input)) /\ 0 \in 0 .. Len(input)
    BY <1>1, <1>2
  <2> QED
    BY <2>2, <2>3 DEF CountedUpTo
<1>4. CountInv
  <2>1. IsMap(values) /\ Calculate!Fits(values)
    BY <1>1 DEF IsMap, Calculate!Fits
  <2> QED
    BY <1>1, <1>2, <1>3, <2>1 DEF CountInv
<1>5. TotalsInv
  BY <1>1 DEF TotalsInv
<1> QED
  BY <1>1, <1>4, <1>5 DEF ArithmeticInv

\* What holds in every state of the chain, before a plan is asked for.
ChainInv ==
  /\ request \in Requests
  /\ ArithmeticInv
  /\ Fitting => counting # "refused"

LEMMA ChainInvHolds == Spec => []ChainInv
<1>1. Start => ChainInv
  <2> SUFFICES ASSUME Start PROVE ChainInv
    OBVIOUS
  <2>1. request \in Requests
    BY DEF Start, Divide!SplitInit
  <2>2. PICK ledger \in Ledgers(request) : Init(ledger)
    BY DEF Start
  <2>3. ArithmeticInv /\ counting = "count"
    BY <2>1, <2>2, LedgersAreLedgers, ArithmeticStart DEF Init
  <2> QED
    BY <2>1, <2>3 DEF ChainInv
<1>2. ChainInv /\ [CreateExpense \/ PlanStep]_vars => ChainInv'
  <2> SUFFICES ASSUME ChainInv, [CreateExpense \/ PlanStep]_vars PROVE ChainInv'
    OBVIOUS
  <2>1. request' = request
    BY DEF CreateExpense, PlanStep, Divide!Answer, vars
  <2>2. CASE Calculate!ArithmeticNext
    BY <2>1, <2>2, ArithmeticStep, NeverRefused DEF ChainInv
  <2>3. CASE UNCHANGED arithmeticVars
    BY <2>1, <2>3
       DEF ChainInv, arithmeticVars, ArithmeticInv, CountInv, CountedUpTo, TotalsInv, At, Reached,
           First, Calculate!Fits, Fitting, Calculate!Ledger, Calculate!Operations
  <2> QED
    BY <2>2, <2>3 DEF CreateExpense, PlanStep, vars, planRequestVars, Next, GetBalance,
                      CallPlanSettlements, PlanSettlements
<1> QED
  BY <1>1, <1>2, PTL DEF Spec

\* Balances that are returned are what the ledger means in every currency (nothing
\* wraps, nobody is forgotten, whatever the order of the map), and a well-formed
\* ledger whose amounts add up to an integer is never refused (ledger.go 52-156).
THEOREM BalancesExact == Spec => []ExactBalances
<1>1. ChainInv => ExactBalances
  <2> SUFFICES ASSUME ChainInv PROVE ExactBalances
    OBVIOUS
  <2>1. Calculate!ExactBalances
    BY DoneMeans, SameNets DEF ChainInv, Calculate!ExactBalances
  <2>2. Calculate!ComputedWhenFits
    BY DEF ChainInv, Calculate!ComputedWhenFits, Fitting
  <2> QED
    BY <2>1, <2>2 DEF ExactBalances
<1> QED
  BY <1>1, ChainInvHolds, PTL

-----------------------------------------------------------------------------
(* Wrapping, and queues in order *)

LEMMA WrapSame ==
  ASSUME NEW x \in Int, Plan!MinInt <= x, x <= MaxInt
  PROVE  Plan!Wrap(x) = x
<1> DEFINE w == 2 * (MaxInt + 1)
           y == x - Plan!MinInt
<1>1. /\ w \in Int /\ y \in Int /\ 0 <= y /\ y < w /\ Plan!MinInt \in Int
  BY PlanAssumption DEF Plan!MinInt
<1>2. Plan!Wrap(x) = (y % w) + Plan!MinInt
  BY DEF Plan!Wrap
<1> HIDE DEF w
<1>3. ASSUME NEW a \in Int, NEW b \in Int, 0 <= a, a < b
      PROVE  a % b = a
  BY <1>3, Z3
<1>4. y % w = y
  BY <1>1, <1>3
<1> QED
  BY <1>1, <1>2, <1>4

LEMMA SameCount ==
  ASSUME NEW S
  PROVE  Plan!Cardinality(S) = Cardinality(S)
BY DEF Plan!Cardinality, Cardinality

\* Any finite set of ids can be put in order.
LEMMA OrderExists ==
  ASSUME NEW S, IsFiniteSet(S), \A x \in S : x \in Nat
  PROVE  \E queue \in [1 .. Cardinality(S) -> S] : Plan!Increasing(queue)
<1> DEFINE Bad == {T \in SUBSET S : ~\E queue \in [1 .. Cardinality(T) -> T] : Plan!Increasing(queue)}
<1>1. Bad = {}
  <2> SUFFICES ASSUME Bad # {} PROVE FALSE
    OBVIOUS
  <2>0. Bad \in SUBSET (SUBSET S) /\ Bad # {}
    OBVIOUS
  <2> HIDE DEF Bad
  <2>1. PICK T \in Bad : \A U \in Bad : U \subseteq T => U = T
    BY <2>0, MinimalSubset
  <2>2. T \in SUBSET S /\ IsFiniteSet(T) /\ Cardinality(T) \in Nat
    BY <2>1, FS_Subset, FS_CardinalityType DEF Bad
  <2>3. CASE T = {}
    <3>1. Cardinality(T) = 0 /\ 1 .. 0 = {}
      BY <2>3, FS_EmptySet
    <3>2. [i \in {} |-> 0] \in [1 .. Cardinality(T) -> T] /\ Plan!Increasing([i \in {} |-> 0])
      BY <3>1 DEF Plan!Increasing
    <3> QED
      BY <2>1, <3>2 DEF Bad
  <2>4. CASE T # {}
    <3>1. PICK x \in T : \A y \in T : y <= x
      BY <2>2, <2>4, Largest
    <3> DEFINE U == T \ {x}
               n == Cardinality(U)
    <3>2. Cardinality(T) = n + 1 /\ n \in Nat
      <4>1. IsFiniteSet(U) /\ Cardinality(U) = Cardinality(T) - 1
        BY <2>2, FS_RemoveElement
      <4>2. Cardinality(U) \in Nat
        BY <4>1, FS_CardinalityType
      <4> QED
        BY <2>2, <4>1, <4>2
    <3>3. U \notin Bad
      <4>1. U \subseteq T /\ U # T
        OBVIOUS
      <4> QED
        BY <2>1, <4>1
    <3>4. U \in SUBSET S
      BY <2>2
    <3>5. PICK queue \in [1 .. n -> U] : Plan!Increasing(queue)
      BY <3>3, <3>4 DEF Bad
    <3> DEFINE longer == [i \in 1 .. (n + 1) |-> IF i = n + 1 THEN x ELSE queue[i]]
    <3>6. longer \in [1 .. (n + 1) -> T]
      <4>1. \A i \in 1 .. (n + 1) : i # n + 1 => i \in 1 .. n
        BY <3>2
      <4>2. \A i \in 1 .. n : queue[i] \in T
        OBVIOUS
      <4> QED
        BY <4>1, <4>2
    <3>7. ASSUME NEW i \in 1 .. (n + 1), NEW j \in 1 .. (n + 1), i < j
          PROVE  longer[i] < longer[j]
      <4>1. i \in 1 .. n /\ queue[i] \in T /\ queue[i] # x
        <5>1. i \in 1 .. n
          BY <3>2, <3>7
        <5>2. queue[i] \in U
          BY <5>1
        <5> QED
          BY <5>1, <5>2
      <4>2. CASE j = n + 1
        <5>1. queue[i] <= x /\ queue[i] \in Nat /\ x \in Nat
          BY <2>2, <3>1, <4>1
        <5>2. longer[i] = queue[i] /\ longer[j] = x
          BY <3>2, <4>1, <4>2
        <5> QED
          BY <4>1, <5>1, <5>2
      <4>3. CASE j \in 1 .. n
        <5>1. queue[i] < queue[j]
          BY <3>5, <3>7, <4>1, <4>3 DEF Plan!Increasing
        <5>2. longer[i] = queue[i] /\ longer[j] = queue[j]
          BY <3>2, <4>1, <4>3
        <5> QED
          BY <5>1, <5>2
      <4> QED
        BY <3>2, <4>2, <4>3
    <3>8. Plan!Increasing(longer)
      <4>1. DOMAIN longer = 1 .. (n + 1)
        OBVIOUS
      <4> HIDE DEF longer
      <4> QED
        BY <3>7, <4>1 DEF Plan!Increasing
    <3> HIDE DEF longer
    <3> QED
      BY <2>1, <3>2, <3>6, <3>8 DEF Bad
  <2> QED
    BY <2>3, <2>4
<1>2. S \notin Bad
  BY <1>1
<1> QED
  BY <1>2

LEMMA SortedIs ==
  ASSUME NEW S, IsFiniteSet(S), \A x \in S : x \in Nat
  PROVE  Queues(Plan!Sorted(S), S)
<1> DEFINE queue == Plan!Sorted(S)
           n == Cardinality(S)
<1>1. queue \in [1 .. n -> S] /\ Plan!Increasing(queue)
  <2>1. \E q \in [1 .. n -> S] : Plan!Increasing(q)
    BY OrderExists
  <2> QED
    BY <2>1, SameCount DEF Plan!Sorted
<1> HIDE DEF queue
<1>2. n \in Nat
  BY FS_CardinalityType
<1>3. \A i \in 1 .. n : queue[i] \in S /\ queue[i] \in Nat
  BY <1>1
<1>4. \A i, j \in 1 .. n : queue[i] = queue[j] => i = j
  <2> TAKE i, j \in 1 .. n
  <2>1. DOMAIN queue = 1 .. n
    BY <1>1
  <2>2. i < j => queue[i] < queue[j]
    BY <1>1, <2>1 DEF Plan!Increasing
  <2>3. j < i => queue[j] < queue[i]
    BY <1>1, <2>1 DEF Plan!Increasing
  <2>4. queue[i] \in Nat /\ queue[j] \in Nat /\ i \in Nat /\ j \in Nat
    BY <1>2, <1>3
  <2> QED
    BY <2>2, <2>3, <2>4
<1>5. queue \in Surjection(1 .. n, S)
  <2>1. queue \in Injection(1 .. n, S)
    BY <1>1, <1>4 DEF Injection, IsInjective
  <2>2. Cardinality(1 .. n) = n
    BY <1>2, FS_Interval
  <2> HIDE DEF n
  <2> QED
    BY <2>1, <2>2, FS_Injection DEF n
<1>6. queue \in Seq(S) /\ Len(queue) = n
  BY <1>1, <1>2
<1>7. \A x \in S : \E i \in 1 .. n : queue[i] = x
  BY <1>5 DEF Surjection
<1> QED
  BY <1>4, <1>6, <1>7 DEF Queues, queue

\* The first one leaves its queue.
LEMMA TailQueues ==
  ASSUME NEW S, NEW queue, Queues(queue, S), queue # <<>>
  PROVE  Head(queue) \in S /\ Queues(Tail(queue), S \ {Head(queue)})
<1>1. queue \in Seq(S) /\ Len(queue) \in Nat /\ Len(queue) > 0 /\ Head(queue) = queue[1]
  BY DEF Queues
<1>2. /\ Head(queue) \in S /\ Tail(queue) \in Seq(S) /\ Len(Tail(queue)) = Len(queue) - 1
      /\ \A i \in 1 .. Len(Tail(queue)) : Tail(queue)[i] = queue[i + 1]
  BY <1>1, HeadTailProperties
<1> DEFINE tail == Tail(queue)
           n    == Len(queue)
<1> HIDE DEF tail
<1>3. \A i \in 1 .. Len(tail) : i + 1 \in 1 .. n /\ 1 \in 1 .. n /\ i + 1 # 1 /\ tail[i] = queue[i + 1]
  BY <1>1, <1>2 DEF tail
<1>4. \A i \in 1 .. Len(tail) : tail[i] \in S \ {queue[1]}
  <2> TAKE i \in 1 .. Len(tail)
  <2>1. queue[i + 1] # queue[1]
    BY <1>3 DEF Queues
  <2>2. queue[i + 1] \in S
    BY <1>1, <1>3
  <2> QED
    BY <1>3, <2>1, <2>2
<1>5. tail \in Seq(S \ {queue[1]})
  <2>1. tail \in Seq(S)
    BY <1>2 DEF tail
  <2>2. tail = [i \in 1 .. Len(tail) |-> tail[i]] /\ Len(tail) \in Nat
    BY <2>1
  <2> QED
    BY <1>4, <2>2
<1>6. \A i, j \in 1 .. Len(tail) : tail[i] = tail[j] => i = j
  <2> TAKE i, j \in 1 .. Len(tail)
  <2> HAVE tail[i] = tail[j]
  <2>1. i + 1 = j + 1
    BY <1>3 DEF Queues
  <2> QED
    BY <2>1
<1>7. \A x \in S \ {queue[1]} : \E i \in 1 .. Len(tail) : tail[i] = x
  <2> TAKE x \in S \ {queue[1]}
  <2>1. PICK i \in 1 .. n : queue[i] = x
    BY DEF Queues
  <2>2. i # 1 /\ i - 1 \in 1 .. Len(tail) /\ (i - 1) + 1 = i
    <3>1. i # 1
      BY <2>1
    <3>2. Len(tail) = n - 1 /\ n \in Nat
      BY <1>1, <1>2 DEF tail
    <3> QED
      BY <3>1, <3>2
  <2>3. tail[i - 1] = x
    BY <1>3, <2>1, <2>2
  <2> QED
    BY <2>2, <2>3
<1> QED
  BY <1>1, <1>2, <1>5, <1>6, <1>7 DEF Queues, tail

LEMMA EmptyQueue ==
  ASSUME NEW S, NEW queue, Queues(queue, S), queue = <<>>
  PROVE  S = {}
BY DEF Queues

-----------------------------------------------------------------------------
(* What a plan brings each user *)

Transfers == [from : Users, to : Users, amount : Int, currency : Currencies]

\* The transfers of a currency, those that touch a user, and what they bring that user.
Paid(plan, k)        == {i \in 1 .. Len(plan) : plan[i].currency = k}
Touching(plan, k, u) ==
  {i \in 1 .. Len(plan) : plan[i].currency = k /\ u \in {plan[i].from, plan[i].to}}
Gain(t, u)           == IF t.to = u THEN t.amount ELSE -t.amount
Got(plan, k, u)      ==
  SumOver([i \in Touching(plan, k, u) |-> Gain(plan[i], u)], Touching(plan, k, u))

LEMMA GotIs ==
  ASSUME NEW k, NEW u
  PROVE  /\ Plan!Received(u, Plan!Of(k, u)) = Got(transfers, k, u)
         /\ Plan!InPlan(k) = Paid(transfers, k)
<1>1. Plan!Of(k, u) = Touching(transfers, k, u)
  BY DEF Plan!Of, Touching
<1>2. ASSUME NEW indices
      PROVE  Plan!Received(u, indices) = SumOver([i \in indices |-> Gain(transfers[i], u)], indices)
  <2> DEFINE f == [i \in indices |-> Gain(transfers[i], u)]
  <2>1. Plan!Received(u, indices) = Plan!SumFunction(f) /\ DOMAIN f = indices
    BY DEF Plan!Received, Gain
  <2> HIDE DEF f
  <2>2. Plan!SumFunction(f) = SumOver(f, indices)
    BY <2>1, SameSums
  <2> QED
    BY <2>1, <2>2 DEF f
<1> QED
  BY <1>1, <1>2 DEF Got, Plan!InPlan, Paid

LEMMA NothingGot ==
  ASSUME NEW k, NEW u
  PROVE  Got(<<>>, k, u) = 0 /\ Paid(<<>>, k) = {}
<1>1. Touching(<<>>, k, u) = {} /\ Paid(<<>>, k) = {}
  BY DEF Touching, Paid
<1> QED
  BY <1>1, SumEmpty DEF Got

\* One more transfer.
Extended(plan, t, more) ==
  plan \in Seq(Transfers) /\ t \in Transfers /\ more = Append(plan, t)

LEMMA PaidMore ==
  ASSUME NEW plan, NEW t, NEW more, Extended(plan, t, more), NEW k
  PROVE  /\ IsFiniteSet(Paid(plan, k)) /\ Cardinality(Paid(plan, k)) \in Nat
         /\ t.currency # k => Paid(more, k) = Paid(plan, k)
         /\ t.currency = k => Cardinality(Paid(more, k)) = Cardinality(Paid(plan, k)) + 1
<1> DEFINE n == Len(plan)
<1>0. plan \in Seq(Transfers) /\ t \in Transfers /\ more = Append(plan, t)
  BY DEF Extended
<1>1. n \in Nat /\ Len(more) = n + 1 /\ more[n + 1] = t /\ \A i \in 1 .. n : more[i] = plan[i]
  BY <1>0, AppendProperties
<1>2. 1 .. (n + 1) = (1 .. n) \cup {n + 1} /\ n + 1 \notin 1 .. n
  BY <1>1
<1>3. IsFiniteSet(Paid(plan, k))
  <2>1. IsFiniteSet(1 .. n)
    BY <1>1, FS_Interval
  <2>2. Paid(plan, k) \in SUBSET (1 .. n)
    BY DEF Paid
  <2> QED
    BY <2>1, <2>2, FS_Subset
<1>4. ASSUME t.currency # k PROVE Paid(more, k) = Paid(plan, k)
  BY <1>1, <1>2, <1>4 DEF Paid
<1>5. ASSUME t.currency = k PROVE Cardinality(Paid(more, k)) = Cardinality(Paid(plan, k)) + 1
  <2>1. Paid(more, k) = Paid(plan, k) \cup {n + 1} /\ n + 1 \notin Paid(plan, k)
    BY <1>1, <1>2, <1>5 DEF Paid
  <2> QED
    BY <1>3, <2>1, FS_AddElement
<1> QED
  BY <1>3, <1>4, <1>5, FS_CardinalityType

LEMMA GotMore ==
  ASSUME NEW plan, NEW t, NEW more, Extended(plan, t, more), NEW k, NEW u
  PROVE  /\ Got(plan, k, u) \in Int
         /\ t.currency # k \/ u \notin {t.from, t.to} => Got(more, k, u) = Got(plan, k, u)
         /\ t.currency = k /\ u \in {t.from, t.to} =>
              Got(more, k, u) = Got(plan, k, u) + Gain(t, u)
<1> DEFINE n == Len(plan)
           D == Touching(plan, k, u)
           E == Touching(more, k, u)
           f == [i \in D |-> Gain(plan[i], u)]
           g == [i \in E |-> Gain(more[i], u)]
<1>0. plan \in Seq(Transfers) /\ t \in Transfers /\ more = Append(plan, t)
  BY DEF Extended
<1>1. n \in Nat /\ Len(more) = n + 1 /\ more[n + 1] = t /\ \A i \in 1 .. n : more[i] = plan[i]
  BY <1>0, AppendProperties
<1>2. 1 .. (n + 1) = (1 .. n) \cup {n + 1} /\ n + 1 \notin 1 .. n
  BY <1>1
<1>3. IsFiniteSet(D) /\ D \in SUBSET (1 .. n)
  <2>1. IsFiniteSet(1 .. n)
    BY <1>1, FS_Interval
  <2>2. D \in SUBSET (1 .. n)
    BY DEF Touching
  <2> QED
    BY <2>1, <2>2, FS_Subset
<1>4. \A i \in 1 .. n : Gain(plan[i], u) \in Int
  <2> TAKE i \in 1 .. n
  <2>1. plan[i] \in Transfers
    BY <1>0, <1>1
  <2> QED
    BY <2>1 DEF Gain, Transfers
<1>5. \A i \in D : f[i] \in Int /\ (i \in E => g[i] = f[i])
  BY <1>1, <1>3, <1>4
<1>6. SumOver(f, D) \in Int /\ Got(plan, k, u) = SumOver(f, D) /\ Got(more, k, u) = SumOver(g, E)
  <2>1. Got(plan, k, u) = SumOver(f, D) /\ Got(more, k, u) = SumOver(g, E)
    BY DEF Got
  <2> HIDE DEF f, D
  <2> QED
    BY <1>3, <1>5, <2>1, SumInt
<1>7. ASSUME t.currency # k \/ u \notin {t.from, t.to}
      PROVE  SumOver(g, E) = SumOver(f, D)
  <2>1. E = D
    BY <1>1, <1>2, <1>7 DEF Touching
  <2> HIDE DEF f, g, D, E
  <2> QED
    BY <1>3, <1>5, <2>1, SumSame
<1>8. ASSUME t.currency = k, u \in {t.from, t.to}
      PROVE  SumOver(g, E) = SumOver(f, D) + Gain(t, u)
  <2>1. E = D \cup {n + 1} /\ n + 1 \notin D
    BY <1>1, <1>2, <1>8 DEF Touching
  <2>2. g[n + 1] = Gain(t, u) /\ Gain(t, u) \in Int
    BY <1>0, <1>1, <2>1 DEF Gain, Transfers
  <2> HIDE DEF f, g, D, E, n
  <2>3. SumOver(g, D) = SumOver(f, D)
    BY <1>3, <1>5, <2>1, SumSame
  <2>4. SumOver(g, D \cup {n + 1}) = g[n + 1] + SumOver(g, D)
    <3>1. \A i \in D : g[i] \in Int
      BY <1>5, <2>1
    <3> QED
      BY <1>3, <2>1, <2>2, <3>1, SumAdd
  <2> QED
    BY <1>6, <2>1, <2>2, <2>3, <2>4
<1> QED
  BY <1>6, <1>7, <1>8

-----------------------------------------------------------------------------
(* A turn of the match settles a side *)

Owing(amounts)     == {u \in Users : amounts[u] < 0}
Owned(amounts)     == {u \in Users : amounts[u] > 0}
Unsettled(amounts) == {u \in Users : amounts[u] # 0}

\* The sides of the match: who is left in the currency being matched.
Sides ==
  /\ currency \in Currencies \ todo
  /\ \A u \in Users : Plan!MinInt < net[currency][u] /\ net[currency][u] <= MaxInt
  /\ Queues(debtors, Owing(net[currency]))
  /\ Queues(creditors, Owned(net[currency]))

\* What has been paid and what is left make up the balance; what is left sums up to
\* zero, and is zero in every currency that has been matched; every transfer has
\* settled a user, and the last one two.
Paying ==
  /\ transfers \in Seq(Transfers) /\ todo \subseteq Currencies
  /\ \A k \in Currencies :
       /\ SumOver(net[k], Users) = 0
       /\ \A u \in Users : balances[k][u] = net[k][u] + Got(transfers, k, u)
       /\ k \in todo => net[k] = balances[k]
       /\ k \in todo \/ (matching = "match" /\ k = currency) \/ Unsettled(net[k]) = {}
       /\ Cardinality(Paid(transfers, k)) + Cardinality(Unsettled(net[k]))
            <= Cardinality(Unsettled(balances[k]))
       /\ Paid(transfers, k) # {} /\ Unsettled(net[k]) = {} =>
            Cardinality(Paid(transfers, k)) < Cardinality(Unsettled(balances[k]))
  /\ matching = "match" => Sides
  /\ matching = "done" => todo = {}

PlanInv ==
  /\ matching \in {"wait", "open", "match", "done", "refused"}
  /\ net \in [Currencies -> [Users -> Int]]
  /\ matching = "wait" => transfers = <<>>
  /\ matching # "wait" => counting = "done" /\ balances = [k \in Currencies |-> At(k)]
  /\ matching \in {"open", "match", "done"} => Paying

LEMMA UnsettledIs ==
  ASSUME NEW amounts
  PROVE  /\ IsFiniteSet(Unsettled(amounts)) /\ Cardinality(Unsettled(amounts)) \in Nat
         /\ Unsettled(amounts) \subseteq Users
<1>1. Unsettled(amounts) \in SUBSET Users
  BY DEF Unsettled
<1> QED
  BY <1>1, PlanAssumption, FS_Subset, FS_CardinalityType

LEMMA Smallest ==
  ASSUME NEW S \in SUBSET Nat, IsFiniteSet(S), S # {}
  PROVE  \E x \in S : \A y \in S : x <= y
<1> DEFINE Good == {T \in SUBSET S : T = {} \/ \E x \in T : \A y \in T : x <= y}
<1>1. {} \in Good
  OBVIOUS
<1>2. ASSUME NEW T \in SUBSET S, NEW x \in S \ T, T \in Good
      PROVE  T \cup {x} \in Good
  <2>1. CASE T = {}
    BY <1>2, <2>1
  <2>2. ASSUME NEW z \in T, \A y \in T : z <= y
        PROVE  T \cup {x} \in Good
    <3>1. CASE z <= x
      BY <1>2, <2>2, <3>1
    <3>2. CASE x <= z
      <4>1. \A y \in T \cup {x} : x <= y
        BY <1>2, <2>2, <3>2
      <4> QED
        BY <1>2, <4>1
    <3> QED
      BY <1>2, <2>2, <3>1, <3>2
  <2> QED
    BY <1>2, <2>1, <2>2
<1> HIDE DEF Good
<1>3. S \in Good
  BY <1>1, <1>2, Growing
<1> QED
  BY <1>3 DEF Good

LEMMA CallStep ==
  ASSUME ArithmeticInv, PlanInv, CallPlanSettlements
  PROVE  PlanInv'
<1>1. /\ matching = "wait" /\ matching' = "open" /\ counting = "done" /\ counting' = "done"
      /\ UNCHANGED <<values, transfers>> /\ transfers = <<>>
      /\ balances' = [k \in Currencies |-> At(k)]
      /\ net' = [k \in Currencies |-> At(k)]
      /\ todo' = {k \in Currencies : \E u \in Users : At(k)[u] # 0}
  BY SameNets DEF CallPlanSettlements, Plan!Call, PlanInv, arithmeticVars, At
<1>2. \A k \in Currencies : At(k) \in [Users -> Int] /\ SumOver(At(k), Users) = 0
  BY <1>1, DoneMeans DEF At
<1>3. ASSUME NEW k \in Currencies PROVE At(k)' = At(k)
  BY <1>1 DEF At
<1>4. net' \in [Currencies -> [Users -> Int]]
  BY <1>1, <1>2
<1>5. Paying'
  <2>1. transfers' = <<>> /\ <<>> \in Seq(Transfers) /\ todo' \subseteq Currencies
    BY <1>1
  <2>2. ASSUME NEW k \in Currencies
        PROVE  /\ SumOver(net'[k], Users) = 0
               /\ \A u \in Users : balances'[k][u] = net'[k][u] + Got(transfers', k, u)
               /\ net'[k] = balances'[k]
               /\ k \in todo' \/ Unsettled(net'[k]) = {}
               /\ Cardinality(Paid(transfers', k)) + Cardinality(Unsettled(net'[k]))
                    <= Cardinality(Unsettled(balances'[k]))
               /\ Paid(transfers', k) = {}
    <3>1. net'[k] = At(k) /\ balances'[k] = At(k)
      BY <1>1
    <3>2. Paid(transfers', k) = {} /\ \A u : Got(transfers', k, u) = 0
      BY <2>1, NothingGot
    <3>3. \A u \in Users : At(k)[u] = At(k)[u] + 0
      BY <1>2
    <3>4. k \in todo' \/ Unsettled(At(k)) = {}
      BY <1>1 DEF Unsettled
    <3>5. Cardinality({}) = 0 /\ Cardinality(Unsettled(At(k))) \in Nat
      BY UnsettledIs, FS_EmptySet
    <3> QED
      BY <1>2, <3>1, <3>2, <3>3, <3>4, <3>5
  <2> QED
    BY <1>1, <2>1, <2>2 DEF Paying
<1> QED
  BY <1>1, <1>3, <1>4, <1>5 DEF PlanInv

LEMMA OpenStep ==
  ASSUME ArithmeticInv, PlanInv, Plan!Open, UNCHANGED arithmeticVars
  PROVE  PlanInv'
<1> DEFINE k == Plan!Least(todo)
<1>1. /\ matching = "open" /\ todo # {} /\ Plan!Accepts(balances[k])
      /\ currency' = k /\ todo' = todo \ {k} /\ matching' = "match"
      /\ debtors' = Plan!Sorted(Owing(balances[k]))
      /\ creditors' = Plan!Sorted(Owned(balances[k]))
      /\ UNCHANGED <<net, transfers, balances, values, counting>>
  BY DEF Plan!Open, Owing, Owned, arithmeticVars
<1>2. Paying /\ net \in [Currencies -> [Users -> Int]] /\ counting = "done"
      /\ balances = [c \in Currencies |-> At(c)]
  BY <1>1 DEF PlanInv
<1>3. k \in todo /\ k \in Currencies
  <2>1. todo \in SUBSET Nat /\ IsFiniteSet(todo)
    BY <1>2, PlanAssumption, FS_Subset DEF Paying
  <2>2. \E x \in todo : \A y \in todo : x =< y
    BY <1>1, <2>1, Smallest
  <2>3. k \in todo
    BY <2>2 DEF Plan!Least
  <2> QED
    BY <1>2, <2>3 DEF Paying
<1> HIDE DEF k
<1>4. net[k] = balances[k] /\ net[k] = At(k) /\ \A u \in Users : net[k][u] \in Int
  BY <1>2, <1>3 DEF Paying
<1>5. \A u \in Users : Plan!MinInt < net[k][u] /\ net[k][u] <= MaxInt
  <2> TAKE u \in Users
  <2>1. net[k][u] # Plan!MinInt
    BY <1>1, <1>4 DEF Plan!Accepts
  <2>2. At(k)[u] \in -MaxInt - 1 .. MaxInt
    <3>1. MaxInt \in Nat
      BY PlanAssumption
    <3>2. 0 \in -MaxInt - 1 .. MaxInt
      BY <3>1
    <3>3. \A key \in DOMAIN values : values[key] \in -MaxInt - 1 .. MaxInt
      BY DEF ArithmeticInv, CountInv, Calculate!Fits, Calculate!Ints
    <3> QED
      BY <3>2, <3>3 DEF At, Of
  <2>3. MaxInt \in Nat /\ At(k)[u] \in Int
    BY <1>4, PlanAssumption
  <2> QED
    BY <1>4, <2>1, <2>2, <2>3 DEF Plan!MinInt
<1>6. Queues(debtors', Owing(net[k])) /\ Queues(creditors', Owned(net[k]))
  <2>1. Owing(net[k]) \in SUBSET Users /\ Owned(net[k]) \in SUBSET Users
    BY DEF Owing, Owned
  <2>2. /\ Owing(net[k]) \in SUBSET Nat /\ Owned(net[k]) \in SUBSET Nat
        /\ IsFiniteSet(Owing(net[k])) /\ IsFiniteSet(Owned(net[k]))
    BY <2>1, PlanAssumption, FS_Subset
  <2> QED
    BY <1>1, <1>4, <2>2, SortedIs
<1>7. Sides'
  BY <1>1, <1>3, <1>5, <1>6 DEF Sides, Owing, Owned
<1>8. Paying'
  <2>1. /\ transfers' \in Seq(Transfers) /\ todo' \subseteq Currencies
        /\ todo' \subseteq todo /\ \A c \in todo : c \in todo' \/ c = currency'
    BY <1>1, <1>2 DEF Paying
  <2>2. \A c \in Currencies : c \in todo \/ Unsettled(net[c]) = {}
    BY <1>1, <1>2 DEF Paying
  <2>3. \A c \in Currencies :
          /\ SumOver(net'[c], Users) = 0
          /\ \A u \in Users : balances'[c][u] = net'[c][u] + Got(transfers', c, u)
          /\ c \in todo' => net'[c] = balances'[c]
          /\ c \in todo' \/ (matching' = "match" /\ c = currency') \/ Unsettled(net'[c]) = {}
          /\ Cardinality(Paid(transfers', c)) + Cardinality(Unsettled(net'[c]))
               <= Cardinality(Unsettled(balances'[c]))
          /\ Paid(transfers', c) # {} /\ Unsettled(net'[c]) = {} =>
               Cardinality(Paid(transfers', c)) < Cardinality(Unsettled(balances'[c]))
    BY <1>1, <1>2, <2>1, <2>2 DEF Paying
  <2> QED
    BY <1>1, <1>7, <2>1, <2>3 DEF Paying
<1> QED
  BY <1>1, <1>2, <1>8 DEF PlanInv, At

\* When nobody owes, or nobody is owed, nothing is left: the greedy match stops on
\* either side and trusts that the other one is exhausted too.
LEMMA BothExhausted ==
  ASSUME NEW amounts \in [Users -> Int], SumOver(amounts, Users) = 0,
         Owing(amounts) = {} \/ Owned(amounts) = {}
  PROVE  Unsettled(amounts) = {}
<1>1. IsFiniteSet(Users)
  BY PlanAssumption
<1>2. CASE Owing(amounts) = {}
  <2>1. \A u \in Users : amounts[u] \in Nat
    BY <1>2 DEF Owing
  <2>2. \A u \in Users : amounts[u] <= 0
    BY <1>1, <2>1, SumMember
  <2> QED
    BY <2>1, <2>2 DEF Unsettled
<1>3. CASE Owned(amounts) = {}
  <2> DEFINE minus == [u \in Users |-> -amounts[u]]
  <2>1. \A u \in Users : minus[u] \in Nat /\ minus[u] = -amounts[u] /\ amounts[u] \in Int
    BY <1>3 DEF Owned
  <2> HIDE DEF minus
  <2>2. SumOver(minus, Users) = 0
    <3> DEFINE zero == [u \in Users |-> 0]
    <3>1. \A u \in Users : amounts[u] \in Int /\ minus[u] \in Int /\ zero[u] = amounts[u] + minus[u]
      BY <2>1
    <3>2. \A u \in Users : zero[u] = 0
      OBVIOUS
    <3> HIDE DEF zero
    <3>3. SumOver(zero, Users) = 0 /\ SumOver(minus, Users) \in Int
      BY <1>1, <3>1, <3>2, SumZero, SumInt
    <3>4. SumOver(zero, Users) = SumOver(amounts, Users) + SumOver(minus, Users)
      BY <1>1, <3>1, SumPlus
    <3> QED
      BY <3>3, <3>4
  <2>3. \A u \in Users : minus[u] <= 0
    BY <1>1, <2>1, <2>2, SumMember
  <2>4. ASSUME NEW u \in Users PROVE amounts[u] = 0
    <3>1. /\ minus[u] \in Nat /\ minus[u] <= 0 /\ minus[u] = -amounts[u] /\ amounts[u] \in Int
      BY <2>1, <2>3
    <3> QED
      BY <3>1
  <2> QED
    BY <2>4 DEF Unsettled
<1> QED
  BY <1>2, <1>3

LEMMA CloseStep ==
  ASSUME PlanInv, Plan!Close, UNCHANGED arithmeticVars
  PROVE  PlanInv'
<1>1. /\ matching = "match" /\ matching' = "open"
      /\ debtors = <<>> \/ creditors = <<>>
  BY DEF Plan!Close
<1>2. UNCHANGED <<todo, net, transfers, balances, values, counting>>
  BY DEF Plan!Close, arithmeticVars
<1>3. Paying /\ Sides /\ net \in [Currencies -> [Users -> Int]]
  <2>1. Paying /\ net \in [Currencies -> [Users -> Int]]
    BY <1>1 DEF PlanInv
  <2> QED
    BY <1>1, <2>1 DEF Paying
<1>4. Unsettled(net[currency]) = {}
  <2>1. Owing(net[currency]) = {} \/ Owned(net[currency]) = {}
    BY <1>1, <1>3, EmptyQueue DEF Sides
  <2>2. net[currency] \in [Users -> Int] /\ SumOver(net[currency], Users) = 0
    BY <1>3 DEF Paying, Sides
  <2> QED
    BY <2>1, <2>2, BothExhausted
<1>5. \A k \in Currencies : k \in todo \/ Unsettled(net[k]) = {}
  BY <1>3, <1>4 DEF Paying
<1>6. Paying'
  <2>1. \A k \in Currencies :
          /\ SumOver(net'[k], Users) = 0
          /\ \A u \in Users : balances'[k][u] = net'[k][u] + Got(transfers', k, u)
          /\ k \in todo' => net'[k] = balances'[k]
          /\ k \in todo' \/ Unsettled(net'[k]) = {}
          /\ Cardinality(Paid(transfers', k)) + Cardinality(Unsettled(net'[k]))
               <= Cardinality(Unsettled(balances'[k]))
          /\ Paid(transfers', k) # {} /\ Unsettled(net'[k]) = {} =>
               Cardinality(Paid(transfers', k)) < Cardinality(Unsettled(balances'[k]))
    BY <1>2, <1>3, <1>5 DEF Paying
  <2>2. transfers' \in Seq(Transfers) /\ todo' \subseteq Currencies
    BY <1>2, <1>3 DEF Paying
  <2> QED
    BY <1>1, <2>1, <2>2 DEF Paying
<1>7. balances' = [k \in Currencies |-> At(k)'] /\ counting' = "done"
  BY <1>1, <1>2 DEF PlanInv, At
<1> QED
  BY <1>1, <1>2, <1>3, <1>6, <1>7 DEF PlanInv

LEMMA EndStep ==
  ASSUME PlanInv, Plan!Refuse \/ Plan!Return, UNCHANGED arithmeticVars
  PROVE  PlanInv'
<1>1. /\ matching = "open" /\ UNCHANGED <<todo, net, balances, values, counting>>
  BY DEF Plan!Refuse, Plan!Return, arithmeticVars
<1>2. \/ matching' = "refused"
      \/ matching' = "done" /\ todo = {} /\ UNCHANGED transfers
  BY DEF Plan!Refuse, Plan!Return
<1>3. CASE matching' = "refused"
  BY <1>1, <1>3 DEF PlanInv, At
<1>4. CASE matching' = "done" /\ todo = {} /\ UNCHANGED transfers
  <2>1. Paying'
    BY <1>1, <1>4 DEF PlanInv, Paying
  <2> QED
    BY <1>1, <1>4, <2>1 DEF PlanInv, At
<1> QED
  BY <1>2, <1>3, <1>4

\* A turn of the match: an amount that overshoots neither side and settles one.
Turn(from, to, amount) ==
  /\ from \in Owing(net[currency]) /\ to \in Owned(net[currency]) /\ from # to
  /\ amount \in Int /\ amount > 0
  /\ amount <= -net[currency][from] /\ amount <= net[currency][to]
  /\ net[currency][from] + amount = 0 \/ net[currency][to] - amount = 0
  /\ transfers' =
       Append(transfers, [from |-> from, to |-> to, amount |-> amount, currency |-> currency])
  /\ net' = [net EXCEPT ![currency] =
               [@ EXCEPT ![from] = net[currency][from] + amount,
                         ![to] = net[currency][to] - amount]]
  /\ debtors' = IF net[currency][from] + amount = 0 THEN Tail(debtors) ELSE debtors
  /\ creditors' = IF net[currency][to] - amount = 0 THEN Tail(creditors) ELSE creditors
  /\ from = Head(debtors) /\ to = Head(creditors)

LEMMA MatchTurns ==
  ASSUME PlanInv, Plan!Match
  PROVE  \E from, to \in Users, amount \in Int : Turn(from, to, amount)
<1> DEFINE m    == net[currency]
           from == Head(debtors)
           to   == Head(creditors)
           a    == Plan!Amount(Plan!Wrap(-m[from]), m[to])
<1>1. /\ matching = "match" /\ debtors # <<>> /\ creditors # <<>>
      /\ transfers' = IF a > 0
                      THEN Append(transfers, [from |-> from, to |-> to, amount |-> a,
                                              currency |-> currency])
                      ELSE transfers
      /\ net' = [net EXCEPT ![currency] = [@ EXCEPT ![from] = Plan!Wrap(m[from] + a),
                                                    ![to] = Plan!Wrap(m[to] - a)]]
      /\ debtors' = Plan!Advance(debtors, Plan!Wrap(m[from] + a))
      /\ creditors' = Plan!Advance(creditors, Plan!Wrap(m[to] - a))
  BY DEF Plan!Match
<1>2. Sides /\ net \in [Currencies -> [Users -> Int]] /\ MaxInt \in Nat
  BY <1>1, PlanAssumption DEF PlanInv, Paying
<1>3. from \in Owing(m) /\ to \in Owned(m)
  BY <1>1, <1>2, TailQueues DEF Sides
<1>4. /\ from \in Users /\ to \in Users /\ m[from] \in Int /\ m[to] \in Int
      /\ m[from] < 0 /\ m[to] > 0 /\ Plan!MinInt < m[from] /\ m[to] <= MaxInt
      /\ Plan!MinInt = -MaxInt - 1
  BY <1>2, <1>3 DEF Sides, Owing, Owned, Plan!MinInt
<1>5. from # to
  BY <1>4
<1> HIDE DEF m, from, to
<1>6. Plan!Wrap(-m[from]) = -m[from]
  <2>1. -m[from] \in Int /\ Plan!MinInt <= -m[from] /\ -m[from] <= MaxInt
    BY <1>2, <1>4
  <2> QED
    BY <2>1, WrapSame
<1>7. /\ a \in Int /\ a > 0 /\ a <= -m[from] /\ a <= m[to]
      /\ m[from] + a = 0 \/ m[to] - a = 0
  BY <1>4, <1>6 DEF Plan!Amount
<1> HIDE DEF a
<1>8. Plan!Wrap(m[from] + a) = m[from] + a
  <2>1. m[from] + a \in Int /\ Plan!MinInt <= m[from] + a /\ m[from] + a <= MaxInt
    BY <1>2, <1>4, <1>7
  <2> QED
    BY <2>1, WrapSame
<1>9. Plan!Wrap(m[to] - a) = m[to] - a
  <2>1. m[to] - a \in Int /\ Plan!MinInt <= m[to] - a /\ m[to] - a <= MaxInt
    BY <1>2, <1>4, <1>7
  <2> QED
    BY <2>1, WrapSame
<1>10. Turn(from, to, a)
  BY <1>1, <1>3, <1>5, <1>7, <1>8, <1>9 DEF Turn, Plan!Advance, m, from, to
<1> QED
  BY <1>4, <1>7, <1>10

\* The amounts of a currency before and after a payment.
Moved(m, n, from, to, a) ==
  /\ m \in [Users -> Int] /\ n \in [Users -> Int]
  /\ from \in Users /\ to \in Users /\ from # to
  /\ a \in Int /\ a > 0 /\ m[from] < 0 /\ m[to] > 0 /\ a <= -m[from] /\ a <= m[to]
  /\ n[from] = m[from] + a /\ n[to] = m[to] - a
  /\ \A u \in Users \ {from, to} : n[u] = m[u]

LEMMA MovedSum ==
  ASSUME NEW m, NEW n, NEW from, NEW to, NEW a, Moved(m, n, from, to, a)
  PROVE  SumOver(n, Users) = SumOver(m, Users)
<1> DEFINE S == Users \ {from}
           R == S \ {to}
<1>1. /\ IsFiniteSet(Users) /\ IsFiniteSet(S) /\ IsFiniteSet(R)
      /\ from \in Users /\ to \in S /\ S \subseteq Users /\ R \subseteq Users
  BY PlanAssumption, FS_Subset DEF Moved
<1>2. /\ \A u \in Users : m[u] \in Int /\ n[u] \in Int
      /\ a \in Int /\ n[from] = m[from] + a /\ n[to] = m[to] - a
      /\ \A u \in R : m[u] = n[u]
  BY DEF Moved
<1> HIDE DEF S, R
<1>3. /\ SumOver(m, Users) = m[from] + SumOver(m, S)
      /\ SumOver(n, Users) = n[from] + SumOver(n, S)
  BY <1>1, <1>2, SumStep DEF S
<1>4. /\ SumOver(m, S) = m[to] + SumOver(m, R)
      /\ SumOver(n, S) = n[to] + SumOver(n, R)
  BY <1>1, <1>2, SumStep DEF R
<1>5. SumOver(m, R) = SumOver(n, R) /\ SumOver(m, R) \in Int
  BY <1>1, <1>2, SumSame, SumInt
<1>6. m[from] \in Int /\ m[to] \in Int
  BY <1>1, <1>2
<1> QED
  BY <1>2, <1>3, <1>4, <1>5, <1>6

LEMMA MovedSides ==
  ASSUME NEW m, NEW n, NEW from, NEW to, NEW a, Moved(m, n, from, to, a)
  PROVE  /\ from \in Owing(m) /\ to \in Owned(m)
         /\ Owing(n) = IF m[from] + a = 0 THEN Owing(m) \ {from} ELSE Owing(m)
         /\ Owned(n) = IF m[to] - a = 0 THEN Owned(m) \ {to} ELSE Owned(m)
<1>1. /\ m[from] \in Int /\ m[to] \in Int /\ a \in Int /\ a > 0
      /\ m[from] < 0 /\ m[to] > 0 /\ a <= -m[from] /\ a <= m[to]
      /\ from \in Users /\ to \in Users /\ from # to
      /\ n[from] = m[from] + a /\ n[to] = m[to] - a
      /\ \A u \in Users \ {from, to} : n[u] = m[u]
  BY DEF Moved
<1>2. from \in Owing(m) /\ to \in Owned(m)
  BY <1>1 DEF Owing, Owned
<1>3. /\ from \notin Owned(m) /\ from \notin Owned(n)
      /\ to \notin Owing(m) /\ to \notin Owing(n)
  BY <1>1 DEF Owing, Owned
<1>4. /\ from \in Owing(n) <=> m[from] + a # 0
      /\ to \in Owned(n) <=> m[to] - a # 0
  BY <1>1 DEF Owing, Owned
<1>5. \A u \in Users \ {from, to} :
        /\ u \in Owing(n) <=> u \in Owing(m)
        /\ u \in Owned(n) <=> u \in Owned(m)
  BY <1>1 DEF Owing, Owned
<1>6. /\ Owing(m) \subseteq Users /\ Owned(m) \subseteq Users
      /\ Owing(n) \subseteq Users /\ Owned(n) \subseteq Users
  BY DEF Owing, Owned
<1>7. Owing(n) = IF m[from] + a = 0 THEN Owing(m) \ {from} ELSE Owing(m)
  BY <1>2, <1>3, <1>4, <1>5, <1>6
<1>8. Owned(n) = IF m[to] - a = 0 THEN Owned(m) \ {to} ELSE Owned(m)
  BY <1>2, <1>3, <1>4, <1>5, <1>6
<1> QED
  BY <1>2, <1>7, <1>8

LEMMA MovedCount ==
  ASSUME NEW m, NEW n, NEW from, NEW to, NEW a, Moved(m, n, from, to, a),
         m[from] + a = 0 \/ m[to] - a = 0
  PROVE  /\ Cardinality(Unsettled(n)) + 1 <= Cardinality(Unsettled(m))
         /\ Unsettled(n) = {} => 2 <= Cardinality(Unsettled(m))
<1>1. /\ m[from] \in Int /\ m[to] \in Int /\ m[from] < 0 /\ m[to] > 0
      /\ from \in Users /\ to \in Users /\ from # to
      /\ n[from] = m[from] + a /\ n[to] = m[to] - a
      /\ \A u \in Users \ {from, to} : n[u] = m[u]
  BY DEF Moved
<1>2. {from, to} \subseteq Unsettled(m)
  BY <1>1 DEF Unsettled
<1>3. PICK gone \in {from, to} : n[gone] = 0
  BY <1>1
<1>4. Unsettled(n) \subseteq Unsettled(m) \ {gone}
  BY <1>1, <1>2, <1>3 DEF Unsettled
<1>5. /\ IsFiniteSet(Unsettled(m)) /\ IsFiniteSet(Unsettled(n))
      /\ Cardinality(Unsettled(m)) \in Nat /\ Cardinality(Unsettled(n)) \in Nat
  BY UnsettledIs
<1>6. /\ IsFiniteSet(Unsettled(m) \ {gone})
      /\ Cardinality(Unsettled(m) \ {gone}) = Cardinality(Unsettled(m)) - 1
  BY <1>2, <1>3, <1>5, FS_RemoveElement
<1>7. Cardinality(Unsettled(n)) <= Cardinality(Unsettled(m) \ {gone})
  BY <1>4, <1>6, FS_Subset
<1>8. 2 <= Cardinality(Unsettled(m))
  <2>1. IsFiniteSet({from}) /\ Cardinality({from}) = 1
    BY FS_Singleton
  <2>2. Cardinality({from} \cup {to}) = 2
    <3>1. to \notin {from}
      BY <1>1
    <3>2. Cardinality({from} \cup {to}) = Cardinality({from}) + 1
      BY <2>1, <3>1, FS_AddElement
    <3> QED
      BY <2>1, <3>2
  <2>3. {from} \cup {to} \in SUBSET Unsettled(m)
    BY <1>2
  <2>4. Cardinality({from} \cup {to}) <= Cardinality(Unsettled(m))
    BY <1>5, <2>3, FS_Subset
  <2> QED
    BY <2>2, <2>4
<1> QED
  BY <1>5, <1>6, <1>7, <1>8

LEMMA TurnMoves ==
  ASSUME NEW from \in Users, NEW to \in Users, NEW amount \in Int, Turn(from, to, amount),
         currency \in Currencies, net \in [Currencies -> [Users -> Int]]
  PROVE  /\ net' \in [Currencies -> [Users -> Int]]
         /\ Moved(net[currency], net'[currency], from, to, amount)
         /\ net[currency][from] + amount = 0 \/ net[currency][to] - amount = 0
         /\ \A k \in Currencies \ {currency} : net'[k] = net[k]
<1> DEFINE m == net[currency]
           n == [m EXCEPT ![from] = m[from] + amount, ![to] = m[to] - amount]
<1>1. /\ m \in [Users -> Int] /\ m[from] < 0 /\ m[to] > 0 /\ from # to
      /\ amount > 0 /\ amount <= -m[from] /\ amount <= m[to]
      /\ m[from] + amount = 0 \/ m[to] - amount = 0
  BY DEF Turn, Owing, Owned
<1>2. net' = [net EXCEPT ![currency] = n]
  BY DEF Turn
<1>3. n \in [Users -> Int]
  BY <1>1
<1>4. /\ n[from] = m[from] + amount /\ n[to] = m[to] - amount
      /\ \A u \in Users \ {from, to} : n[u] = m[u]
  BY <1>1
<1> HIDE DEF n
<1>5. /\ net' \in [Currencies -> [Users -> Int]] /\ net'[currency] = n
      /\ \A k \in Currencies \ {currency} : net'[k] = net[k]
  BY <1>2, <1>3
<1> QED
  BY <1>1, <1>3, <1>4, <1>5 DEF Moved

LEMMA MatchStep ==
  ASSUME PlanInv, Plan!Match, UNCHANGED arithmeticVars
  PROVE  PlanInv'
<1> DEFINE c == currency
           m == net[c]
           n == net'[c]
<1>1. /\ matching = "match" /\ matching' = "match" /\ currency' = c
      /\ debtors # <<>> /\ creditors # <<>>
      /\ UNCHANGED <<todo, balances, values, counting>>
  BY DEF Plan!Match, arithmeticVars
<1>2. Paying /\ net \in [Currencies -> [Users -> Int]]
  BY <1>1 DEF PlanInv
<1>3. Sides
  BY <1>1, <1>2 DEF Paying
<1>4. c \in Currencies /\ c \notin todo
  BY <1>3 DEF Sides
<1>5. PICK from, to \in Users, amount \in Int : Turn(from, to, amount)
  BY MatchTurns
<1>6. /\ net' \in [Currencies -> [Users -> Int]] /\ Moved(m, n, from, to, amount)
      /\ m[from] + amount = 0 \/ m[to] - amount = 0
      /\ \A k \in Currencies \ {c} : net'[k] = net[k]
  BY <1>2, <1>4, <1>5, TurnMoves
<1> DEFINE t == [from |-> from, to |-> to, amount |-> amount, currency |-> c]
<1>7. transfers' = Append(transfers, t) /\ t \in Transfers /\ transfers \in Seq(Transfers)
      /\ t.from = from /\ t.to = to /\ t.amount = amount /\ t.currency = c
  BY <1>2, <1>4, <1>5 DEF Turn, Transfers, Paying
<1> HIDE DEF t
<1>8. /\ transfers' \in Seq(Transfers)
      /\ \A k, u : /\ IsFiniteSet(Paid(transfers, k)) /\ Cardinality(Paid(transfers, k)) \in Nat
                   /\ Got(transfers, k, u) \in Int
                   /\ k # c => Paid(transfers', k) = Paid(transfers, k)
                               /\ Got(transfers', k, u) = Got(transfers, k, u)
      /\ Cardinality(Paid(transfers', c)) = Cardinality(Paid(transfers, c)) + 1
      /\ \A u : u \notin {from, to} => Got(transfers', c, u) = Got(transfers, c, u)
      /\ \A u \in {from, to} : Got(transfers', c, u) = Got(transfers, c, u) + Gain(t, u)
  <2>0. Extended(transfers, t, transfers')
    BY <1>7 DEF Extended
  <2>1. transfers' \in Seq(Transfers)
    BY <1>7, AppendProperties
  <2>2. ASSUME NEW k
        PROVE  /\ IsFiniteSet(Paid(transfers, k)) /\ Cardinality(Paid(transfers, k)) \in Nat
               /\ k # c => Paid(transfers', k) = Paid(transfers, k)
               /\ k = c => Cardinality(Paid(transfers', k)) = Cardinality(Paid(transfers, k)) + 1
    BY <1>7, <2>0, PaidMore
  <2>3. ASSUME NEW k, NEW u
        PROVE  /\ Got(transfers, k, u) \in Int
               /\ k # c \/ u \notin {from, to} => Got(transfers', k, u) = Got(transfers, k, u)
               /\ k = c /\ u \in {from, to} =>
                    Got(transfers', k, u) = Got(transfers, k, u) + Gain(t, u)
    BY <1>7, <2>0, GotMore
  <2> QED
    BY <2>1, <2>2, <2>3
<1>9. Sides'
  <2>1. \A u \in Users : Plan!MinInt < n[u] /\ n[u] <= MaxInt
    <3> TAKE u \in Users
    <3>1. /\ m[u] \in Int /\ n[u] \in Int /\ amount \in Int
          /\ Plan!MinInt < m[u] /\ m[u] <= MaxInt
          /\ MaxInt \in Nat /\ Plan!MinInt = -MaxInt - 1
      BY <1>3, <1>6, PlanAssumption DEF Sides, Moved, Plan!MinInt
    <3>2. CASE u = from
      BY <1>6, <3>1, <3>2 DEF Moved
    <3>3. CASE u = to
      BY <1>6, <3>1, <3>3 DEF Moved
    <3>4. CASE u \notin {from, to}
      BY <1>6, <3>1, <3>4 DEF Moved
    <3> QED
      BY <3>2, <3>3, <3>4
  <2>2. /\ from = Head(debtors) /\ to = Head(creditors)
        /\ debtors' = IF m[from] + amount = 0 THEN Tail(debtors) ELSE debtors
        /\ creditors' = IF m[to] - amount = 0 THEN Tail(creditors) ELSE creditors
    BY <1>5 DEF Turn
  <2>3. Queues(debtors', Owing(n))
    <3>1. Queues(debtors, Owing(m)) /\ Queues(Tail(debtors), Owing(m) \ {from})
      BY <1>1, <1>3, <2>2, TailQueues DEF Sides
    <3>2. Owing(n) = IF m[from] + amount = 0 THEN Owing(m) \ {from} ELSE Owing(m)
      BY <1>6, MovedSides
    <3> QED
      BY <2>2, <3>1, <3>2
  <2>4. Queues(creditors', Owned(n))
    <3>1. Queues(creditors, Owned(m)) /\ Queues(Tail(creditors), Owned(m) \ {to})
      BY <1>1, <1>3, <2>2, TailQueues DEF Sides
    <3>2. Owned(n) = IF m[to] - amount = 0 THEN Owned(m) \ {to} ELSE Owned(m)
      BY <1>6, MovedSides
    <3> QED
      BY <2>2, <3>1, <3>2
  <2> QED
    BY <1>1, <1>4, <2>1, <2>3, <2>4 DEF Sides, Owing, Owned
<1> DEFINE Settling(k) ==
             /\ SumOver(net'[k], Users) = 0
             /\ \A u \in Users : balances'[k][u] = net'[k][u] + Got(transfers', k, u)
             /\ k \in todo' => net'[k] = balances'[k]
             /\ k \in todo' \/ (matching' = "match" /\ k = currency') \/ Unsettled(net'[k]) = {}
             /\ Cardinality(Paid(transfers', k)) + Cardinality(Unsettled(net'[k]))
                  <= Cardinality(Unsettled(balances'[k]))
             /\ Paid(transfers', k) # {} /\ Unsettled(net'[k]) = {} =>
                  Cardinality(Paid(transfers', k)) < Cardinality(Unsettled(balances'[k]))
<1>10. ASSUME NEW k \in Currencies \ {c} PROVE Settling(k)
  <2>1. net'[k] = net[k] /\ balances' = balances
    BY <1>1, <1>6
  <2>2. Paid(transfers', k) = Paid(transfers, k) /\ \A u : Got(transfers', k, u) = Got(transfers, k, u)
    BY <1>8
  <2> QED
    BY <1>1, <1>2, <2>1, <2>2 DEF Paying
<1>11. Settling(c)
  <2>1. SumOver(n, Users) = 0
    BY <1>2, <1>4, <1>6, MovedSum DEF Paying
  <2>2. ASSUME NEW u \in Users PROVE balances'[c][u] = n[u] + Got(transfers', c, u)
    <3>1. balances[c][u] = m[u] + Got(transfers, c, u) /\ balances' = balances
      BY <1>1, <1>2, <1>4 DEF Paying
    <3>2. /\ Got(transfers, c, u) \in Int
          /\ u \notin {from, to} => Got(transfers', c, u) = Got(transfers, c, u)
          /\ u \in {from, to} => Got(transfers', c, u) = Got(transfers, c, u) + Gain(t, u)
      BY <1>8
    <3>3. /\ m[u] \in Int /\ amount \in Int /\ from # to
          /\ u \notin {from, to} => n[u] = m[u]
          /\ u = from => n[u] = m[u] + amount /\ Gain(t, u) = -amount
          /\ u = to => n[u] = m[u] - amount /\ Gain(t, u) = amount
      BY <1>6, <1>7 DEF Moved, Gain
    <3> HIDE DEF c, m, n, t
    <3>4. CASE u = from
      BY <3>1, <3>2, <3>3, <3>4
    <3>5. CASE u = to
      BY <3>1, <3>2, <3>3, <3>5
    <3>6. CASE u \notin {from, to}
      BY <3>1, <3>2, <3>3, <3>6
    <3> QED
      BY <3>4, <3>5, <3>6
  <2>3. /\ Cardinality(Paid(transfers', c)) = Cardinality(Paid(transfers, c)) + 1
        /\ Cardinality(Paid(transfers, c)) \in Nat
    BY <1>8
  <2>4. /\ Cardinality(Unsettled(n)) + 1 <= Cardinality(Unsettled(m))
        /\ Unsettled(n) = {} => 2 <= Cardinality(Unsettled(m))
    BY <1>6, MovedCount
  <2>5. /\ Cardinality(Unsettled(n)) \in Nat /\ Cardinality(Unsettled(m)) \in Nat
        /\ Cardinality(Unsettled(balances[c])) \in Nat
    BY UnsettledIs
  <2>6. /\ Cardinality(Paid(transfers, c)) + Cardinality(Unsettled(m))
             <= Cardinality(Unsettled(balances[c]))
        /\ balances' = balances
    BY <1>1, <1>2, <1>4 DEF Paying
  <2>7. Cardinality(Paid(transfers', c)) + Cardinality(Unsettled(n))
          <= Cardinality(Unsettled(balances'[c]))
    BY <2>3, <2>4, <2>5, <2>6
  <2>8. Unsettled(n) = {} => Cardinality(Paid(transfers', c)) < Cardinality(Unsettled(balances'[c]))
    BY <2>3, <2>4, <2>5, <2>6
  <2> QED
    BY <1>1, <1>4, <2>1, <2>2, <2>7, <2>8
<1>12. Paying'
  <2>1. \A k \in Currencies : Settling(k)
    BY <1>10, <1>11
  <2>2. todo' \subseteq Currencies
    BY <1>1, <1>2 DEF Paying
  <2> QED
    BY <1>1, <1>8, <1>9, <2>1, <2>2 DEF Paying
<1>13. counting = "done" /\ balances = [k \in Currencies |-> At(k)]
  BY <1>1 DEF PlanInv
<1> QED
  BY <1>1, <1>6, <1>12, <1>13 DEF PlanInv, At

-----------------------------------------------------------------------------
(* Plans settle *)

LEMMA TouchingIs ==
  ASSUME NEW plan \in Seq(Transfers), NEW k, NEW u
  PROVE  /\ IsFiniteSet(Touching(plan, k, u))
         /\ \A i \in Touching(plan, k, u) : Gain(plan[i], u) \in Int
<1>1. Len(plan) \in Nat /\ Touching(plan, k, u) \in SUBSET (1 .. Len(plan))
  BY DEF Touching
<1>2. IsFiniteSet(1 .. Len(plan))
  BY <1>1, FS_Interval
<1>3. \A i \in 1 .. Len(plan) : Gain(plan[i], u) \in Int
  <2> TAKE i \in 1 .. Len(plan)
  <2>1. plan[i] \in Transfers
    OBVIOUS
  <2> QED
    BY <2>1 DEF Gain, Transfers
<1> QED
  BY <1>1, <1>2, <1>3, FS_Subset

LEMMA PlanInvHolds == Spec => []PlanInv
<1>1. Start => PlanInv
  BY DEF Start, Init, Plan!PlanInit, PlanInv
<1>2. ChainInv /\ PlanInv /\ [CreateExpense \/ PlanStep]_vars => PlanInv'
  <2> SUFFICES ASSUME ChainInv, PlanInv, [CreateExpense \/ PlanStep]_vars PROVE PlanInv'
    OBVIOUS
  <2>1. ArithmeticInv
    BY DEF ChainInv
  <2>2. CASE UNCHANGED planRequestVars
    <3>1. /\ UNCHANGED <<matching, todo, currency, debtors, creditors, net, transfers, balances>>
          /\ UNCHANGED <<counting, values>>
      BY <2>2 DEF planRequestVars, arithmeticVars, planVars
    <3>2. Sides => Sides'
      BY <3>1 DEF Sides, Owing, Owned
    <3>3. Paying => Paying'
      BY <3>1, <3>2 DEF Paying
    <3> QED
      BY <3>1, <3>3 DEF PlanInv, At
  <2>3. CASE GetBalance
    <3>1. matching = "wait" /\ matching' = "wait" /\ UNCHANGED <<net, transfers>>
      BY <2>3 DEF GetBalance, planVars, PlanInv, Calculate!ArithmeticNext, Calculate!CountOperation,
                  Calculate!Counted, Calculate!AddToTotal, Calculate!Balanced
    <3> QED
      BY <3>1 DEF PlanInv
  <2>4. CASE CallPlanSettlements
    BY <2>1, <2>4, CallStep
  <2>5. CASE PlanSettlements
    BY <2>1, <2>5, OpenStep, MatchStep, CloseStep, EndStep DEF PlanSettlements, Plan!PlanNext
  <2> QED
    BY <2>2, <2>3, <2>4, <2>5 DEF CreateExpense, PlanStep, Next, vars
<1> QED
  BY <1>1, <1>2, ChainInvHolds, PTL DEF Spec

LEMMA BothSides ==
  ASSUME NEW k, \A u \in Users : balances[k][u] \in Int
  PROVE  Cardinality(Plan!Payers(k)) + Cardinality(Plan!Payees(k))
           = Cardinality(Unsettled(balances[k]))
<1> DEFINE A == Plan!Payers(k)
           B == Plan!Payees(k)
<1>1. A \in SUBSET Users /\ B \in SUBSET Users
  BY DEF Plan!Payers, Plan!Payees
<1>2. A \cup B = Unsettled(balances[k]) /\ A \cap B = {}
  BY DEF Plan!Payers, Plan!Payees, Unsettled
<1> HIDE DEF A, B
<1>3. IsFiniteSet(A) /\ IsFiniteSet(B)
  BY <1>1, PlanAssumption, FS_Subset
<1>4. Cardinality(A) \in Nat /\ Cardinality(B) \in Nat /\ Cardinality(A \cap B) = 0
  BY <1>2, <1>3, FS_CardinalityType, FS_EmptySet
<1>5. Cardinality(A \cup B) = Cardinality(A) + Cardinality(B) - Cardinality(A \cap B)
  BY <1>3, FS_Union
<1>6. Cardinality(A) + Cardinality(B) = Cardinality(A \cup B)
  BY <1>4, <1>5
<1> QED
  BY <1>2, <1>6 DEF A, B

\* Paying the plan that is returned leaves nobody in the ledger with a balance, and
\* takes fewer transfers than there were users with one (ledger.go 218-271).
THEOREM PlanSettles == Spec => []PlanSettlesLedger
<1>1. ChainInv /\ PlanInv => PlanSettlesLedger
  <2> SUFFICES ASSUME ChainInv, PlanInv, matching = "done"
               PROVE  /\ \A k \in Currencies, u \in Users :
                           Net(Ledger, u, k) = Plan!Received(u, Plan!Of(k, u))
                      /\ \A k \in Currencies :
                           Plan!InPlan(k) # {} =>
                             Plan!Cardinality(Plan!InPlan(k))
                               < Plan!Cardinality(Plan!Payers(k)) + Plan!Cardinality(Plan!Payees(k))
    BY DEF PlanSettlesLedger, Plan!FewTransfers
  <2>1. /\ ArithmeticInv /\ counting = "done" /\ Paying
        /\ balances = [k \in Currencies |-> At(k)]
    BY DEF ChainInv, PlanInv
  <2>2. \A k \in Currencies : Unsettled(net[k]) = {}
    BY <2>1 DEF Paying
  <2>3. ASSUME NEW k \in Currencies, NEW u \in Users
        PROVE  Net(Ledger, u, k) = Plan!Received(u, Plan!Of(k, u)) /\ balances[k][u] \in Int
    <3>1. net[k][u] = 0
      BY <2>2 DEF Unsettled
    <3>2. /\ balances[k][u] = net[k][u] + Got(transfers, k, u)
          /\ balances[k][u] = Of(values, <<u, k>>)
      BY <2>1 DEF Paying, At
    <3>3. Of(values, <<u, k>>) = Net(Ledger, u, k) /\ Of(values, <<u, k>>) \in Int
      BY <2>1, DoneMeans DEF Ledger
    <3>4. Got(transfers, k, u) \in Int
      <4>1. IsFiniteSet(Touching(transfers, k, u))
        BY <2>1, TouchingIs DEF Paying
      <4>2. \A i \in Touching(transfers, k, u) : Gain(transfers[i], u) \in Int
        BY <2>1, TouchingIs DEF Paying
      <4> DEFINE f == [i \in Touching(transfers, k, u) |-> Gain(transfers[i], u)]
      <4>3. \A i \in Touching(transfers, k, u) : f[i] \in Int
        BY <4>2
      <4>4. Got(transfers, k, u) = SumOver(f, Touching(transfers, k, u))
        BY DEF Got
      <4> HIDE DEF f
      <4> QED
        BY <4>1, <4>3, <4>4, SumInt
    <3> QED
      BY <3>1, <3>2, <3>3, <3>4, GotIs
  <2>4. ASSUME NEW k \in Currencies, Plan!InPlan(k) # {}
        PROVE  Plan!Cardinality(Plan!InPlan(k))
                 < Plan!Cardinality(Plan!Payers(k)) + Plan!Cardinality(Plan!Payees(k))
    <3>1. Plan!InPlan(k) = Paid(transfers, k)
      BY GotIs
    <3>2. Cardinality(Paid(transfers, k)) < Cardinality(Unsettled(balances[k]))
      BY <2>1, <2>2, <2>4, <3>1 DEF Paying
    <3>3. Cardinality(Plan!Payers(k)) + Cardinality(Plan!Payees(k))
            = Cardinality(Unsettled(balances[k]))
      BY <2>3, BothSides
    <3> QED
      BY <3>1, <3>2, <3>3, SameCount
  <2> QED
    BY <2>3, <2>4
<1> QED
  BY <1>1, ChainInvHolds, PlanInvHolds, PTL

\* What is handed over starts as what the ledger means.
LEMMA LedgerNets ==
  ASSUME ArithmeticInv, NEW u \in Users, NEW k \in Currencies
  PROVE  Net(Ledger, u, k) \in Int
<1>1. IsLedger(input) /\ Calculate!Operations = First(Len(input)) /\ Len(input) \in Nat
  BY DEF ArithmeticInv, CountInv, IsLedger, Calculate!Operations, First
<1>2. AreRows(Calculate!Operations)
  <2>1. Len(input) \in 0 .. Len(input)
    BY <1>1
  <2> QED
    BY <1>1, <2>1, FirstRows
<1>3. Ledger = LedgerFrom(Calculate!Operations)
  BY DEF Ledger, Calculate!Ledger, LedgerFrom, OfKind
<1> QED
  BY <1>2, <1>3, NetIs

LEMMA LedgerKept ==
  ASSUME [CreateExpense \/ PlanStep]_vars
  PROVE  Ledger' = Ledger
<1>1. input' = input
  BY DEF CreateExpense, PlanStep, Next, GetBalance, CallPlanSettlements, PlanSettlements, vars,
         planRequestVars, arithmeticVars, Calculate!ArithmeticNext, Calculate!CountOperation,
         Calculate!Counted, Calculate!Balanced, Calculate!AddToTotal
<1> QED
  BY <1>1 DEF Ledger, Calculate!Ledger, Calculate!Operations

\* From the ledger on, every change of what is owed is a payment from a user in debt
\* to a user who is owed, no larger than either: the planning implements Clearing.
THEOREM PlanClears == Spec => ImplementsClearing
<1>1. ChainInv => (matching = "wait" => Owed \in [Currencies -> [Users -> Int]])
  <2> SUFFICES ASSUME ChainInv, matching = "wait" PROVE Owed \in [Currencies -> [Users -> Int]]
    OBVIOUS
  <2>1. \A k \in Currencies, u \in Users : Net(Ledger, u, k) \in Int
    BY LedgerNets DEF ChainInv
  <2> QED
    BY <2>1 DEF Owed
<1>2. Start => matching = "wait"
  BY DEF Start, Init, Plan!PlanInit
<1>3. ChainInv /\ PlanInv /\ [CreateExpense \/ PlanStep]_vars => [Clear!Next]_Owed
  <2> SUFFICES ASSUME ChainInv, PlanInv, [CreateExpense \/ PlanStep]_vars
               PROVE  Clear!Next \/ Owed' = Owed
    OBVIOUS
  <2>1. Ledger' = Ledger
    BY LedgerKept
  <2>2. CASE UNCHANGED <<matching, net>>
    BY <2>1, <2>2 DEF Owed
  <2>3. CASE CallPlanSettlements
    <3>1. /\ matching = "wait" /\ matching' = "open" /\ counting = "done"
          /\ net' = [k \in Currencies |-> [u \in Users |-> Of(values, <<u, k>>)]]
      BY <2>3, SameNets DEF CallPlanSettlements, Plan!Call
    <3>2. \A k \in Currencies, u \in Users : Of(values, <<u, k>>) = Net(Ledger, u, k)
      BY <3>1, DoneMeans DEF ChainInv, Ledger
    <3>3. Owed = [k \in Currencies |-> [u \in Users |-> Net(Ledger, u, k)]] /\ Owed' = net'
      BY <3>1 DEF Owed
    <3> QED
      BY <3>1, <3>2, <3>3
  <2>4. CASE PlanSettlements
    <3>1. CASE Plan!Match
      <4>1. PICK from, to \in Users, amount \in Int : Turn(from, to, amount)
        BY <3>1, MatchTurns
      <4>2. /\ matching = "match" /\ matching' = "match"
            /\ currency \in Currencies /\ net \in [Currencies -> [Users -> Int]]
        <5>1. matching = "match" /\ matching' = "match"
          BY <3>1 DEF Plan!Match
        <5>2. Paying /\ net \in [Currencies -> [Users -> Int]]
          BY <5>1 DEF PlanInv
        <5> QED
          BY <5>1, <5>2 DEF Paying, Sides
      <4>3. Owed = net /\ Owed' = net'
        BY <4>2 DEF Owed
      <4>4. /\ from # to /\ amount > 0
            /\ amount <= -net[currency][from] /\ amount <= net[currency][to]
            /\ net' = [net EXCEPT ![currency] =
                         [@ EXCEPT ![from] = net[currency][from] + amount,
                                   ![to] = net[currency][to] - amount]]
        BY <4>1 DEF Turn
      <4>5. amount \in 1 .. net[currency][to]
        <5>1. net[currency][to] \in Int
          BY <4>2
        <5> QED
          BY <4>4, <5>1
      <4>6. net' = [net EXCEPT ![currency][from] = @ + amount, ![currency][to] = @ - amount]
        BY <4>2, <4>4
      <4>7. Clear!Pay(currency, from, to, amount)
        BY <4>3, <4>4, <4>6 DEF Clear!Pay
      <4> QED
        BY <4>2, <4>3, <4>5, <4>7 DEF Clear!Next
    <3>2. CASE Plan!Open \/ Plan!Refuse \/ Plan!Close \/ Plan!Return
      <4>1. matching # "wait" /\ matching' # "wait" /\ net' = net
        BY <3>2 DEF Plan!Open, Plan!Refuse, Plan!Close, Plan!Return
      <4> QED
        BY <4>1 DEF Owed
    <3> QED
      BY <2>4, <3>1, <3>2 DEF PlanSettlements, Plan!PlanNext
  <2> QED
    BY <2>2, <2>3, <2>4
       DEF CreateExpense, PlanStep, Next, GetBalance, vars, planRequestVars, planVars
<1>4. Start /\ ChainInv => Owed \in [Currencies -> [Users -> Int]]
  BY <1>1, <1>2
<1> QED
  BY <1>3, <1>4, ChainInvHolds, PlanInvHolds, PTL DEF Spec, ImplementsClearing, Clear!Spec

-----------------------------------------------------------------------------
(* Breakdowns add up *)

Columns == {"credit", "charge"}

\* What an operation shows a user in a column, and the entry for it.
InColumn(op, column, u) ==
  Of(IF column = "credit" THEN Calculate!Credited(op) ELSE Calculate!Charged(op), u)
EntryOf(op, column, u) == Calculate!Entry(<<op.kind, column>>, op, InColumn(op, column, u))
Shown(rows, u, k) ==
  {x \in rows \X Columns : x[1].currency = k /\ InColumn(x[1], x[2], u) # 0}

LEMMA EntriesAre ==
  ASSUME NEW u, NEW k
  PROVE  Calculate!InCurrency(Calculate!Breakdown(u), k)
           = {EntryOf(x[1], x[2], u) : x \in Shown(Calculate!Operations, u, k)}
<1> DEFINE rows == Calculate!Operations
           left1(op) == {Calculate!Entry(<<op.kind, "credit">>, op, Calculate!Credited(op)[v]) :
                           v \in (DOMAIN Calculate!Credited(op)) \cap {u}}
           right1(op) == {Calculate!Entry(<<op.kind, "charge">>, op, Calculate!Charged(op)[v]) :
                            v \in (DOMAIN Calculate!Charged(op)) \cap {u}}
<1>1. Calculate!Breakdown(u) = {e \in UNION {left1(op) \cup right1(op) : op \in rows} : e.amount # 0}
  BY DEF Calculate!Breakdown
<1>2. ASSUME NEW op \in rows
      PROVE  /\ \A e : e \in left1(op) <=> u \in DOMAIN Calculate!Credited(op) /\ e = EntryOf(op, "credit", u)
             /\ \A e : e \in right1(op) <=> u \in DOMAIN Calculate!Charged(op) /\ e = EntryOf(op, "charge", u)
  BY DEF EntryOf, InColumn, Of
<1>3. ASSUME NEW op, NEW column
      PROVE  EntryOf(op, column, u).amount = InColumn(op, column, u)
             /\ EntryOf(op, column, u).currency = op.currency
  BY DEF EntryOf, Calculate!Entry
<1>4. ASSUME NEW op \in rows
      PROVE  /\ u \notin DOMAIN Calculate!Credited(op) => InColumn(op, "credit", u) = 0
             /\ u \notin DOMAIN Calculate!Charged(op) => InColumn(op, "charge", u) = 0
  BY DEF InColumn, Of
<1> HIDE DEF left1, right1, rows
<1>5. ASSUME NEW e
      PROVE  e \in Calculate!Breakdown(u) <=>
               \E op \in rows, column \in Columns :
                 e = EntryOf(op, column, u) /\ InColumn(op, column, u) # 0
  BY <1>1, <1>2, <1>3, <1>4 DEF Columns
<1>6. ASSUME NEW e
      PROVE  e \in Calculate!InCurrency(Calculate!Breakdown(u), k) <=>
               \E x \in Shown(rows, u, k) : e = EntryOf(x[1], x[2], u)
  <2>1. e \in Calculate!InCurrency(Calculate!Breakdown(u), k) <=>
          e \in Calculate!Breakdown(u) /\ e.currency = k
    BY DEF Calculate!InCurrency
  <2>2. ASSUME NEW op \in rows, NEW column \in Columns,
               op.currency = k, InColumn(op, column, u) # 0
        PROVE  <<op, column>> \in Shown(rows, u, k)
               /\ <<op, column>>[1] = op /\ <<op, column>>[2] = column
    BY <2>2 DEF Shown
  <2>3. ASSUME NEW x \in Shown(rows, u, k)
        PROVE  /\ x[1] \in rows /\ x[2] \in Columns /\ x[1].currency = k
               /\ InColumn(x[1], x[2], u) # 0
    BY DEF Shown
  <2>4. ASSUME e \in Calculate!InCurrency(Calculate!Breakdown(u), k)
        PROVE  \E x \in Shown(rows, u, k) : e = EntryOf(x[1], x[2], u)
    <3>1. PICK op \in rows, column \in Columns :
            e = EntryOf(op, column, u) /\ InColumn(op, column, u) # 0
      BY <1>5, <2>1, <2>4
    <3>2. op.currency = k
      BY <1>3, <2>1, <2>4, <3>1
    <3> QED
      BY <2>2, <3>1, <3>2
  <2>5. ASSUME NEW x \in Shown(rows, u, k), e = EntryOf(x[1], x[2], u)
        PROVE  e \in Calculate!InCurrency(Calculate!Breakdown(u), k)
    <3>1. e \in Calculate!Breakdown(u)
      BY <1>5, <2>3, <2>5
    <3>2. e.currency = k
      BY <1>3, <2>3, <2>5
    <3> QED
      BY <2>1, <3>1, <3>2
  <2> QED
    BY <2>4, <2>5
<1> QED
  BY <1>6 DEF rows


LEMMA ShownSum ==
  ASSUME NEW rows, AreRows(rows), NEW u \in Users, NEW k
  PROVE  /\ IsFiniteSet(Shown(rows, u, k))
         /\ \A x \in Shown(rows, u, k) : InColumn(x[1], x[2], u) \in Int
         /\ SumOver([x \in Shown(rows, u, k) |-> InColumn(x[1], x[2], u)], Shown(rows, u, k))
              = NetOf(rows, u, k)
<1> DEFINE K == {op \in rows : op.currency = k}
           cells == K \X Columns
           f == [x \in cells |-> InColumn(x[1], x[2], u)]
           c == [op \in K |-> InColumn(op, "credit", u)]
           d == [op \in K |-> InColumn(op, "charge", u)]
           share == [op \in rows |-> Effect(op, u, k)]
           credits == {<<op, "credit">> : op \in K}
           S == Shown(rows, u, k)
<1>1. /\ IsFiniteSet(rows) /\ IsFiniteSet(K) /\ K \in SUBSET rows
      /\ \A op \in K : IsRow(op)
  BY FS_Subset DEF AreRows
<1>2. ASSUME NEW op \in K
      PROVE  /\ c[op] = InColumn(op, "credit", u) /\ c[op] \in Int
             /\ d[op] = InColumn(op, "charge", u) /\ d[op] \in Int
             /\ share[op] = c[op] + d[op] /\ share[op] \in Int
  <2>1. /\ InColumn(op, "credit", u) = Of(Calculate!Credited(op), u)
        /\ InColumn(op, "charge", u) = Of(Calculate!Charged(op), u)
    BY DEF InColumn
  <2>2. share[op] = Share(op, u)
    BY DEF Effect
  <2> QED
    BY <1>1, <2>1, <2>2, ChangesAreShares
<1>3. IsFiniteSet(cells)
  <2>1. IsFiniteSet({"credit"}) /\ Columns = {"credit"} \cup {"charge"}
    BY FS_Singleton DEF Columns
  <2>2. IsFiniteSet(Columns)
    BY <2>1, FS_AddElement
  <2> QED
    BY <1>1, <2>2, FS_Product
<1>4. /\ \A op \in K : <<op, "credit">> \in cells /\ <<op, "charge">> \in cells
      /\ \A op \in K : f[<<op, "credit">>] = c[op] /\ f[<<op, "charge">>] = d[op]
      /\ cells \ credits = {<<op, "charge">> : op \in K} /\ credits \in SUBSET cells
  BY DEF Columns
<1>5. \A x \in cells : f[x] = InColumn(x[1], x[2], u) /\ f[x] \in Int
  <2> TAKE x \in cells
  <2>1. x[1] \in K /\ (x[2] = "credit" \/ x[2] = "charge")
    BY DEF Columns
  <2> QED
    BY <1>2, <2>1
<1>6. S \in SUBSET cells /\ \A x \in cells \ S : f[x] = 0
  BY DEF Shown
<1>7. SumOver([x \in S |-> InColumn(x[1], x[2], u)], S) = SumOver(f, S) /\ IsFiniteSet(S)
  <2> DEFINE g == [x \in S |-> InColumn(x[1], x[2], u)]
  <2>1. IsFiniteSet(S)
    BY <1>3, <1>6, FS_Subset
  <2>2. \A x \in S : f[x] \in Int /\ f[x] = g[x]
    BY <1>5, <1>6
  <2> HIDE DEF f, g, S
  <2>3. SumOver(f, S) = SumOver(g, S)
    BY <2>1, <2>2, SumSame
  <2> QED
    BY <2>1, <2>3 DEF g
<1> HIDE DEF K, cells, f, c, d, credits, share, S
<1>8. SumOver(f, cells) = SumOver(f, S)
  BY <1>3, <1>5, <1>6, SumSupport
<1>9. SumOver(f, cells) = SumOver(f, credits) + SumOver(f, cells \ credits)
  BY <1>3, <1>4, <1>5, SumParts
<1>10. SumOver(f, credits) = SumOver(c, K)
  <2> DEFINE name == [op \in K |-> <<op, "credit">>]
  <2>1. /\ \A x, y \in K : name[x] = name[y] => x = y
        /\ \A op \in K : c[op] \in Int /\ f[name[op]] = c[op]
        /\ {name[op] : op \in K} = credits
    BY <1>2, <1>4 DEF credits
  <2> HIDE DEF name
  <2>2. SumOver(f, {name[op] : op \in K}) = SumOver(c, K)
    BY <1>1, <2>1, SumRenamed
  <2> QED
    BY <2>1, <2>2
<1>11. SumOver(f, cells \ credits) = SumOver(d, K)
  <2> DEFINE name == [op \in K |-> <<op, "charge">>]
  <2>1. /\ \A x, y \in K : name[x] = name[y] => x = y
        /\ \A op \in K : d[op] \in Int /\ f[name[op]] = d[op]
        /\ {name[op] : op \in K} = cells \ credits
    BY <1>2, <1>4
  <2> HIDE DEF name
  <2>2. SumOver(f, {name[op] : op \in K}) = SumOver(d, K)
    BY <1>1, <2>1, SumRenamed
  <2> QED
    BY <2>1, <2>2
<1>12. SumOver(share, K) = SumOver(c, K) + SumOver(d, K)
  BY <1>1, <1>2, SumPlus
<1>13. SumOver(share, rows) = SumOver(share, K)
  <2>1. \A op \in rows : share[op] \in Int
    BY EffectInt DEF share, AreRows
  <2>2. \A op \in rows \ K : share[op] = 0
    BY DEF share, K, Effect
  <2> QED
    BY <1>1, <2>1, <2>2, SumSupport
<1>14. NetOf(rows, u, k) = SumOver(share, rows)
  BY DEF NetOf, share
<1> QED
  BY <1>5, <1>6, <1>7, <1>8, <1>9, <1>10, <1>11, <1>12, <1>13, <1>14 DEF S

\* The entries shown to a user add up to the user's balance in every currency: none
\* is left out and none shown twice (ledger.go 158-216).
THEOREM BreakdownAddsUp == Spec => []BreakdownExplains
<1>1. ChainInv => BreakdownExplains
  <2> SUFFICES ASSUME ChainInv, counting = "done", NEW u \in Users, NEW k \in Currencies
               PROVE  Calculate!SumFunction([e \in Calculate!InCurrency(Calculate!Breakdown(u), k)
                                               |-> e.amount])
                        = Calculate!Of(values, <<u, k>>)
    BY DEF BreakdownExplains, Calculate!BreakdownExplains
  <2> DEFINE E == Calculate!InCurrency(Calculate!Breakdown(u), k)
             amounts == [e \in E |-> e.amount]
             rows == Calculate!Operations
             S == Shown(rows, u, k)
             f == [x \in S |-> InColumn(x[1], x[2], u)]
             name == [x \in S |-> EntryOf(x[1], x[2], u)]
  <2>1. ArithmeticInv /\ AreRows(rows) /\ IsLedger(input)
        /\ Of(values, <<u, k>>) = NetOf(rows, u, k)
    BY AllCounted DEF ChainInv, ArithmeticInv, CountInv
  <2>2. /\ IsFiniteSet(S) /\ \A x \in S : f[x] \in Int
        /\ SumOver(f, S) = NetOf(rows, u, k)
    BY <2>1, ShownSum
  <2>3. E = {name[x] : x \in S}
    BY EntriesAre
  <2>4. \A x \in S : name[x] \in E /\ amounts[name[x]] = f[x]
    <3> TAKE x \in S
    <3>1. name[x] \in E
      BY <2>3
    <3>2. name[x].amount = f[x]
      BY DEF EntryOf, Calculate!Entry
    <3> QED
      BY <3>1, <3>2
  <2>5. ASSUME NEW x \in S, NEW y \in S, name[x] = name[y]
        PROVE  x = y
    <3>1. /\ x[1] \in rows /\ x[2] \in Columns /\ x = <<x[1], x[2]>>
          /\ y[1] \in rows /\ y[2] \in Columns /\ y = <<y[1], y[2]>>
      BY DEF Shown
    <3>2. /\ <<x[1].kind, x[2]>> = <<y[1].kind, y[2]>> /\ x[1].id = y[1].id
      <4>1. EntryOf(x[1], x[2], u) = EntryOf(y[1], y[2], u)
        BY <2>5
      <4>2. \A op, column : /\ EntryOf(op, column, u).type = <<op.kind, column>>
                            /\ EntryOf(op, column, u).id = op.id
        BY DEF EntryOf, Calculate!Entry
      <4> QED
        BY <4>1, <4>2
    <3>3. x[1] = y[1]
      <4>1. PICK i, j \in DOMAIN input : x[1] = input[i] /\ y[1] = input[j]
        BY <3>1 DEF Calculate!Operations
      <4>2. input[i].kind = input[j].kind /\ input[i].id = input[j].id
        BY <3>2, <4>1
      <4>3. i = j
        BY <2>1, <4>2 DEF IsLedger
      <4> QED
        BY <4>1, <4>3
    <3> QED
      BY <3>1, <3>2, <3>3
  <2>6. Calculate!SumFunction(amounts) = SumOver(amounts, E)
    <3>1. DOMAIN amounts = E
      OBVIOUS
    <3> HIDE DEF amounts, E
    <3> QED
      BY <3>1, SameSums
  <2> HIDE DEF amounts, E, name, f, S
  <2>7. SumOver(amounts, {name[x] : x \in S}) = SumOver(f, S)
    BY <2>2, <2>4, <2>5, SumRenamed
  <2> QED
    BY <2>1, <2>2, <2>3, <2>6, <2>7, SameNets DEF amounts, E
<1> QED
  BY <1>1, ChainInvHolds, PTL

-----------------------------------------------------------------------------
(* Requests divide fairly, in whatever order *)

\* The request is answered once, by what it is divided into.
AnswerInv ==
  /\ request \in Requests
  /\ answer = Divide!Refused \/ answer = Divide!Prepare(request)

LEMMA AnswerInvHolds == Spec => []AnswerInv
<1>1. Start => AnswerInv
  BY DEF Start, Divide!SplitInit, AnswerInv
<1>2. AnswerInv /\ [CreateExpense \/ PlanStep]_vars => AnswerInv'
  BY DEF AnswerInv, CreateExpense, PlanStep, Divide!Answer, vars
<1> QED
  BY <1>1, <1>2, PTL DEF Spec

\* An accepted request is divided to the last minor unit among the members it
\* names, no part is negative, and no part is off by more than one minor unit from
\* the exact share, whatever the weights (split.go 21-151; the code checks neither).
THEOREM RequestsDivideFairly == Spec => []DividesFairly
<1>1. AnswerInv => DividesFairly
  <2> SUFFICES ASSUME AnswerInv, answer # Divide!Refused PROVE DividesFairly
    BY DEF DividesFairly, Divide!DividesWhole, Divide!Fair, Divide!Answered
  <2>1. /\ answer = Divide!Prepare(request)
        /\ Divide!IsRequest(request) /\ Divide!Prepare(request) # Divide!Refused
    BY RequestsAssumption DEF AnswerInv
  <2>2. /\ Divide!Named(request) \subseteq Users
        /\ Complete(answer, request) /\ IsFair(answer, request)
    BY <2>1, PrepareDivides
  <2>3. Divide!DividesWhole
    <3>1. \A i \in DOMAIN answer : \A u \in DOMAIN answer[i] : answer[i][u] >= 0
      BY <2>2 DEF Complete
    <3> QED
      BY <2>2, <3>1 DEF Divide!DividesWhole, Complete
  <2>4. Divide!Fair
    <3>1. CASE request.type = "equal"
      <4>1. \A u, v \in DOMAIN answer[1] : answer[1][u] - answer[1][v] =< 1
        BY <2>2, <3>1 DEF IsFair
      <4> QED
        BY <3>1, <4>1 DEF Divide!Fair
    <3>2. CASE request.type = "item"
      <4>1. \A i \in DOMAIN answer : \A u, v \in DOMAIN answer[i] : answer[i][u] - answer[i][v] =< 1
        BY <2>2, <3>2 DEF IsFair
      <4> QED
        BY <3>2, <4>1 DEF Divide!Fair
    <3>3. CASE request.type \in {"shares", "percentage"}
      <4> DEFINE shares == request.participants
                 total == Divide!SumFunction(Divide!ValueOf(shares))
      <4>1. shares \in Entries
        BY <2>1, <3>3 DEF Divide!IsRequest, Entries
      <4>2. total = SumOver(Divide!ValueOf(shares), DOMAIN shares)
        BY <4>1, SameSums, EntryIs
      <4>3. \A e \in Divide!Range(shares) :
              /\ -total < answer[1][e.user] * total - request.amount * e.value
              /\ answer[1][e.user] * total - request.amount * e.value =< total
        <5>1. Divide!Range(shares) = {shares[i] : i \in DOMAIN shares}
          BY DEF Divide!Range
        <5>2. Near(answer[1], shares, request.amount)
          BY <2>2, <3>3 DEF IsFair
        <5> HIDE DEF shares
        <5> QED
          BY <4>2, <5>1, <5>2 DEF Near
      <4> QED
        BY <3>3, <4>3 DEF Divide!Fair
    <3>4. CASE request.type = "fixed"
      BY <3>4 DEF Divide!Fair
    <3>5. request.type \in {"equal", "fixed", "shares", "percentage", "item"}
      BY <2>1 DEF Divide!IsRequest
    <3> QED
      BY <3>1, <3>2, <3>3, <3>4, <3>5
  <2> QED
    BY <2>3, <2>4 DEF DividesFairly
<1> QED
  BY <1>1, AnswerInvHolds, PTL

\* more lists the entries in the order p.
IsReordered(more, entries, p) ==
  /\ entries \in Entries /\ more = [i \in DOMAIN entries |-> entries[p[i]]]
  /\ \A i \in DOMAIN entries : p[i] \in DOMAIN entries
  /\ \A i, j \in DOMAIN entries : p[i] = p[j] => i = j
  /\ \A j \in DOMAIN entries : \E i \in DOMAIN entries : p[i] = j

LEMMA Reordered ==
  ASSUME NEW more, NEW entries, NEW p, IsReordered(more, entries, p),
         Divide!ValidUniqueIDs(Divide!UserOf(entries))
  PROVE  /\ more \in Entries /\ DOMAIN more = DOMAIN entries
         /\ Divide!ValidUniqueIDs(Divide!UserOf(more))
         /\ Range(Divide!UserOf(more)) = Range(Divide!UserOf(entries))
         /\ Divide!SumFunction(Divide!ValueOf(more)) = Divide!SumFunction(Divide!ValueOf(entries))
         /\ Divide!ByUser(more) = Divide!ByUser(entries)
<1> DEFINE D == DOMAIN entries
           name == Divide!UserOf(entries)
           S == Range(name)
<1>1. /\ entries \in Entries /\ more = [i \in D |-> entries[p[i]]]
      /\ \A i \in D : p[i] \in D
      /\ \A i, j \in D : p[i] = p[j] => i = j
      /\ \A j \in D : \E i \in D : p[i] = j
  BY DEF IsReordered
<1>2. /\ D = 1 .. Len(entries) /\ Len(entries) \in Nat
      /\ \A i \in D : entries[i].user \in Int /\ entries[i].value \in Int
  BY <1>1, EntryIs
<1>3. more \in Entries /\ DOMAIN more = D /\ \A i \in D : more[i] = entries[p[i]]
  <2> DEFINE T == [user : Int, value : Int]
  <2>1. entries \in Seq(T)
    BY <1>1 DEF Entries
  <2> HIDE DEF T
  <2>2. \A i \in D : entries[i] \in T
    BY <2>1
  <2>3. more \in Seq(T)
    BY <1>1, <1>2, <2>2
  <2> QED
    BY <1>1, <2>3 DEF Entries, T
<1>4. /\ DOMAIN name = D /\ DOMAIN Divide!UserOf(more) = D
      /\ \A i \in D : name[i] = entries[i].user /\ Divide!UserOf(more)[i] = entries[p[i]].user
                      /\ Divide!ValueOf(entries)[i] = entries[i].value
                      /\ Divide!ValueOf(more)[i] = entries[p[i]].value
  BY <1>3 DEF Divide!UserOf, Divide!ValueOf
<1> HIDE DEF D, name
<1>5. Divide!ValidUniqueIDs(Divide!UserOf(more))
  <2>1. /\ name # <<>> /\ \A i \in D : name[i] > 0
        /\ \A i, j \in D : name[i] = name[j] => i = j
    BY <1>4 DEF Divide!ValidUniqueIDs, Divide!IsInjective, name
  <2>5. \A i \in D : Divide!UserOf(more)[i] = name[p[i]] /\ p[i] \in D
    BY <1>1, <1>4
  <2>2. \A i \in D : Divide!UserOf(more)[i] > 0
    BY <2>1, <2>5
  <2>3. \A i, j \in D : Divide!UserOf(more)[i] = Divide!UserOf(more)[j] => i = j
    <3> TAKE i, j \in D
    <3>1. HAVE Divide!UserOf(more)[i] = Divide!UserOf(more)[j]
    <3>2. p[i] \in D /\ p[j] \in D /\ name[p[i]] = name[p[j]]
      BY <2>5, <3>1
    <3> QED
      BY <1>1, <2>1, <3>2
  <2>4. Divide!UserOf(more) # <<>>
    <3>1. name \in Seq(Int) /\ Divide!UserOf(more) \in Seq(Int)
      BY <1>1, <1>3, EntryIs DEF name
    <3>2. D # {}
      BY <1>4, <2>1, <3>1
    <3> QED
      BY <1>4, <3>1, <3>2
  <2> QED
    BY <1>4, <2>2, <2>3, <2>4 DEF Divide!ValidUniqueIDs, Divide!IsInjective
<1>6. Range(Divide!UserOf(more)) = S
  <2>1. Range(Divide!UserOf(more)) = {entries[p[i]].user : i \in D}
    BY <1>4 DEF Range
  <2>2. S = {entries[i].user : i \in D}
    BY <1>4 DEF Range
  <2>3. S \subseteq Range(Divide!UserOf(more))
    <3> SUFFICES ASSUME NEW j \in D PROVE entries[j].user \in Range(Divide!UserOf(more))
      BY <2>2
    <3>1. PICK i \in D : p[i] = j
      BY <1>1
    <3> QED
      BY <2>1, <3>1
  <2>4. Range(Divide!UserOf(more)) \subseteq S
    <3> SUFFICES ASSUME NEW i \in D PROVE entries[p[i]].user \in S
      BY <2>1
    <3>1. p[i] \in D
      BY <1>1
    <3> QED
      BY <2>2, <3>1
  <2> QED
    BY <2>3, <2>4
<1>7. Divide!SumFunction(Divide!ValueOf(more)) = Divide!SumFunction(Divide!ValueOf(entries))
  <2> DEFINE f == Divide!ValueOf(more)
             g == Divide!ValueOf(entries)
  <2>1. IsFiniteSet(D) /\ DOMAIN f = D /\ DOMAIN g = D
    <3>1. IsFiniteSet(D)
      BY <1>2, FS_Interval
    <3> QED
      BY <1>1, <1>3, <3>1, EntryIs DEF D
  <2>2. Divide!SumFunction(f) = SumOver(f, D) /\ Divide!SumFunction(g) = SumOver(g, D)
    BY <2>1, SameSums
  <2>3. \A i \in D : f[i] \in Int /\ g[p[i]] = f[i]
    BY <1>1, <1>2, <1>4
  <2> HIDE DEF f, g
  <2>4. SumOver(g, {p[i] : i \in D}) = SumOver(f, D)
    BY <1>1, <2>1, <2>3, SumRenamed
  <2>5. {p[i] : i \in D} = D
    BY <1>1
  <2> QED
    BY <2>2, <2>4, <2>5 DEF f, g
<1>8. Divide!ByUser(more) = Divide!ByUser(entries)
  <2>1. /\ DOMAIN Divide!ByUser(entries) = S /\ DOMAIN Divide!ByUser(more) = S
        /\ \A i \in D : Divide!ByUser(entries)[entries[i].user] = entries[i].value
        /\ \A i \in D : Divide!ByUser(more)[more[i].user] = more[i].value
        /\ \A u \in S : \E i \in D : u = more[i].user
    BY <1>1, <1>3, <1>5, <1>6, ByUserIs DEF D, name
  <2>2. ASSUME NEW u \in S PROVE Divide!ByUser(more)[u] = Divide!ByUser(entries)[u]
    <3>1. PICK i \in D : u = more[i].user
      BY <2>1
    <3>2. Divide!ByUser(more)[u] = entries[p[i]].value
      BY <1>3, <2>1, <3>1
    <3>3. p[i] \in D /\ u = entries[p[i]].user
      BY <1>1, <1>3, <3>1
    <3>4. Divide!ByUser(entries)[u] = entries[p[i]].value
      BY <2>1, <3>3
    <3> QED
      BY <3>2, <3>4
  <2>3. Divide!ByUser(entries) = [u \in S |-> Divide!ByUser(entries)[u]]
    BY SameNames DEF Divide!ByUser, name
  <2>4. Divide!ByUser(more) = [u \in S |-> Divide!ByUser(more)[u]]
    BY <1>6, SameNames DEF Divide!ByUser
  <2> HIDE DEF S
  <2> QED
    BY <2>2, <2>3, <2>4
<1> QED
  BY <1>3, <1>5, <1>6, <1>7, <1>8 DEF D, name

LEMMA SameDivision ==
  ASSUME NEW r, Divide!IsRequest(r), Divide!Prepare(r) # Divide!Refused, r.type # "item",
         NEW p, NEW other, other = [r EXCEPT !.participants = [i \in DOMAIN @ |-> @[p[i]]]],
         IsReordered(other.participants, r.participants, p)
  PROVE  Divide!Prepare(other) = Divide!Prepare(r)
<1> DEFINE entries == r.participants
           more == other.participants
           ids == Divide!UserOf(entries)
           ids2 == Divide!UserOf(more)
<1>1. other.type = r.type /\ other.amount = r.amount
  BY DEF Divide!IsRequest
<1>2. r.type \in {"equal", "fixed", "shares", "percentage"}
  BY DEF Divide!IsRequest
<1>3. Divide!ValidUniqueIDs(ids)
  <2>1. CASE r.type = "equal"
    BY <2>1 DEF Divide!Prepare, Divide!Equal
  <2>2. CASE r.type = "fixed"
    BY <2>2 DEF Divide!Prepare, Divide!Fixed
  <2>3. CASE r.type = "shares"
    BY <2>3 DEF Divide!Prepare, Divide!Shares
  <2>4. CASE r.type = "percentage"
    BY <2>4 DEF Divide!Prepare, Divide!Percentage, Divide!Shares
  <2> QED
    BY <1>2, <2>1, <2>2, <2>3, <2>4
<1>4. entries \in Entries /\ DOMAIN entries = 1 .. Len(entries)
  <2>1. entries \in Entries
    BY DEF IsReordered
  <2> QED
    BY <2>1, EntryIs
<1>5. /\ Divide!ValidUniqueIDs(ids2) /\ Divide!Range(ids2) = Divide!Range(ids)
      /\ DOMAIN more = DOMAIN entries
      /\ Divide!SumFunction(Divide!ValueOf(more)) = Divide!SumFunction(Divide!ValueOf(entries))
      /\ Divide!ByUser(more) = Divide!ByUser(entries)
  BY <1>3, Reordered, SameNames
<1>6. \A i \in DOMAIN entries : \E j \in DOMAIN entries : more[i] = entries[j]
  <2>1. /\ more = [i \in DOMAIN entries |-> entries[p[i]]]
        /\ \A i \in DOMAIN entries : p[i] \in DOMAIN entries
    BY DEF IsReordered
  <2> HIDE DEF more, entries
  <2> QED
    BY <2>1
<1>7. Divide!Named(other) = Divide!Named(r) /\ Divide!Named(r) \subseteq Users
  <2>1. Divide!Named(other) = Divide!Range(ids2) /\ Divide!Named(r) = Divide!Range(ids)
    BY <1>1 DEF Divide!Named
  <2>2. Divide!Named(r) \subseteq Users
    BY DEF Divide!Prepare
  <2> QED
    BY <1>5, <2>1, <2>2
<1>8. CASE r.type = "equal"
  <2>1. /\ Divide!Prepare(r) = Divide!Equal(r.amount, ids)
        /\ Divide!Prepare(other) = Divide!Equal(r.amount, ids2)
    BY <1>1, <1>7, <1>8 DEF Divide!Prepare
  <2>2. Divide!Equal(r.amount, ids2) = Divide!Equal(r.amount, ids)
    BY <1>3, <1>5 DEF Divide!Equal
  <2> QED
    BY <2>1, <2>2
<1>9. CASE r.type = "fixed"
  <2>1. /\ Divide!Prepare(r) = Divide!Fixed(r.amount, entries)
        /\ Divide!Prepare(other) = Divide!Fixed(r.amount, more)
    BY <1>1, <1>7, <1>9 DEF Divide!Prepare
  <2>2. \A i \in DOMAIN entries : ~(entries[i].value < 0)
    BY <2>1 DEF Divide!Fixed
  <2>3. \A i \in DOMAIN more : ~(more[i].value < 0)
    BY <1>5, <1>6, <2>2
  <2>4. Divide!Fixed(r.amount, more) = Divide!Fixed(r.amount, entries)
    <3> HIDE DEF more, entries
    <3> QED
      BY <1>3, <1>5, <2>2, <2>3 DEF Divide!Fixed, ids, ids2
  <2> QED
    BY <2>1, <2>4
<1>10. CASE r.type = "shares" \/ r.type = "percentage"
  <2>1. Divide!Prepare(r) = Divide!Shares(r.amount, entries)
    BY <1>1, <1>7, <1>10 DEF Divide!Prepare, Divide!Percentage
  <2>2. \A i \in DOMAIN entries : ~(entries[i].value =< 0)
    BY <2>1 DEF Divide!Shares
  <2>3. \A i \in DOMAIN more : ~(more[i].value =< 0)
    BY <1>5, <1>6, <2>2
  <2>4. Divide!Prepare(other) = Divide!Shares(r.amount, more)
    <3>1. CASE r.type = "shares"
      BY <1>1, <1>7, <3>1 DEF Divide!Prepare
    <3>2. CASE r.type = "percentage"
      <4>1. /\ Divide!Prepare(other) = Divide!Percentage(r.amount, more)
            /\ Divide!Prepare(r) = Divide!Percentage(r.amount, entries)
        BY <1>1, <1>7, <3>2 DEF Divide!Prepare
      <4>2. Divide!SumFunction(Divide!ValueOf(entries)) = Whole
        BY <4>1 DEF Divide!Percentage
      <4> QED
        BY <1>5, <2>3, <4>1, <4>2 DEF Divide!Percentage
    <3> QED
      BY <1>10, <3>1, <3>2
  <2>5. Divide!Shares(r.amount, more) = Divide!Shares(r.amount, entries)
    <3> HIDE DEF more, entries
    <3> QED
      BY <1>3, <1>5, <2>2, <2>3 DEF Divide!Shares, Divide!HandOut, ids, ids2
  <2> QED
    BY <2>1, <2>4, <2>5
<1> QED
  BY <1>2, <1>8, <1>9, <1>10

\* However a client orders the participants of a request, everybody pays the same:
\* the remainder is handed out by user id (split.go 101-104).
THEOREM OrderChangesNothing == Spec => []OrderFree
<1>1. AnswerInv => OrderFree
  <2> SUFFICES ASSUME AnswerInv, answer # Divide!Refused, request.type # "item",
                      NEW p \in Divide!Bijection(DOMAIN request.participants,
                                                 DOMAIN request.participants)
               PROVE  Divide!Prepare([request EXCEPT !.participants =
                                        [i \in DOMAIN @ |-> @[p[i]]]]) = answer
    BY DEF OrderFree, Divide!OrderFree, Divide!Answered
  <2>1. /\ answer = Divide!Prepare(request)
        /\ Divide!IsRequest(request) /\ Divide!Prepare(request) # Divide!Refused
    BY RequestsAssumption DEF AnswerInv
  <2>2. PICK other : other = [request EXCEPT !.participants = [i \in DOMAIN @ |-> @[p[i]]]]
    OBVIOUS
  <2>3. IsReordered(other.participants, request.participants, p)
    <3>1. request.participants \in Entries
      BY <2>1 DEF Divide!IsRequest, Entries
    <3>2. other.participants = [i \in DOMAIN request.participants |-> request.participants[p[i]]]
      BY <2>1, <2>2 DEF Divide!IsRequest
    <3> QED
      BY <3>1, <3>2
         DEF IsReordered, Divide!Bijection, Divide!Injection, Divide!Surjection, Divide!IsInjective
  <2> QED
    BY <2>1, <2>2, <2>3, SameDivision
<1> QED
  BY <1>1, AnswerInvHolds, PTL
====
