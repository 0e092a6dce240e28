------------------------------- MODULE Clearing -------------------------------
(***************************************************************************)
(* What a settlement plan promises, whatever its order: payments go from a *)
(* user in debt to a user who is owed, and no payment overshoots either of *)
(* them.  SettlementPlan is shown to implement this specification.         *)
(***************************************************************************)
EXTENDS Integers

CONSTANTS Users, Currencies

VARIABLE net   \* net[k][u]: what u is owed (or, if negative, owes) in k

Pay(k, from, to, amount) ==
  /\ amount =< -net[k][from]
  /\ amount =< net[k][to]
  /\ net' = [net EXCEPT ![k][from] = @ + amount, ![k][to] = @ - amount]

\* Payments can be any positive amount up to the smaller of the two sides.
Next ==
  \E k \in Currencies, from, to \in Users :
    \E amount \in 1 .. net[k][to] : Pay(k, from, to, amount)

Spec == net \in [Currencies -> [Users -> Int]] /\ [][Next]_net
===============================================================================
