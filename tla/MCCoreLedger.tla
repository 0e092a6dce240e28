----------------------------- MODULE MCCoreLedger -----------------------------
(* Small instances of CoreLedger for TLC. *)
EXTENDS CoreLedger, TLC

Symmetry == Permutations(Users) \cup Permutations(GroupClients)
              \cup Permutations(Clients) \cup Permutations(Readers)
              \cup Permutations(Groups) \cup Permutations(Currencies)

===============================================================================
