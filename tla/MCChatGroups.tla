----------------------------- MODULE MCChatGroups -----------------------------
(* Small instances of ChatGroups for TLC: one workload of group management    *)
(* alone, one of racing bindings, one of synchronisations.                    *)
EXTENDS ChatGroups, TLC

CONSTANTS g1, h1   \* of Groups and Chats

In(s) == [h \in Chats |-> IF h = h1 THEN s ELSE {}]

Management ==
  [users |-> Users, groups |-> {g1}, calls |-> {"join", "add", "role", "archive"},
   named |-> Users, chats |-> {}, people |-> {In({})}, requests |-> {}, changes |-> 0]

Bindings(u) ==
  [users |-> Users \ {u}, groups |-> Groups, calls |-> {"join"},
   named |-> {}, chats |-> Chats, people |-> {In({})},
   requests |-> {"bind", "unbind"}, changes |-> 1]

Synchronisations(u, v) ==
  [users |-> {u, v}, groups |-> {g1}, calls |-> {"archive"},
   named |-> {v}, chats |-> {h1}, people |-> {In(Users), In(Users \ {u})},
   requests |-> {"bind", "unbind", "sync"}, changes |-> 2]

\* One of each kind, up to the names of users.
MCWorkloads ==
  {Management} \cup {Bindings(u) : u \in Users}
    \cup UNION {{Synchronisations(u, v) : v \in Users \ {u}} : u \in Users}

\* Users and callers are interchangeable; the owner is whoever creates the group.
Symmetry == Permutations(Users) \cup Permutations(GroupClients)

===============================================================================
