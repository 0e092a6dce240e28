---------------------------- MODULE MCUpdateInbox ----------------------------
(* A small instance of UpdateInbox for TLC. *)
EXTENDS UpdateInbox

\* The bot is added to a chat and removed from it, and a button is pressed.
ThreeUpdates ==
  {[type |-> "chat", chat |-> 1, status |-> "active", at |-> 1],
   [type |-> "chat", chat |-> 1, status |-> "removed", at |-> 2],
   [type |-> "confirm", settlement |-> 1]}

===============================================================================
