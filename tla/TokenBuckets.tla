----------------------------- MODULE TokenBuckets -----------------------------
(***************************************************************************)
(* What a rate limiter promises: every key has a bucket of its own, which  *)
(* starts full, loses a token for each request that is let through and     *)
(* fills up again at a steady rate.  A request may be refused for any      *)
(* reason, but none gets through without a token.  RateLimiter, which      *)
(* remembers only a few buckets, is shown to implement this specification. *)
(*                                                                         *)
(* A level is counted in units of which a token has Token and every tick   *)
(* of the clock adds Refill.                                               *)
(***************************************************************************)
EXTENDS Naturals

CONSTANTS Keys, Capacity, Token, Refill

VARIABLE level   \* level[k]: what the bucket of k holds now

Filled(amount) == IF amount < Capacity THEN amount ELSE Capacity

Pass   == level' = [k \in Keys |-> Filled(level[k] + Refill)]
Let(k) == level[k] >= Token /\ level' = [level EXCEPT ![k] = @ - Token]

Spec == level = [k \in Keys |-> Capacity] /\ [][Pass \/ \E k \in Keys : Let(k)]_level
===============================================================================
