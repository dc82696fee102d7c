-------------------------- MODULE FixedWindowQuota --------------------------
(***************************************************************************)
(* What the quota check of ratelimit-policyd promises, without a clock, a  *)
(* TTL or a Redis: there is one tally per counter key (scope, identity,    *)
(* window, bucket); a message is charged to every tally it names, at once, *)
(* and only if none of them would pass the limit the message was checked   *)
(* against.  The one way a tally goes down is that the store loses it.     *)
(***************************************************************************)
EXTENDS Naturals

CONSTANTS
  Key,     \* counter keys
  Charge   \* what a message asks for: [inc: Nat, limit: [keys -> Nat]]

VARIABLE tally   \* tally[k]: what was charged to k since k was last lost

Init == tally = [k \in Key |-> 0]

(* All the windows of one message or none.                                 *)
Admit(ch) ==
  /\ \A k \in DOMAIN ch.limit : tally[k] + ch.inc <= ch.limit[k]
  /\ tally' = [k \in Key |-> IF k \in DOMAIN ch.limit THEN tally[k] + ch.inc
                                                      ELSE tally[k]]

(* The store evicts the counter or fails over without it.                  *)
Lose(k) == tally' = [tally EXCEPT ![k] = 0]

Next ==
  \/ \E ch \in Charge : Admit(ch)
  \/ \E k \in Key : Lose(k)

Spec == Init /\ [][Next]_tally
=============================================================================
