----------------------------- MODULE MCRateLimit -----------------------------
(* Small instances of RateLimit.  A minute of two seconds in an hour of    *)
(* four keeps both kinds of boundary (minute, hour) inside the horizon.    *)
EXTENDS RateLimit, TLC

CONSTANTS corp

MCLen == [w \in Window |-> IF w = "m1" THEN 2 ELSE 4]
MCGrace == [w \in Window |-> 2]
MCDomainOf == [s \in Sender |-> corp]

(* A sender with both windows set, one whose hour is unlimited and one     *)
(* whose limits were raised between two of its messages.                   *)
Limits(m1, h1, dom) ==
  [email |-> [w \in EmailWindow |-> IF w = "m1" THEN m1 ELSE h1],
   domain |-> [w \in DomainWindow |-> dom]]
MCProfiles == {Limits(2, 4, 0), Limits(4, 0, 5)}

ConnSymmetry == Permutations(Conn)
=============================================================================
