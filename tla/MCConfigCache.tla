---------------------------- MODULE MCConfigCache ----------------------------
(* Three tiers of the seed and room for one more.  The domain has the      *)
(* third, and a sender in warm-up; or it has no row, and a sender that may *)
(* graduate.                                                               *)
EXTENDS ConfigCache

T(name, n) == [name |-> name, perMin |-> n, perHour |-> n, maxRcptMsg |-> n]
S(ripe) == [tierId |-> Null, status |-> "warmup", ripe |-> ripe, perMin |-> 1, perHour |-> Null]

MCTiers == <<T("warmup", 1), T("default", 2), T("vip", 3)>>
MCFirstRows ==
  {<<[tierId |-> 3, enabled |-> TRUE, perHour |-> 1], S(FALSE)>>, <<NoRow, S(TRUE)>>}

MCTierEdits == {T("gold", 1)}
MCDomainEdits == {[enabled |-> FALSE]}
MCSenderEdits == {[tierId |-> 3, perHour |-> 0]}
=============================================================================
