----------------------------- MODULE MCPolicyTcp -----------------------------
(* Five requests on what may be one connection; the third is too big for   *)
(* MaxUnits = 5.  Addresses of three bits; bit 2 leads.                    *)
EXTENDS PolicyTcp, TLC

CONSTANTS p4, p6, net, short, long, all, same, word

MCLines == <<2, 1, 3, 2, 1>>

V4(text, addr) == [text |-> text, v4 |-> TRUE, addr |-> addr]
V6(text) == [text |-> text, v4 |-> FALSE, addr |-> {}]

MCPeers == {V4(p4, {2, 0}), V6(p6)}

(* A peer itself, and one written otherwise; prefixes around the bounds; one   *)
(* that is too long, one that is unreadable; another network.              *)
MCRules ==
  {V6(p6) @@ [bits |-> NoSlash],
   V4(net, {2, 1}) @@ [bits |-> 1],
   V4(short, {2, 1}) @@ [bits |-> 2],
   V4(all, {1}) @@ [bits |-> 0],
   V4(long, {2}) @@ [bits |-> 5],
   V4(same, {2, 0}) @@ [bits |-> NoSlash],
   V4(word, {2, 0}) @@ [bits |-> NaN]}

MCRuleSets == {{r} : r \in MCRules} \cup {{}, {r \in MCRules : r.text \in {short, p6}}}
=============================================================================
