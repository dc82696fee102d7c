------------------------------ MODULE Allowlist ------------------------------
(***************************************************************************)
(* Which peers policyd talks to: ip.ts.  A 32-bit integer is the set of    *)
(* its one bits, so `&' is the intersection; the width is a parameter, as  *)
(* is what `<<' takes its shift modulo.                                    *)
(*                                                                         *)
(* A peer is its text and what ipv4ToInt() makes of it, unless that is     *)
(* null (v4 FALSE).  A rule of POLICY_ALLOW_CIDRS has that for the part    *)
(* before the slash, and what Number() makes of the part after it.         *)
(***************************************************************************)
EXTENDS Integers

CONSTANTS
  Width,      \* bits of an address: 32
  Names,      \* texts: addresses and rules as they are written
  NoSlash,    \* a rule without a prefix length
  NaN         \* a prefix length that is not an integer

ASSUME AllowlistAssumption ==
  /\ Width \in Nat \ {0}
  /\ NoSlash \notin Int /\ NaN \notin Int /\ NoSlash # NaN

Bit == 0..Width - 1
Peer == [text: Names, v4: BOOLEAN, addr: SUBSET Bit]
Rule == [text: Names, v4: BOOLEAN, addr: SUBSET Bit, bits: Int \cup {NoSlash, NaN}]

(* n << k: JavaScript takes k modulo the width.                            *)
ShiftLeft(n, k) == {i + (k % Width) : i \in n} \cap Bit

(* Mutant: the shift by the width is not special.                          *)
MaskShifted(bits) == ShiftLeft(Bit, Width - bits)

Mask(bits) == IF bits = 0 THEN {} ELSE ShiftLeft(Bit, Width - bits)

(* Mutant: no check of the prefix length.                                  *)
AnyLength(bits) == bits \in Int

ValidLength(bits) == bits \in 0..Width

Bits(rule) == IF rule.bits = NoSlash THEN Width ELSE rule.bits

Matches(rule, peer) ==
  \/ rule.text = peer.text
  \/ /\ peer.v4 /\ rule.v4
     /\ ValidLength(Bits(rule))
     /\ peer.addr \cap Mask(Bits(rule)) = rule.addr \cap Mask(Bits(rule))

(* ipAllowed(): no rules at all let everybody in.                          *)
Allowed(peer, rules) == rules = {} \/ \E rule \in rules : Matches(rule, peer)

-----------------------------------------------------------------------------
(* What an operator means by a list of addresses and networks: the peer is *)
(* written there, or its address has the leading bits of a network.        *)
SamePrefix(a, b, bits) == \A i \in Bit : i >= Width - bits => (i \in a <=> i \in b)

Listed(peer, rules) ==
  \/ rules = {}
  \/ \E rule \in rules :
       \/ rule.text = peer.text
       \/ /\ peer.v4 /\ rule.v4
          /\ Bits(rule) \in 0..Width
          /\ SamePrefix(peer.addr, rule.addr, Bits(rule))
=============================================================================
