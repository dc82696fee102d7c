--------------------------- MODULE PolicyTcpProofs ---------------------------
(***************************************************************************)
(* Proofs about ip.ts, for addresses of any width, and about the policy    *)
(* server: whom it answers, what it decides on, how much it keeps of what  *)
(* has not ended, and which request a reply is read as the answer to.      *)
(***************************************************************************)
EXTENDS PolicyTcp, FiniteSetTheorems, SequenceTheorems, TLAPS

(* A shift by less than the width moves the ones up and fills with zeros.  *)
LEMMA MaskLemma ==
  ASSUME NEW bits \in 0..Width
  PROVE  Mask(bits) = {i \in Bit : i >= Width - bits}
<1>1. Width \in Nat \ {0}
  BY AllowlistAssumption
<1>2. CASE bits = 0
  BY <1>1, <1>2 DEF Mask, Bit
<1>3. CASE bits # 0
  <2> DEFINE k == Width - bits
  <2>1. k \in 0..Width - 1
    BY <1>1, <1>3
  <2>2. k % Width = k
    BY <1>1, <2>1
  <2>3. Mask(bits) = {i + k : i \in Bit} \cap Bit
    BY <1>3, <2>2 DEF Mask, ShiftLeft
  <2> HIDE DEF k
  <2>4. ASSUME NEW i \in Bit PROVE i + k >= k
    BY <2>1, <2>4 DEF Bit
  <2>5. ASSUME NEW j \in Bit, j >= k PROVE \E i \in Bit : j = i + k
    <3>1. j - k \in Bit /\ j = (j - k) + k
      BY <1>1, <2>1, <2>5 DEF Bit
    <3> QED
      BY <3>1
  <2>6. Mask(bits) = {i \in Bit : i >= k}
    BY <2>3, <2>4, <2>5
  <2> QED
    BY <2>6 DEF k
<1> QED
  BY <1>2, <1>3

(* ip.ts compares exactly the leading bits, for every prefix length.       *)
LEMMA MaskComparesPrefixes ==
  ASSUME NEW bits \in 0..Width, NEW a \in SUBSET Bit, NEW b \in SUBSET Bit
  PROVE  a \cap Mask(bits) = b \cap Mask(bits) <=> SamePrefix(a, b, bits)
BY MaskLemma DEF SamePrefix

(* ipAllowed() lets in whom the operator listed and nobody else, for every *)
(* peer, every list of rules and every width.                              *)
THEOREM AllowedIsListed ==
  ASSUME NEW p \in Peer, NEW rs \in SUBSET Rule
  PROVE  Allowed(p, rs) <=> Listed(p, rs)
<1>1. ASSUME NEW rule \in rs
      PROVE  Matches(rule, p) <=>
               \/ rule.text = p.text
               \/ /\ p.v4 /\ rule.v4
                  /\ Bits(rule) \in 0..Width
                  /\ SamePrefix(p.addr, rule.addr, Bits(rule))
  <2>1. p.addr \in SUBSET Bit /\ rule.addr \in SUBSET Bit
    BY DEF Peer, Rule
  <2> QED
    BY <2>1, MaskComparesPrefixes DEF Matches, ValidLength
<1> QED
  BY <1>1 DEF Allowed, Listed

-----------------------------------------------------------------------------
(* Who is connected, or was when it asked, has been let in.                *)
LetIn == open \/ deciding # {} => Allowed(peer, rules)
ServedInv == peer \in Peers /\ rules \in RuleSets /\ LetIn

(* No request of a peer that is not listed is decided on, in any order of  *)
(* connections, chunks, time-outs and late decisions.                      *)
THEOREM OnlyListedAreServed == Spec => []OnlyListedServed
<1>1. Init => ServedInv
  BY DEF Init, ServedInv, LetIn
<1>2. ServedInv /\ [Next]_vars => ServedInv'
  <2> SUFFICES ASSUME ServedInv, [Next]_vars PROVE ServedInv'
    OBVIOUS
  <2> USE DEF ServedInv, LetIn
  <2>1. CASE Connect
    BY <2>1 DEF Connect, peers
  <2>2. CASE Write \/ Receive \/ DefaultAction
    BY <2>2 DEF Write, Receive, DefaultAction, peers
  <2>3. CASE GiveUp
    BY <2>3 DEF GiveUp, Orphaned, peers
  <2>4. CASE IdleTimeout
    BY <2>4 DEF IdleTimeout, client, peers
  <2>5. ASSUME NEW n \in 1..Len(wire), Data(n) PROVE ServedInv'
    <3>1. open /\ UNCHANGED client
      BY <2>5 DEF Data
    <3> QED
      BY <3>1 DEF client, peers
  <2>6. ASSUME NEW d \in deciding, Reply(d) PROVE ServedInv'
    BY <2>6 DEF Reply, client, peers
  <2>7. CASE Finished \/ UNCHANGED vars
    BY <2>7 DEF Finished, vars
  <2> QED
    BY <2>1, <2>2, <2>3, <2>4, <2>5, <2>6, <2>7 DEF Next
<1>3. ServedInv => OnlyListedServed
  <2>1. peer \in Peers /\ rules \in RuleSets => peer \in Peer /\ rules \in SUBSET Rule
    BY PolicyTcpAssumption
  <2> QED
    BY <2>1, AllowedIsListed DEF ServedInv, LetIn, OnlyListedServed
<1> QED
  BY <1>1, <1>2, <1>3, PTL DEF Spec

-----------------------------------------------------------------------------
(***************************************************************************)
(* The text of requests: which unit follows which.                         *)
(***************************************************************************)
First(r) == [req |-> r, line |-> 1, last |-> FALSE]
Blank(r) == [req |-> r, line |-> 0, last |-> TRUE]

OfText(u) == u \in Unit /\ u.line <= Lines[u.req] /\ (u.line = 0 => u.last)

After(u) ==
  IF ~u.last THEN [req |-> u.req, line |-> u.line, last |-> TRUE]
  ELSE IF u.line = 0 THEN First(u.req + 1)
  ELSE IF u.line = Lines[u.req] THEN Blank(u.req)
  ELSE [req |-> u.req, line |-> u.line + 1, last |-> FALSE]

LEMMA LinesTyped == /\ Req = 1..Len(Lines) /\ Len(Lines) \in Nat
                    /\ \A r \in Req : Lines[r] \in Nat \ {0} /\ Size(r) \in Nat \ {0}
                    /\ \A r \in Req : Size(r) = 2 * Lines[r] + 1
<1>1. Lines \in Seq(Nat \ {0})
  BY PolicyTcpAssumption
<1>2. Req = 1..Len(Lines) /\ Len(Lines) \in Nat
  BY <1>1 DEF Req
<1>3. \A r \in Req : Lines[r] \in Nat \ {0}
  BY <1>1 DEF Req
<1> QED  BY <1>2, <1>3 DEF Size

LEMMA TextUnits ==
  ASSUME NEW r \in Req
  PROVE  /\ Text(r) \in Seq(Unit) /\ Len(Text(r)) = Size(r)
         /\ \A i \in 1..Size(r) : Text(r)[i] = IF i = Size(r) THEN Blank(r)
              ELSE [req |-> r, line |-> (i + 1) \div 2, last |-> i % 2 = 0]
<1>1. Size(r) \in Nat
  BY LinesTyped
<1>2. \A i \in 1..Size(r) : Text(r)[i] = IF i = Size(r) THEN Blank(r)
        ELSE [req |-> r, line |-> (i + 1) \div 2, last |-> i % 2 = 0]
  BY DEF Text, Blank
<1>3. ASSUME NEW i \in 1..Size(r) PROVE Text(r)[i] \in Unit
  <2>1. (i + 1) \div 2 \in Nat /\ (i % 2 = 0) \in BOOLEAN
    BY <1>1
  <2> DEFINE line == (i + 1) \div 2
             last == i % 2 = 0
  <2>2. Text(r)[i] = IF i = Size(r) THEN Blank(r) ELSE [req |-> r, line |-> line, last |-> last]
    BY <1>2
  <2>3. line \in Nat /\ last \in BOOLEAN
    BY <2>1
  <2> HIDE DEF line, last
  <2> QED  BY <2>2, <2>3 DEF Unit, Blank
<1>4. Text(r) \in [1..Size(r) -> Unit]
  BY <1>3 DEF Text
<1>5. Text(r) \in Seq(Unit) /\ Len(Text(r)) = Size(r)
  <2> DEFINE t == Text(r)
             m == Size(r)
  <2>1. t \in [1..m -> Unit] /\ m \in Nat
    BY <1>1, <1>4
  <2> HIDE DEF t, m
  <2>2. t \in Seq(Unit) /\ Len(t) = m
    BY <2>1
  <2> QED  BY <2>2 DEF t, m
<1> QED  BY <1>2, <1>5

(* Its units come one after the other, and only the last is a blank line.  *)
LEMMA TextInOrder ==
  ASSUME NEW r \in Req
  PROVE  /\ Text(r)[1] = First(r) /\ Text(r)[Size(r)] = Blank(r)
         /\ \A i \in 1..Size(r) : /\ OfText(Text(r)[i]) /\ Text(r)[i].req = r
                                  /\ Text(r)[i].line = 0 <=> i = Size(r)
         /\ \A i \in 1..Size(r) - 1 : Text(r)[i + 1] = After(Text(r)[i])
<1>1. Lines[r] \in Nat \ {0} /\ Size(r) = 2 * Lines[r] + 1 /\ Size(r) \in Nat
  BY LinesTyped
<1> DEFINE t == Text(r)
           n == Lines[r]
<1>2. \A i \in 1..2 * n + 1 : t[i] = IF i = 2 * n + 1 THEN Blank(r)
        ELSE [req |-> r, line |-> (i + 1) \div 2, last |-> i % 2 = 0]
  BY <1>1, TextUnits
<1>3. \A i \in 1..2 * n + 1 : t[i] \in Unit
  BY <1>1, TextUnits
<1>4. n \in Nat \ {0} /\ Size(r) = 2 * n + 1
  BY <1>1
<1> HIDE DEF t
<1>5. t[1] = First(r) /\ t[2 * n + 1] = Blank(r)
  <2>1. 1 \in 1..2 * n + 1 /\ 1 # 2 * n + 1 /\ 2 * n + 1 \in 1..2 * n + 1
    BY <1>4
  <2>2. (1 + 1) \div 2 = 1 /\ 1 % 2 # 0
    OBVIOUS
  <2>3. t[1] = [req |-> r, line |-> 1, last |-> FALSE]
    BY <1>2, <2>1, <2>2
  <2>4. t[2 * n + 1] = Blank(r)
    BY <1>2, <2>1
  <2> QED  BY <2>3, <2>4 DEF First
<1>6. ASSUME NEW i \in 1..2 * n + 1
      PROVE  /\ OfText(t[i]) /\ t[i].req = r /\ (t[i].line = 0 <=> i = 2 * n + 1)
             /\ i # 2 * n + 1 => t[i + 1] = After(t[i])
  <2>1. CASE i = 2 * n + 1
    BY <1>3, <1>4, <1>5, <2>1 DEF OfText, Blank
  <2>2. CASE i # 2 * n + 1 /\ i % 2 = 0
    <3>1. (i + 1) \div 2 \in 1..n /\ i + 1 \in 1..2 * n + 1 /\ (i + 1 = 2 * n + 1 <=> (i + 1) \div 2 = n)
          /\ ((i + 1) + 1) \div 2 = ((i + 1) \div 2) + 1 /\ (i + 1) % 2 # 0
      BY <1>4, <2>2
    <3> DEFINE line == (i + 1) \div 2
    <3>2. t[i] = [req |-> r, line |-> line, last |-> TRUE]
      BY <1>2, <2>2
    <3>3. t[i + 1] = IF line = n THEN Blank(r) ELSE [req |-> r, line |-> line + 1, last |-> FALSE]
      BY <1>2, <3>1
    <3>4. line \in 1..n
      BY <3>1
    <3> HIDE DEF line
    <3> QED  BY <1>3, <1>4, <2>2, <3>2, <3>3, <3>4 DEF OfText, After
  <2>3. CASE i # 2 * n + 1 /\ i % 2 # 0
    <3>1. (i + 1) \div 2 \in 1..n /\ i + 1 \in 1..2 * n + 1 /\ i + 1 # 2 * n + 1
          /\ ((i + 1) + 1) \div 2 = (i + 1) \div 2 /\ (i + 1) % 2 = 0
      BY <1>4, <2>3
    <3> DEFINE line == (i + 1) \div 2
    <3>2. t[i] = [req |-> r, line |-> line, last |-> FALSE]
      BY <1>2, <2>3
    <3>3. t[i + 1] = [req |-> r, line |-> line, last |-> TRUE]
      BY <1>2, <3>1
    <3>4. line \in 1..n
      BY <3>1
    <3> HIDE DEF line
    <3> QED  BY <1>3, <1>4, <2>3, <3>2, <3>3, <3>4 DEF OfText, After
  <2> QED  BY <2>1, <2>2, <2>3
<1>7. ASSUME NEW i \in 1..Size(r) - 1 PROVE t[i + 1] = After(t[i])
  <2>1. i \in 1..2 * n + 1 /\ i # 2 * n + 1
    BY <1>4
  <2> QED  BY <1>6, <2>1
<1>8. ASSUME NEW i \in 1..Size(r)
      PROVE  OfText(t[i]) /\ t[i].req = r /\ (t[i].line = 0 <=> i = Size(r))
  BY <1>4, <1>6
<1>9. t[1] = First(r) /\ t[Size(r)] = Blank(r)
  BY <1>4, <1>5
<1> QED  BY <1>7, <1>8, <1>9 DEF t

-----------------------------------------------------------------------------
(***************************************************************************)
(* The loop over the lines, unit by unit: what the server holds when unit  *)
(* u is the next to come.                                                  *)
(***************************************************************************)
Known(r, n) == {<<r, l>> : l \in 1..n}
HeldLine(u) ==
  IF u.line # 0 /\ u.last THEN <<[req |-> u.req, line |-> u.line, last |-> FALSE]>> ELSE << >>
HeldAttrs(u) == Known(u.req, IF u.line = 0 THEN Lines[u.req] ELSE u.line - 1)
Judged(r) == [req |-> r, attrs |-> Known(r, Lines[r])]
Weight(u) ==
  IF u.line = 0 THEN 2 * Lines[u.req] ELSE 2 * (u.line - 1) + (IF u.last THEN 1 ELSE 0)

LEMMA KnownGrows ==
  ASSUME NEW r, NEW n \in Nat
  PROVE  Known(r, n + 1) = Known(r, n) \cup {<<r, n + 1>>} /\ Known(r, 0) = {}
<1>1. 1..(n + 1) = (1..n) \cup {n + 1} /\ 1..0 = {}
  OBVIOUS
<1> QED  BY <1>1 DEF Known

LEMMA KnownSize ==
  ASSUME NEW r \in Req, NEW m \in Nat
  PROVE  /\ Known(r, m) \subseteq Attr
         /\ IsFiniteSet(Known(r, m)) /\ Cardinality(Known(r, m)) = m
<1>1. Known(r, m) \subseteq Attr
  BY DEF Known, Attr
<1>2. IsFiniteSet(1..m) /\ Cardinality(1..m) = m
  <2>1. IsFiniteSet(1..m) /\ Cardinality(1..m) = IF 1 > m THEN 0 ELSE m - 1 + 1
    BY FS_Interval
  <2> QED  BY <2>1
<1> DEFINE f == [l \in 1..m |-> <<r, l>>]
<1>3. f \in Bijection(1..m, Known(r, m))
  BY DEF Known, Bijection, Injection, Surjection, IsInjective
<1> HIDE DEF f
<1>4. IsFiniteSet(Known(r, m)) /\ Cardinality(Known(r, m)) = Cardinality(1..m)
  BY <1>2, <1>3, FS_Bijection DEF ExistsBijection
<1> QED  BY <1>1, <1>2, <1>4

LEMMA HeldFirst ==
  ASSUME NEW r
  PROVE  HeldLine(First(r)) = << >> /\ HeldAttrs(First(r)) = {} /\ Weight(First(r)) = 0
<1>1. Known(r, 0) = {} /\ 1 - 1 = 0
  BY KnownGrows
<1> QED  BY <1>1 DEF HeldLine, HeldAttrs, Weight, First

LEMMA HeldTyped ==
  ASSUME NEW u, OfText(u)
  PROVE  /\ HeldLine(u) \in Seq(Unit) /\ HeldAttrs(u) \subseteq Attr /\ IsFiniteSet(HeldAttrs(u))
         /\ Len(HeldLine(u)) + 2 * Cardinality(HeldAttrs(u)) = Weight(u)
         /\ Weight(u) \in Nat
<1>1. u.req \in Req /\ u.line \in Nat /\ u.last \in BOOLEAN /\ Lines[u.req] \in Nat
  BY LinesTyped DEF OfText, Unit
<1> DEFINE n == IF u.line = 0 THEN Lines[u.req] ELSE u.line - 1
<1>2. n \in Nat
  BY <1>1
<1>3. HeldAttrs(u) = Known(u.req, n)
  BY DEF HeldAttrs
<1>4. /\ HeldAttrs(u) \subseteq Attr /\ IsFiniteSet(HeldAttrs(u)) /\ Cardinality(HeldAttrs(u)) = n
  <2> HIDE DEF n
  <2> QED  BY <1>1, <1>2, <1>3, KnownSize
<1>5. /\ HeldLine(u) \in Seq(Unit)
      /\ Len(HeldLine(u)) = IF u.line # 0 /\ u.last THEN 1 ELSE 0
  <2>1. [req |-> u.req, line |-> u.line, last |-> FALSE] \in Unit
    BY <1>1 DEF Unit
  <2> DEFINE v == [req |-> u.req, line |-> u.line, last |-> FALSE]
  <2>2. HeldLine(u) = IF u.line # 0 /\ u.last THEN <<v>> ELSE << >>
    BY DEF HeldLine
  <2>3. v \in Unit
    BY <2>1
  <2> HIDE DEF v
  <2> QED  BY <2>2, <2>3
<1>6. Weight(u) \in Nat /\ Weight(u) = 2 * n + (IF u.line # 0 /\ u.last THEN 1 ELSE 0)
  BY <1>1 DEF Weight
<1> HIDE DEF n
<1> QED  BY <1>2, <1>4, <1>5, <1>6

(* What follows a unit, of the same request or of the next.                *)
LEMMA AfterUnit ==
  ASSUME NEW u, OfText(u)
  PROVE  /\ u.line # 0 => After(u).req = u.req /\ Weight(After(u)) = Weight(u) + 1
         /\ u.line = 0 => After(u).req = u.req + 1 /\ Weight(After(u)) = 0
         /\ u.req \in Nat
<1>1. /\ u.req \in Req /\ u.line \in Nat /\ u.last \in BOOLEAN /\ Lines[u.req] \in Nat \ {0}
      /\ Req \subseteq Nat /\ u.line <= Lines[u.req] /\ (u.line = 0 => u.last)
  BY LinesTyped DEF OfText, Unit
<1>2. CASE ~u.last
  <2> DEFINE v == [req |-> u.req, line |-> u.line, last |-> TRUE]
  <2>1. After(u) = v /\ u.line # 0
    BY <1>1, <1>2 DEF After
  <2>2. Weight(u) = 2 * (u.line - 1) + 0 /\ Weight(v) = 2 * (u.line - 1) + 1
    BY <1>2, <2>1 DEF Weight
  <2> QED  BY <1>1, <2>1, <2>2
<1>3. CASE u.last /\ u.line = 0
  BY <1>1, <1>3, HeldFirst DEF After, First
<1>4. CASE u.last /\ u.line # 0 /\ u.line = Lines[u.req]
  <2>1. After(u) = Blank(u.req)
    BY <1>4 DEF After
  <2>2. Weight(u) = 2 * (u.line - 1) + 1 /\ Weight(Blank(u.req)) = 2 * u.line
    BY <1>4 DEF Weight, Blank
  <2> QED  BY <1>1, <1>4, <2>1, <2>2 DEF Blank
<1>5. CASE u.last /\ u.line # 0 /\ u.line # Lines[u.req]
  <2> DEFINE v == [req |-> u.req, line |-> u.line + 1, last |-> FALSE]
  <2>1. After(u) = v /\ u.line + 1 # 0 /\ (u.line + 1) - 1 = u.line
    BY <1>1, <1>5 DEF After
  <2>2. Weight(u) = 2 * (u.line - 1) + 1 /\ Weight(v) = 2 * u.line + 0
    BY <1>5, <2>1 DEF Weight
  <2> QED  BY <1>1, <1>5, <2>1, <2>2
<1> QED  BY <1>1, <1>2, <1>3, <1>4, <1>5

(* One unit more.                                                          *)
LEMMA FeedUnit ==
  ASSUME NEW u, OfText(u), NEW done
  PROVE  Feed([buf |-> HeldLine(u), attrs |-> HeldAttrs(u), done |-> done], u) =
           [buf |-> HeldLine(After(u)), attrs |-> HeldAttrs(After(u)),
            done |-> IF u.line = 0 THEN Append(done, Judged(u.req)) ELSE done]
<1>1. /\ u \in Unit /\ u.req \in Req /\ u.line \in Nat /\ u.last \in BOOLEAN
      /\ Lines[u.req] \in Nat \ {0} /\ (u.line = 0 => u.last)
  BY LinesTyped DEF OfText, Unit
<1> DEFINE st == [buf |-> HeldLine(u), attrs |-> HeldAttrs(u), done |-> done]
<1>2. CASE ~u.last
  <2>1. u = [req |-> u.req, line |-> u.line, last |-> FALSE] /\ u.line # 0
    BY <1>1, <1>2 DEF Unit
  <2>2. HeldLine(u) = << >> /\ Append(<< >>, u) = <<u>>
    BY <1>2 DEF HeldLine
  <2>3. HeldLine(After(u)) = <<u>> /\ HeldAttrs(After(u)) = HeldAttrs(u)
    BY <1>2, <2>1 DEF After, HeldLine, HeldAttrs
  <2>4. Feed(st, u) = [buf |-> <<u>>, attrs |-> HeldAttrs(u), done |-> done]
    BY <1>2, <2>1, <2>2 DEF Feed
  <2> QED  BY <2>1, <2>3, <2>4
<1>3. CASE u.line = 0
  <2>1. HeldAttrs(u) = Known(u.req, Lines[u.req])
    BY <1>3 DEF HeldAttrs
  <2>2. After(u) = First(u.req + 1)
    BY <1>1, <1>3 DEF After
  <2>3. HeldLine(After(u)) = << >> /\ HeldAttrs(After(u)) = {}
    BY <2>2, HeldFirst
  <2> QED  BY <1>3, <2>1, <2>3 DEF Feed, Judged
<1>4. CASE u.last /\ u.line # 0
  <2>1. HeldAttrs(u) \cup {<<u.req, u.line>>} = Known(u.req, u.line)
    <3>1. u.line - 1 \in Nat /\ (u.line - 1) + 1 = u.line /\ HeldAttrs(u) = Known(u.req, u.line - 1)
      BY <1>1, <1>4 DEF HeldAttrs
    <3> QED  BY <3>1, KnownGrows
  <2>2. HeldLine(After(u)) = << >> /\ HeldAttrs(After(u)) = Known(u.req, u.line)
    <3>1. CASE u.line = Lines[u.req]
      BY <1>4, <3>1 DEF After, Blank, HeldLine, HeldAttrs
    <3>2. CASE u.line # Lines[u.req]
      <4>1. After(u) = [req |-> u.req, line |-> u.line + 1, last |-> FALSE]
        BY <1>4, <3>2 DEF After
      <4>2. u.line + 1 # 0 /\ (u.line + 1) - 1 = u.line
        BY <1>1
      <4> QED  BY <4>1, <4>2 DEF HeldLine, HeldAttrs
    <3> QED  BY <3>1, <3>2
  <2>3. Feed(st, u) = [buf |-> << >>, attrs |-> HeldAttrs(u) \cup {<<u.req, u.line>>}, done |-> done]
    BY <1>4 DEF Feed
  <2> QED  BY <1>4, <2>1, <2>2, <2>3
<1> QED  BY <1>1, <1>2, <1>3, <1>4

(* Every non-empty set of naturals has a least element.                    *)
LEMMA LeastNat == ASSUME NEW T \in SUBSET Nat, T # {} PROVE \E n \in T : \A m \in T : n <= m
<1> DEFINE R == OpToRel(<, Nat)
<1>1. IsWellFoundedOn(R, Nat)
  BY NatLessThanWellFounded
<1>2. PICK n \in T : \A m \in T : ~(<<m, n>> \in R)
  <2> HIDE DEF R
  <2> QED  BY <1>1, WFMin
<1>3. \A m \in T : ~(m < n)
  BY <1>2 DEF OpToRel
<1> QED  BY <1>3

(* The unit that comes after the first i on the wire.                      *)
Expected(i) == IF i < Len(wire) THEN wire[i + 1] ELSE First(sent + 1)

(* The wire carries whole requests, but for what the server has read of    *)
(* the first, which is what it holds.                                      *)
InOrder ==
  /\ sent \in Req /\ wire \in Seq(Unit)
  /\ \A i \in 1..Len(wire) : OfText(wire[i]) /\ Expected(i) = After(wire[i])
  /\ buf = HeldLine(Expected(0)) /\ attrs = HeldAttrs(Expected(0))

(* The requests that end in the first n units.                             *)
Ended(n) ==
  [k \in 1..Expected(n).req - Expected(0).req |-> Judged(Expected(0).req + (k - 1))]

LEMMA ExpectedUnits ==
  ASSUME InOrder
  PROVE  /\ Len(wire) \in Nat
         /\ \A i \in 0..Len(wire) : /\ Expected(i).req \in Nat /\ Weight(Expected(i)) \in Nat
                                   /\ HeldLine(Expected(i)) \in Seq(Unit)
                                   /\ HeldAttrs(Expected(i)) \subseteq Attr
                                   /\ IsFiniteSet(HeldAttrs(Expected(i)))
                                   /\ Len(HeldLine(Expected(i))) + 2 * Cardinality(HeldAttrs(Expected(i)))
                                        = Weight(Expected(i))
                                   /\ Expected(i).req <= Len(Lines) + 1
         /\ \A i \in 1..Len(wire) : wire[i] = Expected(i - 1)
         /\ Expected(0).req \in Req \/ wire = << >>
<1>1. Len(wire) \in Nat /\ Req = 1..Len(Lines) /\ Len(Lines) \in Nat
  BY LinesTyped DEF InOrder
<1>2. ASSUME NEW i \in 1..Len(wire) PROVE wire[i] = Expected(i - 1)
  <2>1. i - 1 < Len(wire) /\ (i - 1) + 1 = i
    BY <1>1
  <2> QED  BY <2>1 DEF Expected
<1>3. ASSUME NEW i \in 0..Len(wire)
      PROVE  /\ Expected(i).req \in Nat /\ Weight(Expected(i)) \in Nat
             /\ HeldLine(Expected(i)) \in Seq(Unit)
             /\ HeldAttrs(Expected(i)) \subseteq Attr
             /\ IsFiniteSet(HeldAttrs(Expected(i)))
             /\ Len(HeldLine(Expected(i))) + 2 * Cardinality(HeldAttrs(Expected(i)))
                  = Weight(Expected(i))
             /\ Expected(i).req <= Len(Lines) + 1
             /\ i < Len(wire) => Expected(i).req \in Req
  <2> DEFINE u == Expected(i)
  <2>1. CASE i < Len(wire)
    <3>1. i + 1 \in 1..Len(wire) /\ u = wire[i + 1]
      BY <1>1, <2>1 DEF Expected
    <3>2. OfText(u) /\ u.req \in Req
      BY <3>1 DEF InOrder, OfText, Unit
    <3> HIDE DEF u
    <3>3. /\ HeldLine(u) \in Seq(Unit) /\ HeldAttrs(u) \subseteq Attr /\ IsFiniteSet(HeldAttrs(u))
          /\ Len(HeldLine(u)) + 2 * Cardinality(HeldAttrs(u)) = Weight(u)
          /\ Weight(u) \in Nat
      BY <3>2, HeldTyped
    <3>4. u.req \in Nat /\ u.req <= Len(Lines) + 1
      BY <1>1, <3>2
    <3> QED  BY <3>2, <3>3, <3>4 DEF u
  <2>2. CASE ~(i < Len(wire))
    <3>1. u = First(sent + 1)
      BY <2>2 DEF Expected
    <3>2. u.req = sent + 1 /\ sent \in Req
      BY <3>1 DEF First, InOrder
    <3> HIDE DEF u
    <3>3. HeldLine(u) = << >> /\ HeldAttrs(u) = {} /\ Weight(u) = 0
      BY <3>1, HeldFirst
    <3>4. IsFiniteSet({}) /\ Cardinality({}) = 0 /\ Len(<< >>) = 0
      BY FS_EmptySet
    <3>5. << >> \in Seq(Unit)
      OBVIOUS
    <3>6. Len(HeldLine(u)) + 2 * Cardinality(HeldAttrs(u)) = 0
      BY <3>3, <3>4
    <3> QED  BY <1>1, <2>2, <3>2, <3>3, <3>4, <3>5, <3>6 DEF u
  <2> QED  BY <2>1, <2>2
<1>4. 0 \in 0..Len(wire) /\ (0 < Len(wire) \/ wire = << >>)
  BY <1>1 DEF InOrder
<1> QED  BY <1>1, <1>2, <1>3, <1>4

(* Requests come in order, and a unit adds one to what is held, or starts  *)
(* it afresh.                                                              *)
LEMMA Rises ==
  ASSUME InOrder, NEW n \in 0..Len(wire)
  PROVE  /\ Expected(n).req >= Expected(0).req
         /\ Weight(Expected(n)) <= IF Expected(n).req = Expected(0).req
                                     THEN Weight(Expected(0)) + n ELSE n - 1
<1> DEFINE Risen(i) == /\ Expected(i).req >= Expected(0).req
                       /\ Weight(Expected(i)) <= IF Expected(i).req = Expected(0).req
                                                   THEN Weight(Expected(0)) + i ELSE i - 1
           Wrong == {i \in 0..Len(wire) : ~Risen(i)}
<1>1. /\ Len(wire) \in Nat
      /\ \A i \in 0..Len(wire) : Expected(i).req \in Nat /\ Weight(Expected(i)) \in Nat
  BY ExpectedUnits
<1> SUFFICES ASSUME Wrong # {} PROVE FALSE
  OBVIOUS
<1>2. Wrong \in SUBSET Nat
  BY <1>1
<1>3. PICK j \in Wrong : \A m \in Wrong : j <= m
  <2> HIDE DEF Wrong
  <2> QED  BY <1>2, LeastNat
<1>4. CASE j = 0
  BY <1>1, <1>3, <1>4
<1>5. CASE j # 0
  <2>1. j \in 1..Len(wire) /\ j - 1 \in 0..Len(wire) /\ j - 1 < j
    BY <1>1, <1>3, <1>5
  <2>2. Risen(j - 1)
    BY <1>3, <2>1
  <2> DEFINE u == Expected(j - 1)
             v == Expected(j)
             w == Expected(0)
  <2>3. OfText(u) /\ v = After(u)
    BY <2>1, ExpectedUnits DEF InOrder
  <2>4. u.req \in Nat /\ v.req \in Nat /\ w.req \in Nat
        /\ Weight(u) \in Nat /\ Weight(v) \in Nat /\ Weight(w) \in Nat
    BY <1>1, <2>1
  <2>5. u.req >= w.req /\ Weight(u) <= IF u.req = w.req THEN Weight(w) + (j - 1) ELSE (j - 1) - 1
    BY <2>2
  <2>6. ~(v.req >= w.req /\ Weight(v) <= IF v.req = w.req THEN Weight(w) + j ELSE j - 1)
    BY <1>3
  <2> HIDE DEF u, v, w
  <2>7. /\ u.line # 0 => v.req = u.req /\ Weight(v) = Weight(u) + 1
        /\ u.line = 0 => v.req = u.req + 1 /\ Weight(v) = 0
    BY <2>3, AfterUnit
  <2> QED  BY <2>1, <2>4, <2>5, <2>6, <2>7
<1> QED  BY <1>4, <1>5

LEMMA EndedGrows ==
  ASSUME InOrder, NEW i \in 1..Len(wire)
  PROVE  Ended(i) = IF wire[i].line = 0 THEN Append(Ended(i - 1), Judged(wire[i].req)) ELSE Ended(i - 1)
<1> DEFINE r0 == Expected(0).req
           m == Expected(i - 1).req - r0
<1>1. /\ i \in Nat /\ i - 1 \in 0..Len(wire) /\ 0 \in 0..Len(wire) /\ Len(wire) \in Nat
  BY ExpectedUnits
<1>2. r0 \in Nat /\ Expected(i - 1).req \in Nat /\ Expected(i - 1).req >= r0
  BY <1>1, ExpectedUnits, Rises
<1>3. m \in Nat /\ wire[i] = Expected(i - 1) /\ wire[i].req = r0 + m
  BY <1>2, ExpectedUnits
<1>4. OfText(wire[i]) /\ Expected(i) = After(wire[i])
  BY DEF InOrder
<1>5. /\ wire[i].line # 0 => Expected(i).req - r0 = m
      /\ wire[i].line = 0 => Expected(i).req - r0 = m + 1
  BY <1>2, <1>3, <1>4, AfterUnit
<1>6. Ended(i - 1) = [k \in 1..m |-> Judged(r0 + (k - 1))]
  BY DEF Ended
<1>7. Ended(i) = [k \in 1..Expected(i).req - r0 |-> Judged(r0 + (k - 1))]
  BY DEF Ended
<1> HIDE DEF r0, m
<1>8. CASE wire[i].line # 0
  BY <1>5, <1>6, <1>7, <1>8
<1>9. CASE wire[i].line = 0
  <2> DEFINE S == {Judged(r) : r \in Nat}
             s == [k \in 1..m |-> Judged(r0 + (k - 1))]
             t == [k \in 1..m + 1 |-> Judged(r0 + (k - 1))]
             e == Judged(r0 + m)
  <2>1. /\ s \in [1..m -> S] /\ t \in [1..m + 1 -> S] /\ e \in S
    <3>1. \A k \in 1..m + 1 : r0 + (k - 1) \in Nat
      BY <1>2, <1>3
    <3>2. \A k \in 1..m : k \in 1..m + 1
      BY <1>3
    <3>3. r0 + m \in Nat
      BY <1>2, <1>3
    <3> QED  BY <3>1, <3>2, <3>3
  <2>2. \A k \in 1..m : t[k] = s[k]
    <3>1. \A k \in 1..m : k \in 1..m + 1
      BY <1>3
    <3> QED  BY <3>1
  <2>3. t[m + 1] = e
    <3>1. m + 1 \in 1..m + 1 /\ r0 + ((m + 1) - 1) = r0 + m
      BY <1>2, <1>3
    <3> QED  BY <3>1
  <2> HIDE DEF S, s, t, e
  <2>4. s \in Seq(S) /\ Len(s) = m /\ t \in Seq(S) /\ Len(t) = m + 1
    BY <1>3, <2>1
  <2>5. Append(s, e) \in Seq(S) /\ Len(Append(s, e)) = m + 1
        /\ (\A k \in 1..m : Append(s, e)[k] = s[k]) /\ Append(s, e)[m + 1] = e
    BY <2>1, <2>4, AppendProperties
  <2>6. \A k \in 1..m + 1 : t[k] = Append(s, e)[k]
    <3>1. \A k \in 1..m + 1 : k \in 1..m \/ k = m + 1
      BY <1>3
    <3> QED  BY <2>2, <2>3, <2>5, <3>1
  <2>7. t = Append(s, e)
    BY <1>3, <2>4, <2>5, <2>6, SeqEqual
  <2> QED  BY <1>3, <1>5, <1>6, <1>7, <1>9, <2>7 DEF s, t, e
<1> QED  BY <1>8, <1>9

(* The loop over n units.                                                  *)
LEMMA FedUnits ==
  ASSUME InOrder, NEW n \in 0..Len(wire)
  PROVE  Fed(n) = [buf |-> HeldLine(Expected(n)), attrs |-> HeldAttrs(Expected(n)), done |-> Ended(n)]
<1> DEFINE st == CHOOSE f : f = [i \in 0..n |-> IF i = 0 THEN Reading ELSE Feed(f[i - 1], wire[i])]
           Held(i) == [buf |-> HeldLine(Expected(i)), attrs |-> HeldAttrs(Expected(i)), done |-> Ended(i)]
           g == [i \in 0..n |-> Held(i)]
<1>0. n \in Nat /\ n <= Len(wire) /\ Len(wire) \in Nat
  BY ExpectedUnits
<1>1. Reading = Held(0)
  <2>1. Expected(0).req \in Nat
    BY <1>0, ExpectedUnits
  <2>2. Ended(0) = << >>
    <3>1. 1..Expected(0).req - Expected(0).req = {}
      BY <2>1
    <3> QED  BY <3>1 DEF Ended
  <2> QED  BY <2>2 DEF Reading, InOrder
<1>2. ASSUME NEW i \in 1..n PROVE Held(i) = Feed(Held(i - 1), wire[i])
  <2>1. i \in 1..Len(wire)
    BY <1>0
  <2>2. OfText(wire[i]) /\ Expected(i) = After(wire[i]) /\ wire[i] = Expected(i - 1)
    BY <2>1, ExpectedUnits DEF InOrder
  <2>3. Feed([buf |-> HeldLine(wire[i]), attrs |-> HeldAttrs(wire[i]), done |-> Ended(i - 1)], wire[i]) =
          [buf |-> HeldLine(After(wire[i])), attrs |-> HeldAttrs(After(wire[i])),
           done |-> IF wire[i].line = 0 THEN Append(Ended(i - 1), Judged(wire[i].req)) ELSE Ended(i - 1)]
    BY <2>2, FeedUnit
  <2>4. Ended(i) = IF wire[i].line = 0 THEN Append(Ended(i - 1), Judged(wire[i].req)) ELSE Ended(i - 1)
    BY <2>1, EndedGrows
  <2> QED  BY <2>2, <2>3, <2>4
<1> HIDE DEF Held
<1>3. \A i \in 1..n : i \in 0..n /\ i - 1 \in 0..n
  BY <1>0
<1>4. g = [i \in 0..n |-> IF i = 0 THEN Reading ELSE Feed(g[i - 1], wire[i])]
  <2>1. ASSUME NEW i \in 0..n PROVE Held(i) = IF i = 0 THEN Reading ELSE Feed(g[i - 1], wire[i])
    <3>1. CASE i = 0
      BY <1>1, <3>1
    <3>2. CASE i # 0
      <4>1. i \in 1..n
        BY <1>0, <3>2
      <4>2. g[i - 1] = Held(i - 1)
        BY <1>3, <4>1
      <4> QED  BY <1>2, <3>2, <4>1, <4>2
    <3> QED  BY <3>1, <3>2
  <2> QED  BY <2>1
<1>5. st = [i \in 0..n |-> IF i = 0 THEN Reading ELSE Feed(st[i - 1], wire[i])]
  <2> HIDE DEF g
  <2> QED  BY <1>4
<1>6. Fed(n) = st[n]
  BY DEF Fed
<1> HIDE DEF st
<1>7. ASSUME NEW i \in 0..n, st[i] # Held(i) PROVE FALSE
  <2> DEFINE Wrong == {j \in 0..n : st[j] # Held(j)}
  <2>0. Wrong \in SUBSET Nat /\ Wrong # {}
    BY <1>7
  <2>1. PICK j \in Wrong : \A m \in Wrong : j <= m
    <3> HIDE DEF Wrong
    <3> QED  BY <2>0, LeastNat
  <2>2. CASE j = 0
    BY <1>1, <1>5, <2>1, <2>2
  <2>3. CASE j # 0
    <3>1. j - 1 \in 0..n /\ j - 1 \notin Wrong /\ j \in 1..n
      BY <2>1, <2>3
    <3>2. st[j - 1] = Held(j - 1)
      BY <3>1
    <3>3. st[j] = Feed(st[j - 1], wire[j])
      BY <1>5, <2>3, <3>1
    <3> QED  BY <1>2, <2>1, <3>1, <3>2, <3>3
  <2> QED  BY <2>2, <2>3
<1>8. st[n] = Held(n)
  BY <1>0, <1>7
<1> QED  BY <1>6, <1>8 DEF Held

-----------------------------------------------------------------------------
(***************************************************************************)
(* A connection of any client.                                             *)
(***************************************************************************)
Decision == [live: BOOLEAN, req: Req, attrs: SUBSET Attr]

(* What is held in excess of what has been counted was in the chunk that   *)
(* ended the last request, with a blank line before it.                    *)
Excess == MaxUnits - 1

Ordered ==
  /\ TypeOK
  /\ deciding \subseteq Decision
  /\ \A d \in deciding : d.attrs = Known(d.req, Lines[d.req])
  /\ next - 1 <= sent
  /\ open \/ Waiting => tries < Tries
  /\ open => InOrder
  /\ IsFiniteSet(attrs) /\ Stored <= total + Excess

LEMMA PositionsTyped ==
  ASSUME TypeOK
  PROVE  next \in Nat \ {0} /\ sent \in Nat /\ tries \in Nat /\ Len(Lines) \in Nat /\ Req = 1..Len(Lines)
         /\ MaxUnits \in Nat \ {0} /\ Tries \in Nat \ {0} /\ Excess \in Nat /\ total \in Nat
         /\ ahead \in Nat \ {0}
<1>1. MaxUnits \in Nat \ {0} /\ Tries \in Nat \ {0} /\ Aheads \subseteq Nat \ {0}
  BY PolicyTcpAssumption
<1>2. Excess \in Nat
  BY <1>1 DEF Excess
<1>3. Len(Lines) \in Nat /\ Req = 1..Len(Lines)
  BY LinesTyped
<1>4. /\ next \in 1..(Len(Lines) + 1) /\ sent \in 0..Len(Lines) /\ tries \in 0..Tries
      /\ total \in 0..MaxUnits /\ ahead \in Aheads
  BY DEF TypeOK
<1> QED  BY <1>1, <1>2, <1>3, <1>4

LEMMA DecisionsTyped ==
  ASSUME NEW D, D \subseteq Decision
  PROVE  \A d \in D : d.live \in BOOLEAN /\ d.req \in Req /\ d.attrs \subseteq Attr
BY DEF Decision

(* The connection is destroyed: nothing is promised of it any more.        *)
LEMMA Orphans ==
  ASSUME Ordered, deciding' = Orphaned
  PROVE  /\ deciding' \subseteq Decision
         /\ \A d \in deciding' : ~d.live /\ d.attrs = Known(d.req, Lines[d.req])
<1>1. ASSUME NEW d \in deciding
      PROVE  LET e == [d EXCEPT !.live = FALSE]
             IN  e \in Decision /\ ~e.live /\ e.attrs = Known(e.req, Lines[e.req])
  <2>1. d \in Decision /\ d.attrs = Known(d.req, Lines[d.req])
    BY DEF Ordered
  <2> QED  BY <2>1 DEF Decision
<1> QED  BY <1>1 DEF Orphaned

(* The data event of a connection that is kept.                            *)
LEMMA DataKept ==
  ASSUME Ordered, NEW n \in 1..Len(wire), Data(n), ~TooBig(n)
  PROVE  /\ open /\ open' /\ UNCHANGED <<used, inbox, client>> /\ InOrder /\ InOrder'
         /\ Len(wire') = Len(wire) - n /\ \A i \in 1..Len(wire') : wire'[i] = wire[n + i]
         /\ buf' = HeldLine(Expected(n)) /\ attrs' = HeldAttrs(Expected(n))
         /\ Stored = Weight(Expected(0)) /\ Stored' = Weight(Expected(n))
         /\ total' = IF Expected(n).req = Expected(0).req THEN total + n ELSE 0
         /\ deciding' = deciding \cup
              {[live |-> TRUE, req |-> Expected(0).req + (k - 1),
                attrs |-> Known(Expected(0).req + (k - 1), Lines[Expected(0).req + (k - 1)])] :
                 k \in 1..Expected(n).req - Expected(0).req}
<1>1. open /\ InOrder /\ UNCHANGED <<used, inbox, client>> /\ sent' = sent
  BY DEF Data, client, Ordered
<1>2. /\ Len(wire) \in Nat /\ wire \in Seq(Unit) /\ n \in Nat /\ n <= Len(wire) /\ n # 0
      /\ n \in 0..Len(wire) /\ 0 \in 0..Len(wire)
  BY <1>1, ExpectedUnits DEF InOrder
<1> DEFINE a == Fed(n)
           chunk == SubSeq(wire, 1, n)
           r0 == Expected(0).req
           m == Expected(n).req - r0
<1>3. /\ open' = open /\ wire' = SubSeq(wire, n + 1, Len(wire))
      /\ buf' = a.buf /\ attrs' = a.attrs /\ total' = Counted(chunk, a.done)
      /\ deciding' = deciding \cup
           {[live |-> TRUE, req |-> a.done[i].req, attrs |-> a.done[i].attrs] : i \in DOMAIN a.done}
  BY DEF Data
<1>4. a.buf = HeldLine(Expected(n)) /\ a.attrs = HeldAttrs(Expected(n)) /\ a.done = Ended(n)
  <2>1. a = [buf |-> HeldLine(Expected(n)), attrs |-> HeldAttrs(Expected(n)), done |-> Ended(n)]
    BY <1>1, <1>2, FedUnits
  <2> HIDE DEF a
  <2> QED  BY <2>1
<1> HIDE DEF a
<1>5. /\ wire' \in Seq(Unit) /\ Len(wire') = Len(wire) - n
      /\ \A i \in 1..Len(wire') : wire'[i] = wire[n + i]
  <2>1. \A i \in n + 1..Len(wire) : wire[i] \in Unit
    BY <1>2
  <2>2. /\ SubSeq(wire, n + 1, Len(wire)) \in Seq(Unit)
        /\ Len(SubSeq(wire, n + 1, Len(wire))) = IF n + 1 <= Len(wire) THEN Len(wire) - (n + 1) + 1 ELSE 0
        /\ \A i \in 1..(Len(wire) - (n + 1) + 1) : SubSeq(wire, n + 1, Len(wire))[i] = wire[(n + 1) + i - 1]
    BY <1>2, <2>1, SubSeqProperties
  <2>3. Len(wire') = Len(wire) - n /\ Len(wire) - (n + 1) + 1 = Len(wire) - n
    BY <1>2, <1>3, <2>2
  <2>4. ASSUME NEW i \in 1..Len(wire') PROVE wire'[i] = wire[n + i]
    <3>1. i \in 1..(Len(wire) - (n + 1) + 1) /\ (n + 1) + i - 1 = n + i
      BY <1>2, <2>3
    <3> QED  BY <1>3, <2>2, <3>1
  <2> QED  BY <1>3, <2>2, <2>3, <2>4
<1>6. ASSUME NEW i \in 0..Len(wire') PROVE Expected(i)' = Expected(n + i)
  <2>1. i \in Nat /\ Len(wire') = Len(wire) - n
    BY <1>2, <1>5
  <2>2. CASE i < Len(wire')
    <3>1. i + 1 \in 1..Len(wire') /\ n + i < Len(wire) /\ n + (i + 1) = (n + i) + 1
      BY <1>2, <2>1, <2>2
    <3>2. wire'[i + 1] = wire[(n + i) + 1]
      BY <1>5, <3>1
    <3> QED  BY <2>2, <3>1, <3>2 DEF Expected
  <2>3. CASE ~(i < Len(wire'))
    <3>1. ~(n + i < Len(wire))
      BY <1>2, <2>1, <2>3
    <3> QED  BY <1>1, <2>3, <3>1 DEF Expected, First
  <2> QED  BY <2>2, <2>3
<1>7. InOrder'
  <2>1. 0 \in 0..Len(wire') /\ n + 0 = n
    BY <1>2, <1>5
  <2>2. Expected(0)' = Expected(n)
    BY <1>6, <2>1
  <2>3. ASSUME NEW i \in 1..Len(wire') PROVE OfText(wire'[i]) /\ Expected(i)' = After(wire'[i])
    <3>1. n + i \in 1..Len(wire) /\ i \in 0..Len(wire')
      BY <1>2, <1>5
    <3> QED  BY <1>1, <1>5, <1>6, <3>1 DEF InOrder
  <2>4. buf' = HeldLine(Expected(0)') /\ attrs' = HeldAttrs(Expected(0)')
    BY <1>3, <1>4, <2>2
  <2>5. \A i \in 1..Len(wire') : OfText(wire[i])' /\ Expected(i)' = After(wire[i])'
    BY <2>3 DEF OfText, After, First, Blank
  <2>6. (buf = HeldLine(Expected(0)))' /\ (attrs = HeldAttrs(Expected(0)))'
    BY <2>4 DEF HeldLine, HeldAttrs, Known
  <2> QED  BY <1>1, <1>5, <2>5, <2>6 DEF InOrder
<1>8. Stored = Weight(Expected(0)) /\ Stored' = Weight(Expected(n))
  BY <1>1, <1>2, <1>3, <1>4, ExpectedUnits DEF Stored, InOrder
<1>9. r0 \in Nat /\ Expected(n).req \in Nat /\ m \in Nat
  BY <1>1, <1>2, ExpectedUnits, Rises
<1>10. a.done = [k \in 1..m |-> Judged(r0 + (k - 1))]
  BY <1>4 DEF Ended
<1>11. Len(chunk) = n
  <2>1. \A i \in 1..n : wire[i] \in Unit
    BY <1>2
  <2>2. Len(SubSeq(wire, 1, n)) = IF 1 <= n THEN n - 1 + 1 ELSE 0
    BY <1>2, <2>1, SubSeqProperties
  <2> QED  BY <1>2, <2>2
<1>12. total' = IF Expected(n).req = r0 THEN total + n ELSE 0
  <2>1. a.done = << >> <=> m = 0
    <3> HIDE DEF m, r0
    <3>1. m = 0 => 1..m = {}
      OBVIOUS
    <3>2. m # 0 => 1 \in 1..m
      BY <1>9
    <3>3. m = 0 => a.done = << >>
      BY <1>10, <3>1
    <3>4. DOMAIN a.done = 1..m
      BY <1>10
    <3>5. m # 0 => a.done # << >>
      <4>1. DOMAIN << >> = {}
        OBVIOUS
      <4> QED  BY <3>2, <3>4, <4>1
    <3> QED  BY <3>3, <3>5
  <2>2. m = 0 <=> Expected(n).req = r0
    BY <1>9
  <2> HIDE DEF m, r0, chunk
  <2> QED  BY <1>3, <1>11, <2>1, <2>2 DEF Counted
<1>13. {[live |-> TRUE, req |-> a.done[i].req, attrs |-> a.done[i].attrs] : i \in DOMAIN a.done} =
         {[live |-> TRUE, req |-> r0 + (k - 1), attrs |-> Known(r0 + (k - 1), Lines[r0 + (k - 1)])] : k \in 1..m}
  <2> HIDE DEF r0, m
  <2>1. DOMAIN a.done = 1..m
    BY <1>10
  <2>2. \A k \in 1..m : a.done[k] = Judged(r0 + (k - 1))
    BY <1>10
  <2>3. ASSUME NEW k \in 1..m
        PROVE  /\ a.done[k].req = r0 + (k - 1)
               /\ a.done[k].attrs = Known(r0 + (k - 1), Lines[r0 + (k - 1)])
    <3> DEFINE r == r0 + (k - 1)
    <3>1. a.done[k] = [req |-> r, attrs |-> Known(r, Lines[r])]
      BY <2>2 DEF Judged
    <3> HIDE DEF r
    <3>2. a.done[k].req = r /\ a.done[k].attrs = Known(r, Lines[r])
      BY <3>1
    <3> QED  BY <3>2 DEF r
  <2> QED  BY <2>1, <2>3
<1> QED
  BY <1>1, <1>3, <1>4, <1>5, <1>7, <1>8, <1>12, <1>13

LEMMA OrderedStarts == Init => Ordered
<1> SUFFICES ASSUME Init PROVE Ordered
  OBVIOUS
<1> USE DEF Init
<1>1. MaxUnits \in Nat \ {0} /\ Tries \in Nat \ {0} /\ Len(Lines) \in Nat
  BY LinesTyped, PolicyTcpAssumption
<1>2. Cardinality({}) = 0 /\ IsFiniteSet({}) /\ Len(<< >>) = 0
  BY FS_EmptySet
<1>3. TypeOK
  <2>1. << >> \in Seq(Unit) /\ << >> \in Seq(Req)
    OBVIOUS
  <2>2. outcome \in [Req -> {"none", "reply", "default"}]
    OBVIOUS
  <2>3. 0 \in 0..MaxUnits /\ next \in 1..(Len(Lines) + 1) /\ sent \in 0..Len(Lines) /\ tries \in 0..Tries
    BY <1>1
  <2> QED  BY <2>1, <2>2, <2>3 DEF TypeOK
<1>4. IsFiniteSet(attrs) /\ Stored <= total + Excess
  BY <1>1, <1>2 DEF Stored, Excess
<1>5. next - 1 <= sent /\ (open \/ Waiting => tries < Tries)
  BY <1>1 DEF Waiting
<1> QED  BY <1>3, <1>4, <1>5 DEF Ordered

LEMMA ConnectStep == ASSUME Ordered, Connect PROVE Ordered'
<1> USE DEF Connect
<1>1. TypeOK /\ next \in Nat \ {0} /\ sent \in Nat /\ tries \in Nat /\ Len(Lines) \in Nat
      /\ Req = 1..Len(Lines) /\ MaxUnits \in Nat \ {0} /\ Excess \in Nat
  BY PositionsTyped DEF Ordered
<1>2. /\ next \in Req /\ wire' = Text(next) /\ sent' = next
      /\ Text(next) \in Seq(Unit) /\ Len(Text(next)) = Size(next) /\ Size(next) \in Nat \ {0}
  BY TextUnits, LinesTyped
<1>3. Cardinality({}) = 0 /\ IsFiniteSet({}) /\ Len(<< >>) = 0
  BY FS_EmptySet
<1>4. buf' = << >> /\ attrs' = {} /\ total' = 0 /\ inbox' = << >> /\ used' = FALSE
      /\ UNCHANGED <<peers, deciding, next, tries, outcome>> /\ tries < Tries
  OBVIOUS
<1>5. open' \in BOOLEAN
  BY DEF Allowed
<1> HIDE DEF Connect
<1>6. TypeOK'
  <2>1. << >> \in Seq(Unit) /\ << >> \in Seq(Req)
    OBVIOUS
  <2>2. sent' \in 0..Len(Lines) /\ 0 \in 0..MaxUnits
    BY <1>1, <1>2
  <2> QED  BY <1>1, <1>2, <1>4, <1>5, <2>1, <2>2 DEF TypeOK, peers
<1>7. Stored' <= total' + Excess' /\ IsFiniteSet(attrs')
  BY <1>1, <1>3, <1>4 DEF Stored, Excess
<1>8. InOrder'
  <2>1. ASSUME NEW i \in 0..Size(next)
        PROVE  Expected(i)' = IF i < Size(next) THEN Text(next)[i + 1] ELSE First(next + 1)
    BY <1>2 DEF Expected, First
  <2>2. Expected(0)' = First(next)
    BY <1>2, <2>1, TextInOrder
  <2>3. ASSUME NEW i \in 1..Size(next) PROVE OfText(Text(next)[i]) /\ Expected(i)' = After(Text(next)[i])
    <3>1. OfText(Text(next)[i])
      BY <1>2, TextInOrder
    <3>2. CASE i < Size(next)
      <4>1. i \in 1..Size(next) - 1 /\ i \in 0..Size(next)
        BY <1>2, <3>2
      <4> QED  BY <1>2, <2>1, <3>1, <3>2, <4>1, TextInOrder
    <3>3. CASE ~(i < Size(next))
      <4>1. i = Size(next) /\ i \in 0..Size(next)
        BY <1>2, <3>3
      <4>2. Text(next)[i] = Blank(next)
        BY <1>2, <4>1, TextInOrder
      <4>3. After(Blank(next)) = First(next + 1)
        BY DEF After, Blank
      <4> QED  BY <2>1, <3>1, <3>3, <4>1, <4>2, <4>3
    <3> QED  BY <3>2, <3>3
  <2>4. \A i \in 1..Len(wire') : OfText(wire[i])' /\ Expected(i)' = After(wire[i])'
    BY <1>2, <2>3 DEF OfText, After, First, Blank
  <2>5. buf' = HeldLine(Expected(0)') /\ attrs' = HeldAttrs(Expected(0)')
    BY <1>4, <2>2, HeldFirst
  <2>6. (buf = HeldLine(Expected(0)))' /\ (attrs = HeldAttrs(Expected(0)))'
    BY <2>5 DEF HeldLine, HeldAttrs, Known
  <2> QED  BY <1>2, <2>4, <2>6 DEF InOrder
<1>9. next' - 1 <= sent' /\ tries' < Tries
  BY <1>1, <1>2, <1>4
<1> QED  BY <1>4, <1>6, <1>7, <1>8, <1>9 DEF Ordered

LEMMA WriteStep == ASSUME Ordered, Write PROVE Ordered'
<1> USE DEF Write
<1>1. TypeOK /\ next \in Nat \ {0} /\ sent \in Nat /\ tries \in Nat /\ Len(Lines) \in Nat
      /\ Req = 1..Len(Lines) /\ InOrder /\ open /\ Len(wire) \in Nat /\ wire \in Seq(Unit)
  BY PositionsTyped, ExpectedUnits DEF Ordered, InOrder
<1> DEFINE r == sent + 1
           t == Text(r)
<1>2. /\ r \in Req /\ wire' = wire \o t /\ sent' = r /\ UNCHANGED open
      /\ t \in Seq(Unit) /\ Len(t) = Size(r) /\ Size(r) \in Nat \ {0}
  BY TextUnits, LinesTyped
<1>3. UNCHANGED <<peers, used, server, deciding, inbox, next, tries, outcome>>
  OBVIOUS
<1> HIDE DEF Write
<1>4. /\ wire' \in Seq(Unit) /\ Len(wire') = Len(wire) + Size(r)
      /\ \A i \in 1..Len(wire) + Size(r) : wire'[i] = IF i <= Len(wire) THEN wire[i] ELSE t[i - Len(wire)]
  <2> HIDE DEF t
  <2> QED  BY <1>1, <1>2, ConcatProperties
<1>5. TypeOK'
  <2>1. sent' \in 0..Len(Lines)
    BY <1>1, <1>2
  <2> QED  BY <1>1, <1>2, <1>3, <1>4, <2>1 DEF TypeOK, server, peers
<1>6. t[1] = First(r) /\ t[Size(r)] = Blank(r)
      /\ (\A i \in 1..Size(r) : OfText(t[i])) /\ (\A i \in 1..Size(r) - 1 : t[i + 1] = After(t[i]))
  BY <1>2, TextInOrder
<1>7. ASSUME NEW i \in 0..Len(wire) PROVE Expected(i)' = Expected(i)
  <2>1. i < Len(wire') /\ i + 1 \in 1..Len(wire) + Size(r)
    BY <1>1, <1>2, <1>4
  <2>2. Expected(i)' = wire'[i + 1]
    BY <2>1 DEF Expected
  <2>3. CASE i < Len(wire)
    <3>1. i + 1 <= Len(wire)
      BY <1>1, <2>3
    <3> QED  BY <1>4, <2>1, <2>2, <2>3, <3>1 DEF Expected
  <2>4. CASE ~(i < Len(wire))
    <3>1. ~(i + 1 <= Len(wire)) /\ (i + 1) - Len(wire) = 1
      BY <1>1, <2>4
    <3>2. wire'[i + 1] = First(r)
      BY <1>4, <1>6, <2>1, <3>1
    <3> QED  BY <2>2, <2>4, <3>2 DEF Expected
  <2> QED  BY <2>3, <2>4
<1>8. ASSUME NEW i \in 1..Len(wire') PROVE OfText(wire'[i]) /\ Expected(i)' = After(wire'[i])
  <2>1. i \in 1..Len(wire) + Size(r)
    BY <1>4
  <2>2. CASE i <= Len(wire)
    <3>1. i \in 1..Len(wire) /\ i \in 0..Len(wire)
      BY <1>1, <2>1, <2>2
    <3> QED  BY <1>1, <1>4, <1>7, <2>1, <2>2, <3>1 DEF InOrder
  <2>3. CASE ~(i <= Len(wire))
    <3> DEFINE j == i - Len(wire)
    <3>1. j \in 1..Size(r) /\ wire'[i] = t[j]
      BY <1>1, <1>2, <1>4, <2>1, <2>3
    <3>2. OfText(wire'[i])
      BY <1>6, <3>1
    <3>3. CASE i < Len(wire')
      <4>1. i + 1 \in 1..Len(wire) + Size(r) /\ ~(i + 1 <= Len(wire)) /\ (i + 1) - Len(wire) = j + 1
            /\ j \in 1..Size(r) - 1
        BY <1>1, <1>2, <1>4, <2>1, <2>3, <3>3
      <4>2. wire'[i + 1] = t[j + 1]
        BY <1>4, <4>1
      <4>3. Expected(i)' = wire'[i + 1]
        BY <3>3 DEF Expected
      <4> QED  BY <1>6, <3>1, <3>2, <4>1, <4>2, <4>3
    <3>4. CASE ~(i < Len(wire'))
      <4>1. j = Size(r)
        BY <1>1, <1>2, <1>4, <2>1, <2>3, <3>4
      <4>2. wire'[i] = Blank(r)
        BY <1>6, <3>1, <4>1
      <4>3. Expected(i)' = First(r + 1)
        BY <1>2, <3>4 DEF Expected, First
      <4>4. After(Blank(r)) = First(r + 1)
        BY DEF After, Blank
      <4> QED  BY <3>2, <4>2, <4>3, <4>4
    <3> QED  BY <3>3, <3>4
  <2> QED  BY <2>2, <2>3
<1> HIDE DEF t
<1>9. InOrder'
  <2>1. \A i \in 1..Len(wire') : OfText(wire[i])' /\ Expected(i)' = After(wire[i])'
    BY <1>8 DEF OfText, After, First, Blank
  <2>2. 0 \in 0..Len(wire)
    BY <1>1
  <2>3. buf' = HeldLine(Expected(0)') /\ attrs' = HeldAttrs(Expected(0)')
    BY <1>1, <1>3, <1>7, <2>2 DEF InOrder, server
  <2>4. (buf = HeldLine(Expected(0)))' /\ (attrs = HeldAttrs(Expected(0)))'
    BY <2>3 DEF HeldLine, HeldAttrs, Known
  <2> QED  BY <1>2, <1>4, <2>1, <2>4 DEF InOrder
<1>10. Stored' <= total' + Excess' /\ IsFiniteSet(attrs')
  BY <1>3 DEF Ordered, Stored, Excess, server
<1>11. next' - 1 <= sent' /\ tries' < Tries
  BY <1>1, <1>2, <1>3 DEF Ordered
<1> QED  BY <1>3, <1>5, <1>9, <1>10, <1>11 DEF Ordered

LEMMA OrderKept == ASSUME InOrder, UNCHANGED <<wire, buf, attrs, sent>> PROVE InOrder'
<1>1. \A i : Expected(i)' = Expected(i)
  BY DEF Expected, First
<1> QED  BY <1>1 DEF InOrder, OfText, After, First, Blank, HeldLine, HeldAttrs, Known

LEMMA ReceiveStep == ASSUME Ordered, Receive PROVE Ordered'
<1> USE DEF Receive
<1>1. TypeOK /\ next \in Nat \ {0} /\ sent \in Nat /\ tries \in Nat /\ Len(Lines) \in Nat
      /\ Req = 1..Len(Lines) /\ Tries \in Nat \ {0}
  BY PositionsTyped DEF Ordered
<1>2. next <= sent /\ sent <= Len(Lines)
  BY <1>1 DEF Waiting, TypeOK
<1>3. TypeOK'
  <2>1. next' \in 1..(Len(Lines) + 1) /\ tries' \in 0..Tries
    BY <1>1, <1>2
  <2>2. outcome' \in [Req -> {"none", "reply", "default"}]
    BY <1>1 DEF TypeOK
  <2>3. inbox' \in Seq(Req)
    BY <1>1 DEF TypeOK
  <2> QED  BY <1>1, <2>1, <2>2, <2>3 DEF TypeOK, server, peers
<1>4. next' - 1 <= sent' /\ tries' < Tries
  BY <1>1, <1>2
<1>5. open' => InOrder'
  BY OrderKept DEF Ordered, server
<1>6. Stored' <= total' + Excess' /\ IsFiniteSet(attrs')
  BY DEF Ordered, Stored, Excess, server
<1> QED  BY <1>3, <1>4, <1>5, <1>6 DEF Ordered

LEMMA GiveUpStep == ASSUME Ordered, GiveUp PROVE Ordered'
<1> USE DEF GiveUp
<1>1. TypeOK /\ next \in Nat \ {0} /\ sent \in Nat /\ tries \in Nat /\ Len(Lines) \in Nat
      /\ Tries \in Nat \ {0} /\ tries < Tries
  BY PositionsTyped DEF Ordered
<1>2. /\ deciding' \subseteq Decision
      /\ \A d \in deciding' : ~d.live /\ d.attrs = Known(d.req, Lines[d.req])
  BY Orphans
<1>3. TypeOK'
  <2>1. tries' \in 0..Tries /\ sent' \in 0..Len(Lines)
    BY <1>1 DEF TypeOK
  <2>2. \A d \in deciding' : d.live \in BOOLEAN /\ d.req \in Req /\ d.attrs \subseteq Attr
    BY <1>2, DecisionsTyped
  <2> QED  BY <1>1, <2>1, <2>2 DEF TypeOK, server, peers
<1>4. next' - 1 <= sent' /\ ~open' /\ ~Waiting'
  BY <1>1 DEF Waiting
<1>5. Stored' <= total' + Excess' /\ IsFiniteSet(attrs')
  BY DEF Ordered, Stored, Excess, server
<1> QED  BY <1>2, <1>3, <1>4, <1>5 DEF Ordered

LEMMA DefaultActionStep == ASSUME Ordered, DefaultAction PROVE Ordered'
<1> USE DEF DefaultAction
<1>1. TypeOK /\ next \in Nat \ {0} /\ sent \in Nat /\ tries \in Nat /\ Len(Lines) \in Nat
      /\ Req = 1..Len(Lines) /\ Tries \in Nat \ {0}
  BY PositionsTyped DEF Ordered
<1>2. ~open
  BY <1>1 DEF Ordered
<1>3. TypeOK'
  <2>1. next' \in 1..(Len(Lines) + 1) /\ sent' \in 0..Len(Lines) /\ tries' \in 0..Tries
    BY <1>1
  <2>2. outcome' \in [Req -> {"none", "reply", "default"}]
    BY <1>1 DEF TypeOK
  <2> QED  BY <1>1, <2>1, <2>2 DEF TypeOK, server, peers
<1>4. next' - 1 <= sent' /\ ~open' /\ tries' < Tries
  BY <1>1, <1>2
<1>5. Stored' <= total' + Excess' /\ IsFiniteSet(attrs')
  BY DEF Ordered, Stored, Excess, server
<1> QED  BY <1>3, <1>4, <1>5 DEF Ordered

LEMMA DataStep == ASSUME Ordered, NEW n \in 1..Len(wire), Data(n) PROVE Ordered'
<1>1. TypeOK /\ next \in Nat \ {0} /\ sent \in Nat /\ tries \in Nat /\ Len(Lines) \in Nat
      /\ Req = 1..Len(Lines) /\ MaxUnits \in Nat \ {0} /\ Excess = MaxUnits - 1 /\ total \in Nat
  BY PositionsTyped DEF Ordered, Excess
<1>2. open /\ UNCHANGED <<used, inbox, client>> /\ tries < Tries
  BY DEF Data, Ordered
<1>3. CASE TooBig(n)
  <2>1. ~open' /\ deciding' = Orphaned /\ UNCHANGED <<wire, server>>
    BY <1>3 DEF Data
  <2>2. /\ deciding' \subseteq Decision
        /\ \A d \in deciding' : ~d.live /\ d.attrs = Known(d.req, Lines[d.req])
    BY <2>1, Orphans
  <2>3. TypeOK'
    <3>1. \A d \in deciding' : d.live \in BOOLEAN /\ d.req \in Req /\ d.attrs \subseteq Attr
      BY <2>2, DecisionsTyped
    <3>2. open' \in BOOLEAN
      BY <1>3 DEF Data
    <3> QED  BY <1>1, <1>2, <2>1, <3>1, <3>2 DEF TypeOK, server, client, peers
  <2>4. next' - 1 <= sent' /\ tries' < Tries
    BY <1>2 DEF Ordered, client
  <2>5. Stored' <= total' + Excess' /\ IsFiniteSet(attrs')
    BY <2>1 DEF Ordered, Stored, Excess, server
  <2> QED  BY <2>1, <2>2, <2>3, <2>4, <2>5 DEF Ordered
<1>4. CASE ~TooBig(n)
  <2> DEFINE r0 == Expected(0).req
             m == Expected(n).req - r0
             new == {[live |-> TRUE, req |-> r0 + (k - 1), attrs |-> Known(r0 + (k - 1), Lines[r0 + (k - 1)])] :
                       k \in 1..m}
  <2>1. /\ open' /\ InOrder /\ InOrder'
        /\ buf' = HeldLine(Expected(n)) /\ attrs' = HeldAttrs(Expected(n))
        /\ Stored = Weight(Expected(0)) /\ Stored' = Weight(Expected(n))
        /\ total' = IF Expected(n).req = Expected(0).req THEN total + n ELSE 0
        /\ deciding' = deciding \cup new
    BY <1>4, DataKept
  <2>2. n \in 0..Len(wire) /\ 0 \in 0..Len(wire) /\ n \in Nat /\ Len(wire) \in Nat /\ n # 0
    BY <2>1, ExpectedUnits
  <2>3. /\ Expected(n).req >= r0 /\ Expected(n).req \in Nat /\ r0 \in Nat
        /\ Expected(n).req <= Len(Lines) + 1
        /\ Weight(Expected(n)) \in Nat /\ Weight(Expected(0)) \in Nat
        /\ Weight(Expected(n)) <= IF Expected(n).req = r0 THEN Weight(Expected(0)) + n ELSE n - 1
        /\ buf' \in Seq(Unit) /\ attrs' \subseteq Attr /\ IsFiniteSet(attrs')
    BY <2>1, <2>2, ExpectedUnits, Rises
  <2>4. r0 \in Req
    <3>1. wire # << >>
      BY <2>2
    <3> QED  BY <2>1, <3>1, ExpectedUnits
  <2>5. total + n <= MaxUnits
    BY <1>1, <1>4, <2>2 DEF TooBig
  <2>6. Stored' <= total' + Excess /\ total' \in 0..MaxUnits
    <3> DEFINE w == Weight(Expected(n))
               w0 == Weight(Expected(0))
               r == Expected(n).req
    <3>1. w0 <= total + Excess
      BY <2>1 DEF Ordered
    <3>2. /\ w \in Nat /\ w0 \in Nat /\ w <= IF r = r0 THEN w0 + n ELSE n - 1
          /\ total' = IF r = r0 THEN total + n ELSE 0
      BY <2>1, <2>3
    <3>3. Stored' = w
      BY <2>1
    <3> HIDE DEF w, w0, r, r0
    <3> QED  BY <1>1, <2>2, <2>5, <3>1, <3>2, <3>3
  <2>7. ASSUME NEW d \in new PROVE d \in Decision /\ d.attrs = Known(d.req, Lines[d.req])
    <3> HIDE DEF r0
    <3>1. PICK k \in 1..m : d = [live |-> TRUE, req |-> r0 + (k - 1),
                                  attrs |-> Known(r0 + (k - 1), Lines[r0 + (k - 1)])]
      OBVIOUS
    <3> DEFINE r == r0 + (k - 1)
    <3>2. r \in Req
      <4> DEFINE top == Expected(n).req
      <4>1. /\ k \in 1..top - r0 /\ top \in Nat /\ r0 \in Nat /\ top <= Len(Lines) + 1
            /\ r0 \in 1..Len(Lines)
        BY <1>1, <2>3, <2>4, <3>1
      <4> HIDE DEF top
      <4>2. r \in 1..Len(Lines)
        BY LinesTyped, <4>1
      <4> QED  BY LinesTyped, <4>2
    <3>3. d = [live |-> TRUE, req |-> r, attrs |-> Known(r, Lines[r])]
      BY <3>1
    <3> HIDE DEF r, new
    <3>4. Known(r, Lines[r]) \subseteq Attr
      BY <3>2, LinesTyped, KnownSize
    <3> QED  BY <3>2, <3>3, <3>4 DEF Decision
  <2> HIDE DEF new
  <2>8. deciding' \subseteq Decision /\ \A d \in deciding' : d.attrs = Known(d.req, Lines[d.req])
    BY <2>1, <2>7 DEF Ordered
  <2>9. TypeOK'
    <3>1. \A d \in deciding' : d.live \in BOOLEAN /\ d.req \in Req /\ d.attrs \subseteq Attr
      BY <2>8, DecisionsTyped
    <3>2. open' \in BOOLEAN
      BY <1>1, <1>2, <1>4 DEF Data, TypeOK
    <3>3. wire' \in Seq(Unit)
      BY <2>1 DEF InOrder
    <3> QED  BY <1>1, <1>2, <2>3, <2>6, <3>1, <3>2, <3>3 DEF TypeOK, client, peers
  <2>10. next' - 1 <= sent' /\ tries' < Tries
    BY <1>2 DEF Ordered, client
  <2>11. Excess' = Excess
    BY DEF Excess
  <2> QED  BY <2>1, <2>3, <2>6, <2>8, <2>9, <2>10, <2>11 DEF Ordered
<1> QED  BY <1>3, <1>4

LEMMA ReplyStep == ASSUME Ordered, NEW d \in deciding, Reply(d) PROVE Ordered'
<1> USE DEF Reply
<1>1. deciding' \subseteq deciding /\ UNCHANGED <<open, used, wire, server, client>>
  OBVIOUS
<1>2. d.req \in Req /\ inbox \in Seq(Req) /\ TypeOK
  BY DEF Ordered, TypeOK
<1>3. inbox' \in Seq(Req)
  BY <1>2
<1> HIDE DEF Reply
<1>4. TypeOK'
  BY <1>1, <1>2, <1>3 DEF TypeOK, server, client, peers
<1>5. open' => InOrder'
  BY <1>1, OrderKept DEF Ordered, server, client
<1>6. Stored' <= total' + Excess' /\ IsFiniteSet(attrs')
  BY <1>1 DEF Ordered, Stored, Excess, server
<1>7. next' - 1 <= sent' /\ (open' \/ Waiting' => tries' < Tries)
  BY <1>1 DEF Ordered, Waiting, client
<1>8. deciding' \subseteq Decision /\ \A e \in deciding' : e.attrs = Known(e.req, Lines[e.req])
  BY <1>1 DEF Ordered
<1> QED  BY <1>4, <1>5, <1>6, <1>7, <1>8 DEF Ordered

LEMMA IdleTimeoutStep == ASSUME Ordered, IdleTimeout PROVE Ordered'
<1>1. UNCHANGED <<used, wire, server, deciding, inbox, client>> /\ ~open' /\ open /\ open' \in BOOLEAN
  BY DEF IdleTimeout
<1>2. TypeOK'
  BY <1>1 DEF Ordered, TypeOK, server, client, peers
<1> QED  BY <1>1, <1>2 DEF Ordered, Stored, Excess, Waiting, server, client

LEMMA UnchangedStep == ASSUME Ordered, UNCHANGED vars PROVE Ordered'
<1>1. open' => InOrder'
  BY OrderKept DEF Ordered, vars
<1>2. TypeOK'
  BY DEF Ordered, TypeOK, vars
<1> QED  BY <1>1, <1>2 DEF Ordered, Stored, Excess, Waiting, vars

LEMMA OrderedGoesOn == Ordered /\ [Next]_vars => Ordered'
<1> SUFFICES ASSUME Ordered, [Next]_vars PROVE Ordered'
  OBVIOUS
<1>1. CASE Connect \/ Write \/ Receive \/ GiveUp \/ DefaultAction \/ IdleTimeout
  BY <1>1, ConnectStep, WriteStep, ReceiveStep, GiveUpStep, DefaultActionStep, IdleTimeoutStep
<1>2. CASE \E n \in 1..Len(wire) : Data(n)
  BY <1>2, DataStep
<1>3. CASE \E d \in deciding : Reply(d)
  BY <1>3, ReplyStep
<1>4. CASE Finished \/ UNCHANGED vars
  BY <1>4, UnchangedStep DEF Finished
<1> QED  BY <1>1, <1>2, <1>3, <1>4 DEF Next

(* However the requests are cut into chunks, one chunk with parts of       *)
(* several among them, and whatever was on the connection before: each is  *)
(* decided on with all of its attributes and no others, for any client.    *)
THEOREM EachDecidedOnItsOwn == Spec => []DecidesOnTheRequest
<1>1. Ordered => DecidesOnTheRequest
  BY DEF Ordered, DecidesOnTheRequest, Known
<1> QED
  BY <1>1, OrderedStarts, OrderedGoesOn, PTL DEF Spec

-----------------------------------------------------------------------------
(***************************************************************************)
(* A connection of Postfix, which sends one request at a time: one thing   *)
(* is under way, the text, its decision or the reply.                      *)
(***************************************************************************)
InStep ==
  /\ Len(wire) <= Size(sent)
  /\ \A i \in 1..Len(wire) : wire[i].req = sent /\ (wire[i].line = 0 <=> i = Len(wire))
  /\ total = IF wire = << >> THEN 0 ELSE Size(sent) - Len(wire)
  /\ Stored <= total
  /\ wire # << >> => sent = next /\ inbox = << >>
  /\ inbox # << >> => inbox = <<next>> /\ sent = next

Conversation ==
  /\ sent <= next
  /\ Stored <= MaxUnits
  /\ \A d \in deciding : d.live => open /\ d.req = next /\ sent = next /\ wire = << >> /\ inbox = << >>
  /\ open => InStep

Polite == Ordered /\ (ahead = 1 => Conversation)

LEMMA StoredTyped == ASSUME Ordered PROVE Stored \in Nat
<1>1. IsFiniteSet(attrs) /\ buf \in Seq(Unit)
  BY DEF Ordered, TypeOK
<1>2. Cardinality(attrs) \in Nat /\ Len(buf) \in Nat
  BY <1>1, FS_CardinalityType
<1> DEFINE c == Cardinality(attrs)
           l == Len(buf)
<1>3. c \in Nat /\ l \in Nat /\ Stored = l + 2 * c
  BY <1>2 DEF Stored
<1> HIDE DEF c, l
<1> QED  BY <1>3

LEMMA StepKept == ASSUME InStep, UNCHANGED <<wire, buf, attrs, total, sent, next, inbox>> PROVE InStep'
BY DEF InStep, Stored, Size

LEMMA ConversationStarts == Init => Conversation
<1> SUFFICES ASSUME Init PROVE Conversation
  OBVIOUS
<1>1. Cardinality({}) = 0 /\ Len(<< >>) = 0 /\ MaxUnits \in Nat
  BY FS_EmptySet, PolicyTcpAssumption
<1> QED  BY <1>1 DEF Init, Conversation, Stored

LEMMA ConnectTogether == ASSUME Ordered, Conversation, Connect PROVE Conversation'
<1>1. TypeOK /\ next \in Nat \ {0} /\ MaxUnits \in Nat \ {0}
  BY PositionsTyped DEF Ordered
<1>2. /\ next \in Req /\ wire' = Text(next) /\ sent' = next /\ next' = next /\ ~open
      /\ buf' = << >> /\ attrs' = {} /\ total' = 0 /\ inbox' = << >> /\ deciding' = deciding
      /\ Len(Text(next)) = Size(next) /\ Size(next) \in Nat \ {0}
  BY TextUnits, LinesTyped DEF Connect
<1>3. Stored' = 0
  <2>1. Cardinality({}) = 0 /\ Len(<< >>) = 0
    BY FS_EmptySet
  <2> QED  BY <1>2, <2>1 DEF Stored
<1>4. \A d \in deciding' : ~d.live
  BY <1>2 DEF Conversation
<1>5. InStep'
  <2>1. \A i \in 1..Len(wire') : wire'[i].req = sent' /\ (wire'[i].line = 0 <=> i = Len(wire'))
    BY <1>2, TextInOrder
  <2>2. Size(sent)' = Size(next)
    BY <1>2 DEF Size
  <2> QED  BY <1>2, <1>3, <2>1, <2>2 DEF InStep
<1> QED  BY <1>1, <1>2, <1>3, <1>4, <1>5 DEF Conversation

LEMMA WriteTogether == ASSUME Ordered, Conversation, ahead = 1, Write PROVE Conversation'
<1>1. TypeOK /\ next \in Nat \ {0} /\ sent \in Nat
  BY PositionsTyped DEF Ordered
<1>2. sent + 1 = next /\ next \in Req /\ open /\ open' = open /\ sent' = next /\ next' = next
      /\ wire' = wire \o Text(next) /\ UNCHANGED <<server, inbox, deciding>>
  BY <1>1 DEF Write, Ordered, Conversation
<1>3. wire = << >> /\ inbox = << >> /\ \A d \in deciding : ~d.live
  BY <1>1, <1>2 DEF Conversation, InStep
<1>4. Text(next) \in Seq(Unit) /\ Len(Text(next)) = Size(next) /\ Size(next) \in Nat \ {0}
  BY <1>2, TextUnits, LinesTyped
<1>5. wire' = Text(next)
  BY <1>2, <1>3, <1>4, ConcatEmptySeq
<1>6. Stored' = Stored /\ Stored <= total /\ total = 0
  BY <1>2, <1>3 DEF Stored, server, Conversation, InStep
<1>7. InStep'
  <2>1. \A i \in 1..Len(wire') : wire'[i].req = sent' /\ (wire'[i].line = 0 <=> i = Len(wire'))
    BY <1>2, <1>4, <1>5, TextInOrder
  <2>2. Size(sent)' = Size(next)
    BY <1>2 DEF Size
  <2> QED  BY <1>2, <1>3, <1>4, <1>5, <1>6, <2>1, <2>2 DEF InStep, server
<1> QED  BY <1>1, <1>2, <1>3, <1>6, <1>7 DEF Conversation

LEMMA ReceiveTogether == ASSUME Ordered, Conversation, Receive PROVE Conversation'
<1>1. next \in Nat \ {0} /\ sent \in Nat
  BY PositionsTyped DEF Ordered
<1>2. /\ open /\ inbox # << >> /\ inbox' = Tail(inbox) /\ next' = next + 1
      /\ UNCHANGED <<open, wire, server, deciding, sent>>
  BY DEF Receive
<1>3. inbox = <<next>> /\ sent = next /\ wire = << >> /\ InStep
  BY <1>2 DEF Conversation, InStep
<1>4. inbox' = << >>
  BY <1>2, <1>3
<1>5. \A d \in deciding' : ~d.live
  BY <1>2 DEF Conversation
<1>6. Stored' = Stored
  BY <1>2 DEF Stored, server
<1>7. InStep'
  BY <1>2, <1>3, <1>4, <1>6 DEF InStep, Size, server
<1> QED  BY <1>1, <1>2, <1>3, <1>5, <1>6, <1>7 DEF Conversation

LEMMA GiveUpTogether == ASSUME Ordered, Conversation, GiveUp PROVE Conversation'
<1>1. next \in Nat \ {0}
  BY PositionsTyped DEF Ordered
<1>2. ~open' /\ deciding' = Orphaned /\ sent' = next - 1 /\ next' = next /\ UNCHANGED server
  BY DEF GiveUp
<1>3. \A d \in deciding' : ~d.live
  BY <1>2, Orphans
<1>4. Stored' = Stored
  BY <1>2 DEF Stored, server
<1> QED  BY <1>1, <1>2, <1>3, <1>4 DEF Conversation

LEMMA DefaultActionTogether == ASSUME Ordered, Conversation, DefaultAction PROVE Conversation'
<1>1. next \in Nat \ {0} /\ tries \in Nat /\ Tries \in Nat
  BY PositionsTyped DEF Ordered
<1>2. ~open /\ ~open' /\ sent' = next /\ next' = next + 1 /\ UNCHANGED <<server, deciding>>
  BY <1>1 DEF DefaultAction, Ordered
<1>3. Stored' = Stored
  BY <1>2 DEF Stored, server
<1> QED  BY <1>1, <1>2, <1>3 DEF Conversation

LEMMA DataTogether ==
  ASSUME Ordered, Ordered', Conversation, NEW n \in 1..Len(wire), Data(n)
  PROVE  Conversation'
<1>1. open /\ InStep /\ InOrder /\ UNCHANGED <<inbox, client>> /\ Len(wire) \in Nat /\ total \in Nat
      /\ MaxUnits \in Nat /\ sent \in Req
  BY PositionsTyped, ExpectedUnits DEF Data, Ordered, Conversation, InOrder
<1>2. wire # << >> /\ sent = next /\ inbox = << >> /\ \A d \in deciding : ~d.live
  BY <1>1 DEF InStep, Conversation
<1>3. next' = next /\ sent' = sent /\ Size(sent)' = Size(sent) /\ Size(sent) \in Nat
  BY <1>1, LinesTyped DEF client, Size
<1>4. CASE TooBig(n)
  <2>1. ~open' /\ deciding' = Orphaned /\ UNCHANGED server
    BY <1>4 DEF Data
  <2>2. \A d \in deciding' : ~d.live
    BY <2>1, Orphans
  <2>3. Stored' = Stored
    BY <2>1 DEF Stored, server
  <2> QED  BY <1>3, <2>1, <2>2, <2>3 DEF Conversation
<1>5. CASE ~TooBig(n)
  <2> DEFINE r0 == Expected(0).req
             new == {[live |-> TRUE, req |-> r0 + (k - 1), attrs |-> Known(r0 + (k - 1), Lines[r0 + (k - 1)])] :
                       k \in 1..Expected(n).req - r0}
  <2>1. /\ open' /\ Len(wire') = Len(wire) - n /\ \A i \in 1..Len(wire') : wire'[i] = wire[n + i]
        /\ Stored = Weight(Expected(0)) /\ Stored' = Weight(Expected(n))
        /\ total' = IF Expected(n).req = r0 THEN total + n ELSE 0
        /\ deciding' = deciding \cup new
    BY <1>5, DataKept
  <2>2. n \in 0..Len(wire) /\ n \in Nat /\ total + n <= MaxUnits /\ wire' \in Seq(Unit) /\ n <= Len(wire)
    BY <1>1, <1>5 DEF TooBig, Ordered, TypeOK
  <2>3. r0 = sent
    <3>1. 1 \in 1..Len(wire) /\ 0 < Len(wire)
      BY <1>1
    <3> QED  BY <1>1, <3>1 DEF Expected, InStep
  <2>4. total = Size(sent) - Len(wire) /\ Stored <= total
    BY <1>1, <1>2 DEF InStep
  <2>5. ASSUME NEW i \in 1..Len(wire')
        PROVE  wire'[i].req = sent' /\ (wire'[i].line = 0 <=> i = Len(wire'))
    <3>1. n + i \in 1..Len(wire) /\ (n + i = Len(wire) <=> i = Len(wire'))
      BY <1>1, <2>1, <2>2
    <3> QED  BY <1>1, <1>3, <2>1, <3>1 DEF InStep
  <2>6. CASE n < Len(wire)
    <3>1. Expected(n).req = sent
      <4>1. n + 1 \in 1..Len(wire)
        BY <1>1, <2>2, <2>6
      <4> QED  BY <1>1, <2>6, <4>1 DEF Expected, InStep
    <3>2. new = {}
      <4>1. sent \in Nat
        BY <1>1, LinesTyped
      <4>2. 1..Expected(n).req - r0 = {}
        BY <2>3, <3>1, <4>1
      <4> QED  BY <4>2
    <3>3. total' = total + n /\ Stored' <= Stored + n
      BY <1>1, <2>1, <2>2, <2>3, <3>1, Rises
    <3>4. Stored \in Nat /\ Stored' \in Nat
      <4>1. Stored \in Nat
        BY StoredTyped
      <4>2. Weight(Expected(n)) \in Nat
        BY <1>1, <2>2, ExpectedUnits
      <4> QED  BY <2>1, <4>1, <4>2
    <3>5. Stored' <= total' /\ Stored' <= MaxUnits
      BY <1>1, <2>2, <2>4, <3>3, <3>4
    <3>6. Len(wire') # 0 /\ total' = Size(sent) - Len(wire') /\ Len(wire') <= Size(sent)
      BY <1>1, <1>3, <2>1, <2>2, <2>4, <2>6, <3>3 DEF InStep
    <3>7. wire' # << >>
      BY <3>6
    <3> HIDE DEF new
    <3>8. \A d \in deciding' : ~d.live
      BY <1>2, <2>1, <3>2
    <3>9. InStep'
      BY <1>1, <1>2, <1>3, <2>5, <3>5, <3>6, <3>7 DEF InStep
    <3> QED  BY <1>2, <1>3, <2>1, <3>5, <3>8, <3>9, LinesTyped, <1>1 DEF Conversation
  <2>7. CASE ~(n < Len(wire))
    <3>1. n = Len(wire) /\ Len(wire') = 0 /\ Expected(n) = First(sent + 1)
      BY <1>1, <2>1, <2>2, <2>7 DEF Expected
    <3>2. wire' = << >>
      BY <2>2, <3>1
    <3>3. sent \in Nat /\ Expected(n).req = sent + 1
      BY <1>1, <3>1, LinesTyped DEF First
    <3>4. total' = 0 /\ Stored' = 0
      BY <2>1, <2>3, <3>1, <3>3, HeldFirst
    <3>5. ASSUME NEW d \in new PROVE d.req = sent
      <4> HIDE DEF r0
      <4>1. PICK k \in 1..Expected(n).req - r0 :
              d = [live |-> TRUE, req |-> r0 + (k - 1), attrs |-> Known(r0 + (k - 1), Lines[r0 + (k - 1)])]
        OBVIOUS
      <4>2. k \in 1..1
        <5>1. Expected(n).req - r0 = 1
          BY <2>3, <3>3
        <5> QED  BY <4>1, <5>1
      <4>3. r0 + (k - 1) = sent
        BY <2>3, <3>3, <4>2
      <4>4. d.req = r0 + (k - 1)
        BY <4>1
      <4> QED  BY <4>3, <4>4
    <3> HIDE DEF new
    <3>6. \A d \in deciding' : d.live => d.req = sent
      BY <1>2, <2>1, <3>5
    <3>7. InStep'
      BY <1>1, <1>2, <1>3, <2>5, <3>1, <3>2, <3>4 DEF InStep
    <3> QED  BY <1>1, <1>2, <1>3, <2>1, <3>2, <3>3, <3>4, <3>6, <3>7 DEF Conversation
  <2> QED  BY <2>6, <2>7
<1> QED  BY <1>4, <1>5

LEMMA ReplyTogether == ASSUME Ordered, Conversation, NEW d \in deciding, Reply(d) PROVE Conversation'
<1>1. /\ deciding' = deciding \ {d} /\ inbox' = IF d.live THEN Append(inbox, d.req) ELSE inbox
      /\ UNCHANGED <<open, wire, server, client>>
  BY DEF Reply
<1>2. next' = next /\ sent' = sent /\ Stored' = Stored
  BY <1>1 DEF client, server, Stored
<1>3. CASE ~d.live
  <2>1. inbox' = inbox
    BY <1>1, <1>3
  <2>2. open' => InStep'
    BY <1>1, <2>1, StepKept DEF Conversation, server, client
  <2> QED  BY <1>1, <1>2, <2>1, <2>2 DEF Conversation
<1>4. CASE d.live
  <2>1. /\ open /\ d.req = next /\ sent = next /\ wire = << >> /\ inbox = << >> /\ InStep
        /\ d \in Decision /\ d.attrs = Known(d.req, Lines[d.req])
    BY <1>4 DEF Conversation, Ordered
  <2>2. inbox' = <<next>>
    <3>1. Append(<< >>, next) = <<next>>
      OBVIOUS
    <3> QED  BY <1>1, <1>4, <2>1, <3>1
  <2>3. ASSUME NEW e \in deciding', e.live PROVE FALSE
    <3>1. e \in deciding /\ e # d
      BY <1>1, <2>3
    <3>2. e \in Decision /\ e.attrs = Known(e.req, Lines[e.req]) /\ e.req = next
      BY <2>3, <3>1 DEF Conversation, Ordered
    <3>3. e.live = TRUE /\ d.live = TRUE
      BY <1>4, <2>1, <2>3, <3>2 DEF Decision
    <3> QED  BY <2>1, <3>1, <3>2, <3>3 DEF Decision
  <2>4. InStep'
    <3>1. wire' = wire /\ total' = total /\ Size(sent)' = Size(sent)
      BY <1>1, <1>2 DEF server, Size
    <3> QED  BY <1>2, <2>1, <2>2, <3>1 DEF InStep
  <2> QED  BY <1>1, <1>2, <2>3, <2>4 DEF Conversation
<1> QED  BY <1>3, <1>4

LEMMA RestTogether ==
  ASSUME Ordered, Conversation, IdleTimeout \/ UNCHANGED vars
  PROVE  Conversation'
<1>1. CASE IdleTimeout
  <2>1. ~open' /\ (\A d \in deciding' : ~d.live) /\ UNCHANGED <<server, client>>
    BY <1>1 DEF IdleTimeout
  <2> QED  BY <2>1 DEF Conversation, Stored, server, client
<1>2. CASE UNCHANGED vars
  <2>1. open' => InStep'
    BY <1>2, StepKept DEF Conversation, vars
  <2> QED  BY <1>2, <2>1 DEF Conversation, Stored, vars
<1> QED  BY <1>1, <1>2

LEMMA PoliteGoesOn == Polite /\ [Next]_vars => Polite'
<1> SUFFICES ASSUME Polite, [Next]_vars PROVE Polite'
  OBVIOUS
<1>1. Ordered /\ Ordered'
  BY OrderedGoesOn DEF Polite
<1>2. ahead' = ahead
  BY DEF Next, Connect, Write, Receive, GiveUp, DefaultAction, IdleTimeout, Data, Reply, Finished,
         vars, client, peers
<1> SUFFICES ASSUME ahead = 1 PROVE Conversation'
  BY <1>1, <1>2 DEF Polite
<1>3. Conversation
  BY DEF Polite
<1>4. CASE Connect \/ Write \/ Receive \/ GiveUp \/ DefaultAction
  BY <1>1, <1>3, <1>4, ConnectTogether, WriteTogether, ReceiveTogether, GiveUpTogether,
     DefaultActionTogether
<1>5. CASE \E n \in 1..Len(wire) : Data(n)
  BY <1>1, <1>3, <1>5, DataTogether
<1>6. CASE \E d \in deciding : Reply(d)
  BY <1>1, <1>3, <1>6, ReplyTogether
<1>7. CASE IdleTimeout \/ Finished \/ UNCHANGED vars
  BY <1>1, <1>3, <1>7, RestTogether DEF Finished
<1> QED  BY <1>4, <1>5, <1>6, <1>7 DEF Next

LEMMA PoliteStarts == Init => Polite
BY OrderedStarts, ConversationStarts DEF Polite

-----------------------------------------------------------------------------
(* Whatever a client sends, in whatever chunks, the server keeps less than *)
(* twice MAX_REQUEST_BYTES of it; of a client that sends one request at a  *)
(* time, no more than MAX_REQUEST_BYTES.  Every variable keeps its type.   *)
THEOREM BuffersAreBounded == Spec => [](TypeOK /\ BufferingBounded)
<1>1. Polite => TypeOK /\ BufferingBounded
  <2> SUFFICES ASSUME Polite PROVE TypeOK /\ BufferingBounded
    OBVIOUS
  <2>1. /\ TypeOK /\ Stored <= total + Excess /\ Stored \in Nat /\ total \in 0..MaxUnits
        /\ MaxUnits \in Nat \ {0} /\ Excess = MaxUnits - 1
    BY StoredTyped, PositionsTyped DEF Polite, Ordered, Excess, TypeOK
  <2>2. Stored <= 2 * MaxUnits - 1
    BY <2>1
  <2> QED  BY <2>1, <2>2 DEF BufferingBounded, Polite, Conversation
<1> QED
  BY <1>1, PoliteStarts, PoliteGoesOn, PTL DEF Spec

(* A reply is read as the reply to the request it was written for, by a    *)
(* client that sends one request at a time.                                *)
THEOREM RepliesAreTheirs == Spec => []RepliesMatch
<1>1. Polite => RepliesMatch
  <2> SUFFICES ASSUME Polite, ahead = 1, open, NEW i \in DOMAIN inbox PROVE inbox[i] = next + i - 1
    BY DEF RepliesMatch
  <2>1. inbox = <<next>> /\ next \in Nat
    BY PositionsTyped DEF Polite, Ordered, Conversation, InStep
  <2> QED  BY <2>1
<1> QED
  BY <1>1, PoliteStarts, PoliteGoesOn, PTL DEF Spec

(* Only a request that is too big by itself has its connection cut off,    *)
(* however many the connection has carried before, if its client sends one *)
(* at a time.                                                              *)
THEOREM CountIsPerRequest == Spec => OnlyBigRequestsCutOff
<1>1. Polite /\ [Next]_vars =>
        [ahead = 1 /\ (\E n \in 1..Len(wire) : Data(n)) /\ ~open' => Size(next) > MaxUnits]_vars
  <2> SUFFICES ASSUME Polite, ahead = 1, NEW n \in 1..Len(wire), Data(n), ~open'
               PROVE  Size(next) > MaxUnits
    OBVIOUS
  <2>1. open /\ TooBig(n)
    BY DEF Data
  <2>2. InOrder /\ InStep
    BY <2>1 DEF Polite, Ordered, Conversation
  <2>3. /\ Len(wire) \in Nat /\ n \in Nat /\ n <= Len(wire) /\ wire # << >> /\ MaxUnits \in Nat
        /\ Size(sent) \in Nat
    <3>1. wire \in Seq(Unit) /\ sent \in Req
      BY <2>2 DEF InOrder
    <3>2. Len(wire) \in Nat /\ (wire = << >> => Len(wire) = 0)
      BY <3>1
    <3>3. MaxUnits \in Nat /\ Size(sent) \in Nat
      BY <3>1, LinesTyped, PolicyTcpAssumption
    <3> QED  BY <3>2, <3>3
  <2>4. sent = next /\ total = Size(sent) - Len(wire)
    BY <2>2, <2>3 DEF InStep
  <2>5. total + n > MaxUnits
    BY <2>1 DEF TooBig
  <2> QED  BY <2>3, <2>4, <2>5
<1> QED
  BY <1>1, PoliteStarts, PoliteGoesOn, PTL DEF Spec, OnlyBigRequestsCutOff
=============================================================================
