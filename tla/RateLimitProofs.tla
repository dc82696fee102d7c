--------------------------- MODULE RateLimitProofs ---------------------------
(* Theorems about RateLimit, for every value of its constants.             *)
EXTENDS RateLimit, TLAPS

(* A request waits for its reply no longer than the model's clock          *)
(* assumptions allow.                                                      *)
InTime ==
  \A c \in Conn : Pending(c) => /\ msg[c].at <= clock + MaxAhead
                                /\ clock <= msg[c].at + MaxLag

(* The TTL of a live counter was set by a request of its own bucket.       *)
ExpiryBounds ==
  \A k \in Key : cnt[k] > 0 =>
    /\ clock < expiry[k]
    /\ BucketEnd(k) + Grace[k.window] - MaxAhead <= expiry[k]
    /\ expiry[k] <= BucketEnd(k) + Grace[k.window] + MaxLag

PassedWasCharged == \A k \in Key : passed[k] <= tally[k]

IInv == TypeOK /\ InTime /\ ExpiryBounds /\ NothingForgotten /\ PassedWasCharged

-----------------------------------------------------------------------------
(* A bucket starts at or before the second it holds and ends after it, and *)
(* the TTL counts the seconds to its end plus the grace.                   *)
LEMMA BucketLemma ==
  ASSUME NEW w \in Window, NEW t \in Time
  PROVE  /\ BucketStart(w, t) \in Int
         /\ BucketTtl(w, t) \in Nat
         /\ BucketStart(w, t) <= t
         /\ t < BucketStart(w, t) + Len[w]
         /\ BucketTtl(w, t) = BucketStart(w, t) + Len[w] - t + Grace[w]
<1>1. t \in Nat /\ Len[w] \in Nat \ {0} /\ Grace[w] \in Nat
  BY WindowAssumption, ClockAssumption DEF Time
<1>2. t % Len[w] \in Int /\ 0 <= t % Len[w] /\ t % Len[w] < Len[w]
  BY <1>1
<1> QED  BY <1>1, <1>2 DEF BucketStart, BucketTtl

(* The parts of a counter key.                                             *)
LEMMA KeyLemma ==
  ASSUME NEW k \in Key
  PROVE  /\ k.window \in Window
         /\ k.start \in Nat
         /\ BucketEnd(k) \in Nat
         /\ Grace[k.window] \in Nat
         /\ MaxAhead + MaxLag <= Grace[k.window]
<1>1. k.window \in Window /\ k.start \in Nat
  BY ClockAssumption DEF Key, Window, Time
<1> QED  BY <1>1, WindowAssumption, GraceCoversSkew DEF BucketEnd

(* What the script is given for a message: a positive increment and, for   *)
(* each key of the message, a limit.                                       *)
LEMMA ChargeLemma ==
  ASSUME NEW m \in Message
  PROVE  /\ ChargeOf(m).inc = Inc(m)
         /\ DOMAIN ChargeOf(m).limit = Specs(m)
         /\ \A k \in Specs(m) : ChargeOf(m).limit[k] = LimitOf(m, k)
         /\ Inc(m) \in Nat /\ Inc(m) > 0
         /\ m.at \in Time
         /\ Specs(m) \subseteq Key
<1>1. m.rcpt \in Nat /\ m.rcpt > 0 /\ m.at \in Time
  <2>1. \A n \in Rcpts : n \in Nat /\ n > 0  BY InputAssumption
  <2>2. m.rcpt \in Rcpts /\ m.at \in Time  BY DEF Message
  <2> QED  BY <2>1, <2>2
<1>2. Inc(m) \in Nat /\ Inc(m) > 0
  BY <1>1 DEF Inc
<1> QED  BY <1>1, <1>2 DEF ChargeOf, Specs

(* A limit that is enforced is a number.                                   *)
LEMMA LimitLemma ==
  ASSUME NEW m \in Message, NEW k \in Key
  PROVE  LimitOf(m, k) \in Nat
<1>1. /\ m.limits.email \in [EmailWindow -> Nat]
      /\ m.limits.domain \in [DomainWindow -> Nat]
  <2>1. Profiles \subseteq [email: [EmailWindow -> Nat], domain: [DomainWindow -> Nat]]
    BY InputAssumption
  <2>2. m.limits \in Profiles  BY DEF Message
  <2> QED  BY <2>1, <2>2
<1>2. CASE k.scope = "email"
  <2>1. k.window \in EmailWindow  BY <1>2 DEF Key
  <2> QED  BY <1>1, <1>2, <2>1 DEF LimitOf
<1>3. CASE k.scope # "email"
  <2>1. k.window \in DomainWindow  BY <1>3 DEF Key
  <2> QED  BY <1>1, <1>3, <2>1 DEF LimitOf
<1> QED  BY <1>2, <1>3

(* A key of a message names the bucket that holds the message's `now`.     *)
LEMMA SpecsLemma ==
  ASSUME NEW m \in Message, NEW k \in Specs(m)
  PROVE  /\ k.start <= m.at
         /\ m.at < BucketEnd(k)
         /\ BucketTtl(k.window, m.at) \in Nat
         /\ BucketTtl(k.window, m.at) = BucketEnd(k) - m.at + Grace[k.window]
<1>1. k \in Key /\ k.start = BucketStart(k.window, m.at)
  BY DEF Specs
<1>2. m.at \in Time  BY ChargeLemma
<1>3. k.window \in Window  BY <1>1, KeyLemma
<1>4. Len[k.window] \in Nat /\ Grace[k.window] \in Nat /\ k.start \in Nat /\ m.at \in Nat
  BY <1>1, <1>2, <1>3, KeyLemma, WindowAssumption, ClockAssumption DEF Time
<1>5. /\ k.start <= m.at
      /\ m.at < k.start + Len[k.window]
      /\ BucketTtl(k.window, m.at) \in Nat
      /\ BucketTtl(k.window, m.at) = k.start + Len[k.window] - m.at + Grace[k.window]
  BY <1>1, <1>2, <1>3, BucketLemma
<1> QED  BY <1>4, <1>5 DEF BucketEnd

(* While the script of m may still run, its buckets can still be charged.  *)
LEMMA ChargeableLemma ==
  ASSUME NEW m \in Message, NEW k \in Specs(m), clock \in Time,
         clock <= m.at + MaxLag
  PROVE  clock < BucketEnd(k) + MaxLag
<1>1. k \in Key /\ m.at \in Nat /\ clock \in Nat /\ MaxLag \in Nat
  BY ChargeLemma, ClockAssumption DEF Time, Specs
<1>2. BucketEnd(k) \in Nat  BY <1>1, KeyLemma
<1>3. m.at < BucketEnd(k)  BY SpecsLemma
<1> QED  BY <1>1, <1>2, <1>3

(* The effect of the script on every part of the invariant that speaks of  *)
(* counters.                                                               *)
LEMMA ScriptLemma ==
  ASSUME TypeOK, ExpiryBounds, NothingForgotten,
         NEW m \in Message, RunScript(m), clock' = clock,
         m.at <= clock + MaxAhead, clock <= m.at + MaxLag
  PROVE  /\ cnt' \in [Key -> Nat] /\ expiry' \in [Key -> Nat]
         /\ tally' \in [Key -> Nat]
         /\ ExpiryBounds' /\ NothingForgotten'
         /\ \A k \in Key : tally[k] <= tally'[k]
         /\ \A k \in Specs(m) : tally'[k] = tally[k] + Inc(m)
                              /\ tally'[k] <= LimitOf(m, k)
<1> DEFINE ch == ChargeOf(m)
<1>1. /\ clock \in Nat /\ MaxAhead \in Nat /\ MaxLag \in Nat
      /\ cnt \in [Key -> Nat] /\ expiry \in [Key -> Nat] /\ tally \in [Key -> Nat]
  BY ClockAssumption DEF TypeOK, Time
<1>2. /\ DOMAIN ch.limit = Specs(m) /\ ch.inc = Inc(m)
      /\ Inc(m) \in Nat /\ Inc(m) > 0 /\ Specs(m) \subseteq Key /\ m.at \in Nat
  BY ChargeLemma DEF Time
<1>3. /\ cnt' = [k \in Key |-> IF k \in Specs(m) THEN cnt[k] + Inc(m) ELSE cnt[k]]
      /\ tally' = [k \in Key |-> IF k \in Specs(m) THEN tally[k] + Inc(m) ELSE tally[k]]
      /\ expiry' = [k \in Key |-> IF k \in Specs(m) /\ cnt[k] + Inc(m) = Inc(m)
                                    THEN clock + BucketTtl(k.window, m.at) ELSE expiry[k]]
  BY <1>2 DEF RunScript, Added, ExpiryAfter
<1>4. \A k \in Specs(m) : /\ BucketTtl(k.window, m.at) \in Nat
                          /\ BucketTtl(k.window, m.at) = BucketEnd(k) - m.at + Grace[k.window]
                          /\ m.at < BucketEnd(k)
                          /\ clock < BucketEnd(k) + MaxLag
  BY <1>2, SpecsLemma, ChargeableLemma DEF TypeOK
<1>5. \A k \in Key : BucketEnd(k) \in Nat /\ Grace[k.window] \in Nat
  BY KeyLemma
<1>6. cnt' \in [Key -> Nat] /\ expiry' \in [Key -> Nat] /\ tally' \in [Key -> Nat]
  BY <1>1, <1>2, <1>3, <1>4
<1>7. ExpiryBounds'
  <2> SUFFICES ASSUME NEW k \in Key, cnt'[k] > 0
               PROVE  /\ clock < expiry'[k]
                      /\ BucketEnd(k) + Grace[k.window] - MaxAhead <= expiry'[k]
                      /\ expiry'[k] <= BucketEnd(k) + Grace[k.window] + MaxLag
    BY DEF ExpiryBounds, BucketEnd
  <2>1. CASE k \in Specs(m) /\ cnt[k] = 0
    <3>1. expiry'[k] = clock + (BucketEnd(k) - m.at + Grace[k.window])
      BY <1>1, <1>2, <1>3, <1>4, <2>1
    <3> QED  BY <1>1, <1>2, <1>4, <1>5, <2>1, <3>1
  <2>2. CASE ~(k \in Specs(m) /\ cnt[k] = 0)
    <3>1. cnt[k] > 0 /\ expiry'[k] = expiry[k]
      BY <1>1, <1>2, <1>3, <2>2
    <3> QED  BY <3>1 DEF ExpiryBounds
  <2> QED  BY <2>1, <2>2
<1>8. NothingForgotten'
  BY <1>1, <1>2, <1>3 DEF NothingForgotten, BucketEnd
<1>9. ASSUME NEW k \in Specs(m)
      PROVE  tally'[k] = tally[k] + Inc(m) /\ tally'[k] <= LimitOf(m, k)
  <2>1. cnt[k] = tally[k]  BY <1>2, <1>4 DEF NothingForgotten
  <2>2. cnt[k] + Inc(m) <= LimitOf(m, k)
    BY <1>2, ChargeLemma DEF RunScript, Fits
  <2> QED  BY <1>2, <1>3, <2>1, <2>2
<1>10. \A k \in Key : tally[k] <= tally'[k]
  BY <1>1, <1>2, <1>3
<1> QED  BY <1>6, <1>7, <1>8, <1>9, <1>10

-----------------------------------------------------------------------------
LEMMA InitInv == Init => IInv
<1> SUFFICES ASSUME Init PROVE IInv
  OBVIOUS
<1>1. TypeOK
  BY ClockAssumption DEF Init, TypeOK, Time
<1> QED
  BY <1>1 DEF Init, IInv, InTime, Pending, ExpiryBounds, NothingForgotten, PassedWasCharged

(* A verdict leaves nothing in flight for its call and nothing changed for *)
(* the others.                                                             *)
LEMMA ReturnLemma ==
  ASSUME TypeOK, InTime, NEW c \in Conn, Return(c), clock' = clock
  PROVE  /\ InTime'
         /\ msg' \in [Conn -> Message \cup {NoMessage}]
         /\ resent' \in [Conn -> 0..MaxResends]
         /\ charged' \in [Conn -> BOOLEAN]
<1>1. \A d \in Conn : Pending(d)' => Pending(d) /\ msg'[d] = msg[d]
  BY DEF Return, TypeOK, Pending
<1>2. InTime'  BY <1>1 DEF InTime
<1>3. msg' \in [Conn -> Message \cup {NoMessage}]
  BY DEF Return, TypeOK
<1>4. resent' \in [Conn -> 0..MaxResends]
  BY ClockAssumption DEF Return, TypeOK
<1>5. charged' \in [Conn -> BOOLEAN]
  BY DEF Return, TypeOK
<1> QED  BY <1>2, <1>3, <1>4, <1>5

(* A pending request is a message whose script still runs in time.         *)
LEMMA PendingLemma ==
  ASSUME TypeOK, InTime, NEW c \in Conn, Pending(c)
  PROVE  /\ msg[c] \in Message
         /\ msg[c].at <= clock + MaxAhead
         /\ clock <= msg[c].at + MaxLag
BY DEF TypeOK, InTime, Pending

LEMMA NextInv == IInv /\ [Next]_vars => IInv'
<1> SUFFICES ASSUME IInv, [Next]_vars PROVE IInv'
  OBVIOUS
<1> USE DEF IInv
<1>1. ASSUME NEW c \in Conn, NEW m \in Message, Begin(c, m) PROVE IInv'
  <2>1. TypeOK'  BY <1>1 DEF Begin, TypeOK
  <2>2. \A d \in Conn : msg'[d] = IF d = c THEN m ELSE msg[d]
    BY <1>1 DEF Begin, TypeOK
  <2>3. InTime'  BY <1>1, <2>2 DEF Begin, InTime, Pending
  <2>4. ExpiryBounds' /\ NothingForgotten' /\ PassedWasCharged'
    BY <1>1 DEF Begin, ExpiryBounds, NothingForgotten, PassedWasCharged, BucketEnd
  <2> QED  BY <2>1, <2>3, <2>4
<1>2. ASSUME NEW c \in Conn, Allow(c) PROVE IInv'
  <2> DEFINE m == msg[c]
  <2>1. /\ m \in Message /\ m.at <= clock + MaxAhead /\ clock <= m.at + MaxLag
        /\ RunScript(m) /\ Return(c) /\ clock' = clock
        /\ passed' = Added(passed, ChargeOf(m))
    BY <1>2, PendingLemma DEF Allow
  <2>2. /\ cnt' \in [Key -> Nat] /\ expiry' \in [Key -> Nat] /\ tally' \in [Key -> Nat]
        /\ ExpiryBounds' /\ NothingForgotten'
    BY <2>1, ScriptLemma
  <2>3. /\ passed' = [k \in Key |-> IF k \in Specs(m) THEN passed[k] + Inc(m) ELSE passed[k]]
        /\ tally' = [k \in Key |-> IF k \in Specs(m) THEN tally[k] + Inc(m) ELSE tally[k]]
        /\ Inc(m) \in Nat
    BY <2>1, ChargeLemma DEF Added, RunScript
  <2>4. passed' \in [Key -> Nat] /\ PassedWasCharged'
    BY <2>3 DEF TypeOK, PassedWasCharged
  <2>5. /\ InTime' /\ msg' \in [Conn -> Message \cup {NoMessage}]
        /\ resent' \in [Conn -> 0..MaxResends] /\ charged' \in [Conn -> BOOLEAN]
    BY <2>1, ReturnLemma
  <2>6. TypeOK'  BY <2>1, <2>2, <2>4, <2>5 DEF TypeOK
  <2> QED  BY <2>2, <2>4, <2>5, <2>6
<1>3. ASSUME NEW c \in Conn, Return(c), UNCHANGED <<clock, cnt, expiry, tally, passed>>
      PROVE  IInv'
  <2>1. /\ InTime' /\ msg' \in [Conn -> Message \cup {NoMessage}]
        /\ resent' \in [Conn -> 0..MaxResends] /\ charged' \in [Conn -> BOOLEAN]
    BY <1>3, ReturnLemma
  <2>2. TypeOK'  BY <1>3, <2>1 DEF TypeOK
  <2>3. ExpiryBounds' /\ NothingForgotten' /\ PassedWasCharged'
    BY <1>3 DEF ExpiryBounds, NothingForgotten, PassedWasCharged, BucketEnd
  <2> QED  BY <2>1, <2>2, <2>3
<1>4. ASSUME NEW c \in Conn, Defer(c) PROVE IInv'
  BY <1>3, <1>4 DEF Defer
<1>5. ASSUME NEW c \in Conn, FailOpen(c) PROVE IInv'
  BY <1>3, <1>5 DEF FailOpen
<1>6. ASSUME NEW c \in Conn, LoseReply(c) PROVE IInv'
  <2> DEFINE m == msg[c]
  <2>1. /\ m \in Message /\ m.at <= clock + MaxAhead /\ clock <= m.at + MaxLag
        /\ UNCHANGED <<clock, msg, passed>>
        /\ resent' = [resent EXCEPT ![c] = @ + 1] /\ resent[c] < MaxResends
    BY <1>6, PendingLemma DEF LoseReply
  <2>2. InTime'  BY <2>1 DEF InTime, Pending
  <2>3. resent' \in [Conn -> 0..MaxResends]
    BY <2>1, ClockAssumption DEF TypeOK
  <2>4. CASE RunScript(m) /\ charged' = [charged EXCEPT ![c] = TRUE]
    <3>1. /\ cnt' \in [Key -> Nat] /\ expiry' \in [Key -> Nat] /\ tally' \in [Key -> Nat]
          /\ ExpiryBounds' /\ NothingForgotten'
          /\ \A k \in Key : tally[k] <= tally'[k]
      BY <2>1, <2>4, ScriptLemma
    <3>2. charged' \in [Conn -> BOOLEAN]  BY <2>4 DEF TypeOK
    <3>3. TypeOK'  BY <2>1, <2>3, <3>1, <3>2 DEF TypeOK
    <3>4. PassedWasCharged'
      BY <2>1, <3>1 DEF PassedWasCharged, TypeOK
    <3> QED  BY <2>2, <3>1, <3>3, <3>4
  <2>5. CASE UNCHANGED <<cnt, expiry, tally, charged>>
    <3>1. TypeOK'  BY <2>1, <2>3, <2>5 DEF TypeOK
    <3> QED
      BY <2>1, <2>2, <2>5, <3>1
         DEF ExpiryBounds, NothingForgotten, PassedWasCharged, BucketEnd
  <2> QED  BY <1>6, <2>4, <2>5 DEF LoseReply
<1>7. ASSUME NEW k \in Key, Evict(k) PROVE IInv'
  <2>1. TypeOK'  BY <1>7 DEF Evict, TypeOK
  <2>2. /\ \A j \in Key : j # k => /\ cnt'[j] = cnt[j] /\ expiry'[j] = expiry[j]
                                   /\ tally'[j] = tally[j] /\ passed'[j] = passed[j]
        /\ cnt'[k] = 0 /\ tally'[k] = 0 /\ passed'[k] = 0
        /\ clock' = clock
    BY <1>7 DEF Evict, TypeOK
  <2>3. ExpiryBounds'  BY <2>2 DEF ExpiryBounds, BucketEnd
  <2>4. NothingForgotten'  BY <2>2 DEF NothingForgotten, BucketEnd
  <2>5. PassedWasCharged'  BY <2>2 DEF PassedWasCharged
  <2>6. InTime'  BY <1>7 DEF Evict, InTime, Pending
  <2> QED  BY <2>1, <2>3, <2>4, <2>5, <2>6
<1>8. ASSUME Tick PROVE IInv'
  <2>1. /\ clock \in Nat /\ clock' = clock + 1 /\ MaxLag \in Nat /\ MaxAhead \in Nat
        /\ UNCHANGED <<msg, resent, charged, tally, passed>>
        /\ \A k \in Key : /\ cnt'[k] = IF Expired(k, clock + 1) THEN 0 ELSE cnt[k]
                          /\ expiry'[k] = IF Expired(k, clock + 1) THEN 0 ELSE expiry[k]
    BY <1>8, ClockAssumption DEF Tick, TypeOK, Time
  <2>2. TypeOK'
    <3>1. clock' \in Time  BY <1>8, ClockAssumption DEF Tick, TypeOK, Time
    <3>2. cnt' \in [Key -> Nat] /\ expiry' \in [Key -> Nat]
      BY <1>8 DEF Tick, TypeOK
    <3> QED  BY <2>1, <3>1, <3>2 DEF TypeOK
  <2>3. InTime'
    <3> SUFFICES ASSUME NEW c \in Conn, Pending(c)
                 PROVE  msg[c].at <= clock' + MaxAhead /\ clock' <= msg[c].at + MaxLag
      BY <2>1 DEF InTime, Pending
    <3>1. msg[c].at \in Nat /\ msg[c].at <= clock + MaxAhead
      BY PendingLemma, ChargeLemma DEF Time
    <3>2. clock + 1 <= msg[c].at + MaxLag  BY <1>8 DEF Tick
    <3> QED  BY <2>1, <3>1, <3>2
  <2>4. ASSUME NEW k \in Key, cnt[k] > 0, Expired(k, clock + 1)
        PROVE  BucketEnd(k) + MaxLag <= clock'
    <3>1. /\ BucketEnd(k) \in Nat /\ Grace[k.window] \in Nat
          /\ MaxAhead + MaxLag <= Grace[k.window] /\ expiry[k] \in Nat
      BY KeyLemma DEF TypeOK
    <3>2. BucketEnd(k) + Grace[k.window] - MaxAhead <= expiry[k] /\ expiry[k] <= clock + 1
      BY <2>4 DEF ExpiryBounds, Expired
    <3> QED  BY <2>1, <3>1, <3>2
  <2>5. NothingForgotten'
    <3> SUFFICES ASSUME NEW k \in Key, clock' < BucketEnd(k) + MaxLag
                 PROVE  cnt'[k] = tally[k]
      BY <2>1 DEF NothingForgotten, BucketEnd
    <3>1. BucketEnd(k) \in Nat /\ cnt[k] \in Nat  BY KeyLemma DEF TypeOK
    <3>2. cnt[k] = tally[k]  BY <2>1, <3>1 DEF NothingForgotten
    <3>3. CASE cnt[k] = 0  BY <2>1, <3>2, <3>3
    <3>4. CASE cnt[k] > 0
      <4>1. ~Expired(k, clock + 1)  BY <2>1, <2>4, <3>1, <3>4
      <4> QED  BY <2>1, <3>2, <4>1
    <3> QED  BY <3>1, <3>3, <3>4
  <2>6. ExpiryBounds'
    <3> SUFFICES ASSUME NEW k \in Key, cnt'[k] > 0
                 PROVE  /\ clock' < expiry'[k]
                        /\ BucketEnd(k) + Grace[k.window] - MaxAhead <= expiry'[k]
                        /\ expiry'[k] <= BucketEnd(k) + Grace[k.window] + MaxLag
      BY DEF ExpiryBounds, BucketEnd
    <3>1. /\ ~Expired(k, clock + 1) /\ cnt[k] > 0 /\ expiry'[k] = expiry[k]
          /\ expiry[k] \in Nat
      BY <2>1 DEF TypeOK
    <3>2. expiry[k] # 0 /\ clock' < expiry[k]
      BY <2>1, <3>1 DEF Expired, ExpiryBounds
    <3> QED  BY <3>1, <3>2 DEF ExpiryBounds
  <2>7. PassedWasCharged'  BY <2>1 DEF PassedWasCharged
  <2> QED  BY <2>2, <2>3, <2>5, <2>6, <2>7
<1>9. CASE UNCHANGED vars
  BY <1>9 DEF vars, TypeOK, InTime, Pending, ExpiryBounds, NothingForgotten,
              PassedWasCharged, BucketEnd
<1> QED
  BY <1>1, <1>2, <1>4, <1>5, <1>6, <1>7, <1>8, <1>9 DEF Next

(* The inductive invariant holds of every reachable state.                 *)
THEOREM Invariance == Spec => []IInv
BY InitInv, NextInv, PTL DEF Spec

(* Every variable keeps its type: no counter is ever negative or missing.  *)
THEOREM TypeCorrect == Spec => []TypeOK
BY Invariance, PTL DEF IInv

(* Every counter that exists carries a TTL that ends in the future and at  *)
(* most grace + delay after its bucket.                                    *)
THEOREM CountersDoExpire == Spec => []CountersExpire
<1>1. IInv => CountersExpire
  BY DEF IInv, ExpiryBounds, CountersExpire
<1> QED  BY <1>1, Invariance, PTL

(* No TTL drops a counter while a message of its bucket can be charged.    *)
THEOREM NothingIsForgotten == Spec => []NothingForgotten
BY Invariance, PTL DEF IInv

(* What is let through stays within the limits it was checked against.     *)
THEOREM QuotaIsRespected == Spec => QuotaRespected
<1> DEFINE Kept ==
      \A k \in Key : passed'[k] > passed[k] =>
        \E c \in Conn : /\ Pending(c) /\ ~Pending(c)'
                        /\ k \in Specs(msg[c])
                        /\ passed'[k] <= LimitOf(msg[c], k)
<1>1. IInv /\ [Next]_vars => [Kept]_vars
  <2> SUFFICES ASSUME IInv, Next, NEW k \in Key, passed'[k] > passed[k]
               PROVE  \E c \in Conn : /\ Pending(c) /\ ~Pending(c)'
                                      /\ k \in Specs(msg[c])
                                      /\ passed'[k] <= LimitOf(msg[c], k)
    OBVIOUS
  <2>1. passed[k] \in Nat /\ tally[k] \in Nat /\ passed[k] <= tally[k]
    BY DEF IInv, TypeOK, PassedWasCharged
  <2>2. passed' # passed  BY <2>1
  <2>3. ~\E j \in Key : Evict(j)
    <3> SUFFICES ASSUME NEW j \in Key, Evict(j) PROVE FALSE
      OBVIOUS
    <3>1. passed'[k] = IF k = j THEN 0 ELSE passed[k]
      BY DEF Evict, IInv, TypeOK
    <3> QED  BY <2>1, <3>1
  <2>4. PICK c \in Conn : Allow(c)
    BY <2>2, <2>3 DEF Next, Begin, Defer, FailOpen, LoseReply, Tick
  <2> DEFINE m == msg[c]
  <2>5. /\ m \in Message /\ m.at <= clock + MaxAhead /\ clock <= m.at + MaxLag
        /\ RunScript(m) /\ clock' = clock
        /\ passed' = Added(passed, ChargeOf(m))
    BY <2>4, PendingLemma DEF Allow, IInv
  <2>6. passed'[k] = IF k \in Specs(m) THEN passed[k] + Inc(m) ELSE passed[k]
    BY <2>5, ChargeLemma DEF Added
  <2>7. k \in Specs(m)  BY <2>1, <2>6
  <2>8. tally'[k] = tally[k] + Inc(m) /\ tally'[k] <= LimitOf(m, k)
    BY <2>5, <2>7, ScriptLemma DEF IInv
  <2>9. Inc(m) \in Nat /\ LimitOf(m, k) \in Nat
    BY <2>5, ChargeLemma, LimitLemma
  <2>10. passed'[k] <= LimitOf(m, k)
    BY <2>1, <2>6, <2>7, <2>8, <2>9
  <2>11. Pending(c) /\ ~Pending(c)'
    BY <2>4 DEF Allow, Return, Pending, IInv, TypeOK
  <2> QED  BY <2>7, <2>10, <2>11
<1> QED  BY <1>1, Invariance, PTL DEF Spec, QuotaRespected

(* As long as Redis answers whoever it has served, a 451 of the quota      *)
(* check leaves no counter behind.                                         *)
THEOREM DeferredIsNotCounted ==
  ASSUME "lostReply" \notin Faults
  PROVE  Spec => DeferredNotCounted
<1> DEFINE NoneCharged == charged = [c \in Conn |-> FALSE]
<1>1. Init => NoneCharged  BY DEF Init
<1>2. NoneCharged /\ [Next]_vars => NoneCharged'
  BY DEF Next, vars, Begin, Allow, Defer, FailOpen, LoseReply, Evict, Tick, Return
<1>3. NoneCharged /\ [Next]_vars => [\A c \in Conn : Defer(c) => ~charged[c]]_vars
  OBVIOUS
<1> QED  BY <1>1, <1>2, <1>3, PTL DEF Spec, DeferredNotCounted

(* The check with its clocks, TTLs and resends implements the quota of     *)
(* FixedWindowQuota.                                                       *)
THEOREM Refinement == Spec => ImplementsQuota
<1>1. Init => Q!Init
  BY DEF Init, Q!Init
<1>2. IInv /\ [Next]_vars => [Q!Next]_tally
  <2> SUFFICES ASSUME IInv, [Next]_vars, tally' # tally PROVE Q!Next
    OBVIOUS
  <2>1. ASSUME NEW m \in Message, RunScript(m), m.at <= clock + MaxAhead,
               clock <= m.at + MaxLag, clock' = clock
        PROVE  Q!Next
    <3> DEFINE ch == ChargeOf(m)
    <3>1. DOMAIN ch.limit = Specs(m) /\ Specs(m) \subseteq Key
      BY ChargeLemma
    <3>2. \A k \in Specs(m) : cnt[k] = tally[k]
      BY <2>1, <3>1, ChargeableLemma DEF IInv, TypeOK, NothingForgotten
    <3>3. \A k \in DOMAIN ch.limit : tally[k] + ch.inc <= ch.limit[k]
      BY <2>1, <3>1, <3>2 DEF RunScript, Fits
    <3>4. tally' = [k \in Key |-> IF k \in DOMAIN ch.limit THEN tally[k] + ch.inc
                                                           ELSE tally[k]]
      BY <2>1 DEF RunScript, Added
    <3>5. Q!Admit(ch)  BY <3>3, <3>4 DEF Q!Admit
    <3>6. ch \in Charges  BY DEF Charges
    <3> QED  BY <3>5, <3>6 DEF Q!Next
  <2>2. ASSUME NEW c \in Conn, Pending(c), RunScript(msg[c]), clock' = clock
        PROVE  Q!Next
    BY <2>1, <2>2, PendingLemma DEF IInv
  <2>3. ASSUME NEW k \in Key, Evict(k) PROVE Q!Next
    <3>1. Q!Lose(k)  BY <2>3 DEF Evict, Q!Lose
    <3> QED  BY <3>1 DEF Q!Next
  <2> QED
    BY <2>2, <2>3 DEF Next, vars, Begin, Allow, Defer, FailOpen, LoseReply, Tick
<1> QED  BY <1>1, <1>2, Invariance, PTL DEF Spec, ImplementsQuota, Q!Spec
=============================================================================
