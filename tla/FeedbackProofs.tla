---------------------------- MODULE FeedbackProofs ----------------------------
(***************************************************************************)
(* Theorems about the way of a delivery outcome from the mail log into the *)
(* counters: about Feedback, for any replicas' clocks, buckets,            *)
(* thresholds, reports, faults and number of calls; and, at the end, about *)
(* Shipper, for any log, rotations, failures, restarts and sizes.          *)
(***************************************************************************)
EXTENDS Feedback, Shipper, FiniteSetTheorems, SequenceTheorems, WellFoundedInduction, TLAPS

(* A command runs within the lag, and in the bucket its replica's clock    *)
(* showed when it was issued.                                              *)
Timely(me) ==
  /\ me.since <= clock
  /\ me.step \in {"count", "recount", "rates"} => clock <= me.since + MaxLag
  /\ me.step \in {"count", "recount"} => /\ me.bucket <= me.since + me.skew
                                         /\ me.since + me.skew < BucketEnd(me.bucket)
  /\ me.step = "rates" => me.since + me.skew < BucketEnd(me.reads)
CallsTimely == \A c \in Call : call[c] # Idle => Timely(call[c])

(* A counter in Redis outlives its bucket by more than the lag, and holds  *)
(* no more than was added.                                                 *)
CountersKept ==
  \A k \in Kind, b \in BucketStart :
    /\ counterEnd[k][b] # 0 => BucketEnd(b) + MaxLag <= counterEnd[k][b]
    /\ counter[k][b] <= added[k][b]
    /\ sentAtBad[b] <= added["sent"][b]

CountInv == TypeOK /\ CallsTimely /\ CountersKept /\ NothingForgotten

-----------------------------------------------------------------------------
LEMMA BucketLemma ==
  ASSUME NEW t \in Time, NEW s \in Skews
  PROVE  /\ t \in Nat /\ s \in Nat
         /\ BucketOf(t + s) \in BucketStart
         /\ BucketOf(t + s) <= t + s /\ t + s < BucketEnd(BucketOf(t + s))
<1>1. t \in Nat /\ s \in Nat /\ Bucket \in Nat \ {0}
  BY FeedbackAssumption DEF Time
<1>2. (t + s) % Bucket \in Int /\ 0 <= (t + s) % Bucket /\ (t + s) % Bucket < Bucket
  BY <1>1
<1> QED
  BY <1>1, <1>2 DEF BucketOf, BucketEnd, BucketStart

LEMMA BucketsAreIntegers == BucketStart \subseteq Int
<1>1. ASSUME NEW t \in Time, NEW s \in Skews PROVE BucketOf(t + s) \in Int
  <2>1. t + s \in Nat /\ Bucket \in Nat \ {0}
    BY FeedbackAssumption DEF Time
  <2>2. (t + s) % Bucket \in Int
    BY <2>1
  <2> QED
    BY <2>1, <2>2 DEF BucketOf
<1> QED
  BY <1>1 DEF BucketStart

(* The next report of a batch is issued, or the batch is done.             *)
LEMMA RecordingLemma ==
  ASSUME TypeOK, NEW todo \in Seq(Report), NEW skew \in Skews
  PROVE  LET r == Recording(todo, skew) IN
         /\ r \in InFlight \cup {Idle}
         /\ r # Idle => /\ r.since = clock /\ r.step = "count"
                        /\ r.bucket <= clock + skew /\ clock + skew < BucketEnd(r.bucket)
                        /\ r.skew = skew
<1> DEFINE b == BucketOf(clock + skew)
           me == [todo |-> todo, kind |-> Classify(Head(todo)), n |-> 1, skew |-> skew,
                  since |-> clock, bucket |-> b, reads |-> b, key |-> "bounce", step |-> "count"]
<1>1. clock \in Time /\ b \in BucketStart /\ b <= clock + skew /\ clock + skew < BucketEnd(b)
  BY BucketLemma DEF TypeOK
<1>2. Classify(Head(todo)) \in Kind
  BY DEF Classify, Kind, Outcome
<1>3. me \in InFlight
  BY <1>1, <1>2 DEF InFlight, Key
<1>4. Recording(todo, skew) = IF todo = << >> THEN Idle ELSE me
  BY DEF Recording
<1> QED
  BY <1>1, <1>3, <1>4

LEMMA InFlightFields ==
  ASSUME TypeOK, NEW c \in Call, call[c] # Idle
  PROVE  /\ call[c] \in InFlight
         /\ call[c].todo \in Seq(Report) /\ call[c].kind \in Kind /\ call[c].n \in Nat
         /\ call[c].skew \in Skews /\ call[c].since \in Time
         /\ call[c].bucket \in BucketStart /\ call[c].reads \in BucketStart
         /\ call[c].key \in Key
  BY DEF TypeOK, InFlight

(* A call that goes on with its next report, or ends.                      *)
LEMMA DoneLemma ==
  ASSUME TypeOK, CallsTimely, NEW c \in Call, call[c] # Idle, Done(c), UNCHANGED clock
  PROVE  /\ call' \in [Call -> InFlight \cup {Idle}]
         /\ CallsTimely'
         /\ call'[c] # Idle => call'[c].step = "count"
         /\ \A d \in Call \ {c} : call'[d] = call[d]
<1> DEFINE next == IF call[c].todo = << >> THEN Idle
                   ELSE Recording(Tail(call[c].todo), call[c].skew)
<1>1. call' = [call EXCEPT ![c] = next] /\ call \in [Call -> InFlight \cup {Idle}]
  BY DEF Done, TypeOK
<1>2. /\ next \in InFlight \cup {Idle}
      /\ next # Idle => /\ next.since = clock /\ next.step = "count"
                        /\ next.bucket <= clock + next.skew
                        /\ clock + next.skew < BucketEnd(next.bucket)
  <2>1. CASE call[c].todo = << >>
    BY <2>1
  <2>2. CASE call[c].todo # << >>
    <3>1. Tail(call[c].todo) \in Seq(Report) /\ call[c].skew \in Skews
      BY <2>2, InFlightFields
    <3> QED
      BY <2>2, <3>1, RecordingLemma
  <2> QED
    BY <2>1, <2>2
<1> HIDE DEF next
<1>3. call'[c] = next /\ \A d \in Call \ {c} : call'[d] = call[d]
  BY <1>1
<1>4. clock \in Nat /\ MaxLag \in Nat
  BY FeedbackAssumption DEF TypeOK, Time
<1>5. CallsTimely'
  BY <1>2, <1>3, <1>4 DEF CallsTimely, Timely, BucketEnd
<1> QED
  BY <1>1, <1>2, <1>3, <1>5

(* A call that has been started, or taken one step further.                *)
LEMMA OneCallLemma ==
  ASSUME TypeOK, CallsTimely, NEW c \in Call, NEW me \in InFlight \cup {Idle},
         call' = [call EXCEPT ![c] = me], UNCHANGED clock,
         me # Idle => Timely(me)
  PROVE  /\ call' \in [Call -> InFlight \cup {Idle}]
         /\ CallsTimely'
<1>1. call'[c] = me /\ \A d \in Call \ {c} : call'[d] = call[d]
  BY DEF TypeOK
<1>2. call' \in [Call -> InFlight \cup {Idle}]
  BY DEF TypeOK
<1> QED
  BY <1>1, <1>2 DEF CallsTimely, Timely, BucketEnd

LEMMA StartKeeps ==
  ASSUME CountInv, NEW c \in Call, NEW skew \in Skews,
         \/ \E rcpt \in Rcpts : Accept(c, rcpt, skew)
         \/ \E posted \in Batches : Ingest(c, posted, skew)
  PROVE  CountInv'
<1>1. clock \in Time /\ clock \in Nat /\ MaxLag \in Nat
  BY FeedbackAssumption DEF CountInv, TypeOK, Time
<1>2. UNCHANGED <<clock, store, once, faults, judged, alerts>> /\ UNCHANGED clock
      /\ TypeOK /\ CallsTimely /\ calls' \in 0..MaxCalls
  <2>1. /\ calls < MaxCalls /\ calls' = calls + 1
        /\ UNCHANGED <<clock, store, once, faults, judged, alerts>>
    BY DEF Accept, Ingest
  <2>2. calls \in 0..MaxCalls /\ MaxCalls \in Nat
    BY FeedbackAssumption DEF CountInv, TypeOK
  <2> QED
    BY <2>1, <2>2 DEF CountInv
<1>3. CountersKept' /\ NothingForgotten'
  BY <1>2 DEF CountInv, CountersKept, NothingForgotten, store
<1>4. ASSUME NEW rcpt \in Rcpts, Accept(c, rcpt, skew)
      PROVE  call' \in [Call -> InFlight \cup {Idle}] /\ CallsTimely' /\ UNCHANGED outcomes
  <2> DEFINE b == BucketOf(clock + skew)
             me == [todo |-> << >>, kind |-> "sent", n |-> rcpt, skew |-> skew, since |-> clock,
                    bucket |-> b, reads |-> b, key |-> "bounce", step |-> "count"]
  <2>1. b \in BucketStart /\ b <= clock + skew /\ clock + skew < BucketEnd(b)
    BY <1>1, BucketLemma
  <2>2. me \in InFlight
    BY <1>1, <2>1, FeedbackAssumption DEF InFlight, Key, Kind
  <2>3. call' = [call EXCEPT ![c] = me] /\ UNCHANGED outcomes
    BY <1>4 DEF Accept
  <2>4. me.since = clock /\ me.step = "count" /\ me.bucket = b /\ me.skew = skew
    OBVIOUS
  <2> HIDE DEF me, b
  <2>5. me # Idle => Timely(me)
    BY <1>1, <2>1, <2>4 DEF Timely
  <2> QED
    BY <1>2, <2>2, <2>3, <2>5, OneCallLemma
<1>5. ASSUME NEW posted \in Batches, Ingest(c, posted, skew)
      PROVE  /\ call' \in [Call -> InFlight \cup {Idle}] /\ CallsTimely'
             /\ outcomes' \in [named: Nat, failed: Nat, unanswered: Nat, died: Nat]
  <2> DEFINE me == Recording(Named(posted), skew)
  <2>1. Named(posted) \in Seq(Report) /\ Len(Named(posted)) \in Nat
    BY BatchesAssumption
  <2>2. /\ me \in InFlight \cup {Idle}
        /\ me # Idle => /\ me.since = clock /\ me.step = "count"
                        /\ me.bucket <= clock + me.skew
                        /\ clock + me.skew < BucketEnd(me.bucket)
    BY <2>1, RecordingLemma DEF CountInv
  <2>3. call' = [call EXCEPT ![c] = me]
    BY <1>5 DEF Ingest
  <2> HIDE DEF me
  <2>4. me # Idle => Timely(me)
    BY <1>1, <2>2 DEF Timely
  <2>5. call' \in [Call -> InFlight \cup {Idle}] /\ CallsTimely'
    BY <1>2, <2>2, <2>3, <2>4, OneCallLemma
  <2>6. outcomes' = [outcomes EXCEPT !.named = @ + Len(Named(posted))]
    BY <1>5 DEF Ingest
  <2>7. outcomes \in [named: Nat, failed: Nat, unanswered: Nat, died: Nat]
    BY DEF CountInv, TypeOK
  <2> QED
    BY <2>1, <2>5, <2>6, <2>7
<1>6. TypeOK'
  BY <1>2, <1>4, <1>5 DEF CountInv, TypeOK, store
<1> QED
  BY <1>3, <1>4, <1>5, <1>6 DEF CountInv

(* A counter is created after its bucket began, within the skew: its TTL   *)
(* outlives the bucket by the lag.                                         *)
LEMMA IncrementKeeps ==
  ASSUME CountInv, NEW c \in Call, Counting(c), Incremented(call[c]), UNCHANGED clock
  PROVE  /\ counter' \in [Kind -> [BucketStart -> Nat]]
         /\ counterEnd' \in [Kind -> [BucketStart -> Nat]]
         /\ added' \in [Kind -> [BucketStart -> Nat]]
         /\ sentAtBad' \in [BucketStart -> Nat]
         /\ CountersKept' /\ NothingForgotten'
<1> DEFINE me == call[c]
<1>1. /\ me # Idle /\ me.step \in {"count", "recount"} /\ me \in InFlight
      /\ me.kind \in Kind /\ me.n \in Nat /\ me.skew \in Skews /\ me.bucket \in BucketStart
      /\ me.since \in Time /\ clock \in Time
  BY InFlightFields DEF CountInv, Counting, At, TypeOK
<1>2. /\ me.since \in Nat /\ clock \in Nat /\ MaxLag \in Nat /\ Slack \in Nat /\ Bucket \in Nat
      /\ me.skew \in Nat /\ me.skew + MaxLag <= Slack /\ me.bucket \in Int
  <2>1. /\ MaxLag \in Nat /\ Slack \in Nat /\ Bucket \in Nat /\ Skews \subseteq Nat
        /\ Time \subseteq Nat
    BY FeedbackAssumption DEF Time
  <2>2. me.skew + MaxLag <= Slack
    BY <1>1, SlackCoversSkew
  <2> HIDE DEF me
  <2> QED
    BY <1>1, <2>1, <2>2, BucketsAreIntegers
<1>3. me.since <= clock /\ me.bucket <= me.since + me.skew
  BY <1>1 DEF CountInv, CallsTimely, Timely
<1>4. /\ counter' = [counter EXCEPT ![me.kind][me.bucket] = @ + me.n]
      /\ counterEnd' = [counterEnd EXCEPT ![me.kind][me.bucket] =
                          IF counter[me.kind][me.bucket] = 0 THEN clock + CounterTtl ELSE @]
      /\ added' = [added EXCEPT ![me.kind][me.bucket] = @ + me.n]
      /\ sentAtBad' \in {sentAtBad, [sentAtBad EXCEPT ![me.bucket] = counter["sent"][me.bucket]]}
  BY DEF Incremented
<1>6. BucketEnd(me.bucket) + MaxLag <= clock + CounterTtl /\ clock + CounterTtl \in Nat
  BY <1>2, <1>3 DEF BucketEnd, CounterTtl
<1>7. /\ counter' \in [Kind -> [BucketStart -> Nat]]
      /\ counterEnd' \in [Kind -> [BucketStart -> Nat]]
      /\ added' \in [Kind -> [BucketStart -> Nat]]
  BY <1>1, <1>2, <1>4, <1>6 DEF CountInv, TypeOK
<1>8. sentAtBad' \in [BucketStart -> Nat] /\ \A b \in BucketStart : sentAtBad'[b] <= added'["sent"][b]
  <2>1. "sent" \in Kind /\ \A b \in BucketStart : added["sent"][b] <= added'["sent"][b]
    BY <1>1, <1>2, <1>4 DEF Kind, CountInv, TypeOK
  <2>2. counter["sent"][me.bucket] \in Nat /\ counter["sent"][me.bucket] <= added["sent"][me.bucket]
    BY <1>1, <2>1 DEF CountInv, TypeOK, CountersKept
  <2>3. sentAtBad' \in [BucketStart -> Nat]
    BY <1>1, <1>4, <2>2 DEF CountInv, TypeOK
  <2>4. ASSUME NEW b \in BucketStart PROVE sentAtBad'[b] <= added'["sent"][b]
    <3>1. sentAtBad'[b] <= added["sent"][b]
      BY <1>1, <1>4, <2>1, <2>2 DEF CountInv, TypeOK, CountersKept
    <3> QED
      BY <1>7, <2>1, <2>3, <3>1 DEF CountInv, TypeOK
  <2> QED
    BY <2>3, <2>4
<1>10. ASSUME NEW k \in Kind, NEW b \in BucketStart
       PROVE  /\ counterEnd'[k][b] # 0 => BucketEnd(b) + MaxLag <= counterEnd'[k][b]
              /\ counter'[k][b] <= added'[k][b]
              /\ counter[k][b] = added[k][b] => counter'[k][b] = added'[k][b]
  <2>1. CASE k = me.kind /\ b = me.bucket
    <3>1. /\ counter'[k][b] = counter[k][b] + me.n /\ added'[k][b] = added[k][b] + me.n
          /\ counterEnd'[k][b] \in {counterEnd[k][b], clock + CounterTtl}
      BY <1>4, <2>1 DEF CountInv, TypeOK
    <3>2. counter[k][b] \in Nat /\ added[k][b] \in Nat /\ counter[k][b] <= added[k][b]
      BY DEF CountInv, TypeOK, CountersKept
    <3>3. counter'[k][b] <= added'[k][b] /\ (counter[k][b] = added[k][b] => counter'[k][b] = added'[k][b])
      BY <1>1, <3>1, <3>2
    <3>4. counterEnd'[k][b] # 0 => BucketEnd(b) + MaxLag <= counterEnd'[k][b]
      BY <1>6, <2>1, <3>1 DEF CountInv, CountersKept
    <3> QED
      BY <3>3, <3>4
  <2>2. CASE ~(k = me.kind /\ b = me.bucket)
    <3>1. UNCHANGED <<counter[k][b], added[k][b], counterEnd[k][b]>>
      BY <1>4, <2>2 DEF CountInv, TypeOK
    <3> QED
      BY <3>1 DEF CountInv, CountersKept
  <2> QED
    BY <2>1, <2>2
<1>11. CountersKept' /\ NothingForgotten'
  BY <1>8, <1>10 DEF CountersKept, NothingForgotten, CountInv, BucketEnd
<1> QED
  BY <1>7, <1>8, <1>11

LEMMA CountKeeps ==
  ASSUME CountInv, NEW c \in Call, Count(c) \/ CountLost(c)
  PROVE  CountInv'
<1> DEFINE me == call[c]
<1>1. /\ me # Idle /\ me.step \in {"count", "recount"} /\ me \in InFlight
      /\ me.skew \in Skews /\ me.bucket \in BucketStart /\ clock \in Time /\ clock \in Nat
      /\ TypeOK /\ CallsTimely /\ MaxLag \in Nat
  <2>1. Counting(c) /\ TypeOK /\ CallsTimely
    BY DEF CountInv, Count, CountLost
  <2>2. me # Idle /\ me.step \in {"count", "recount"}
    BY <2>1 DEF Counting, At
  <2>3. clock \in Time /\ clock \in Nat /\ MaxLag \in Nat
    BY <2>1, FeedbackAssumption DEF TypeOK, Time
  <2> QED
    BY <2>1, <2>2, <2>3, InFlightFields
<1>2. /\ UNCHANGED <<clock, once, calls, alerts>> /\ UNCHANGED clock
      /\ Counting(c) /\ Incremented(me)
  BY DEF Count, CountLost
<1>3. /\ counter' \in [Kind -> [BucketStart -> Nat]]
      /\ counterEnd' \in [Kind -> [BucketStart -> Nat]]
      /\ added' \in [Kind -> [BucketStart -> Nat]]
      /\ sentAtBad' \in [BucketStart -> Nat]
      /\ CountersKept' /\ NothingForgotten'
  BY <1>2, IncrementKeeps
<1>4. ASSUME call' \in [Call -> InFlight \cup {Idle}], CallsTimely', faults' \in 0..MaxFaults,
             outcomes' \in [named: Nat, failed: Nat, unanswered: Nat, died: Nat],
             judged' \in [flagged: SUBSET BucketStart, unread: SUBSET BucketStart]
      PROVE  CountInv'
  <2>1. TypeOK'
    BY <1>1, <1>2, <1>3, <1>4 DEF TypeOK
  <2> QED
    BY <1>3, <1>4, <2>1 DEF CountInv
<1>5. CASE CountLost(c)
  <2> DEFINE new == [me EXCEPT !.step = "recount"]
  <2>1. call' = [call EXCEPT ![c] = new] /\ UNCHANGED judged
    BY <1>5 DEF CountLost
  <2>2. new \in InFlight /\ new.step = "recount" /\ new.since = me.since /\ new.skew = me.skew
        /\ new.bucket = me.bucket
    BY <1>1 DEF InFlight
  <2> HIDE DEF new
  <2>3. new # Idle => Timely(new)
    BY <1>1, <2>2 DEF CallsTimely, Timely
  <2>4. call' \in [Call -> InFlight \cup {Idle}] /\ CallsTimely'
    BY <1>1, <1>2, <2>1, <2>2, <2>3, OneCallLemma
  <2>5. faults' \in 0..MaxFaults
    BY <1>1, <1>5, FeedbackAssumption DEF CountLost, TypeOK
  <2>6. outcomes' \in [named: Nat, failed: Nat, unanswered: Nat, died: Nat]
    <3>1. outcomes' \in {outcomes, [outcomes EXCEPT !.unanswered = @ + 1]}
      BY <1>5 DEF CountLost
    <3> QED
      BY <1>1, <3>1 DEF TypeOK
  <2> QED
    BY <1>1, <1>4, <2>1, <2>4, <2>5, <2>6 DEF TypeOK
<1>6. CASE Count(c) /\ me.kind \in Bad
  <2> DEFINE reads == BucketOf(clock + me.skew)
             new == [me EXCEPT !.step = "rates", !.since = clock, !.reads = reads]
  <2>1. reads \in BucketStart /\ clock + me.skew < BucketEnd(reads)
    BY <1>1, BucketLemma
  <2>2. /\ call' = [call EXCEPT ![c] = new] /\ UNCHANGED <<faults, outcomes>>
        /\ judged' = [judged EXCEPT !.unread =
                        IF reads = me.bucket THEN @ ELSE @ \cup {me.bucket}]
    BY <1>1, <1>6 DEF Count, TypeOK
  <2>3. new \in InFlight /\ new.step = "rates" /\ new.since = clock /\ new.reads = reads
        /\ new.skew = me.skew
    BY <1>1, <2>1 DEF InFlight
  <2> HIDE DEF new, reads
  <2>4. new # Idle => Timely(new)
    BY <1>1, <2>1, <2>3 DEF Timely
  <2>5. call' \in [Call -> InFlight \cup {Idle}] /\ CallsTimely'
    BY <1>1, <1>2, <2>2, <2>3, <2>4, OneCallLemma
  <2>6. judged' \in [flagged: SUBSET BucketStart, unread: SUBSET BucketStart]
    BY <1>1, <2>2 DEF TypeOK
  <2> QED
    BY <1>1, <1>4, <2>2, <2>5, <2>6 DEF TypeOK
<1>7. CASE Count(c) /\ me.kind \notin Bad
  <2>1. Done(c) /\ UNCHANGED <<judged, faults, outcomes>>
    BY <1>7 DEF Count
  <2>2. call' \in [Call -> InFlight \cup {Idle}] /\ CallsTimely'
    BY <1>1, <1>2, <2>1, DoneLemma
  <2> QED
    BY <1>1, <1>4, <2>1, <2>2 DEF TypeOK
<1> QED
  BY <1>5, <1>6, <1>7

(* The steps of a call after its count: the counters stay as they are.     *)
LEMMA StepLemma ==
  ASSUME TypeOK, CallsTimely, NEW c \in Call, call[c] # Idle, UNCHANGED clock,
         \/ Done(c) \/ UNCHANGED call
         \/ call' = [call EXCEPT ![c] = Idle]
         \/ \E s \in {"flag", "claim", "send"} : call' = [call EXCEPT ![c].step = s]
         \/ \E key \in Key : call' = [call EXCEPT ![c].step = "claim", ![c].key = key]
  PROVE  call' \in [Call -> InFlight \cup {Idle}] /\ CallsTimely'
<1>1. call[c] \in InFlight /\ Timely(call[c]) /\ call \in [Call -> InFlight \cup {Idle}]
  BY InFlightFields DEF CallsTimely, TypeOK
<1>2. CASE Done(c)
  BY <1>2, DoneLemma
<1>3. CASE call' = [call EXCEPT ![c] = Idle]
  BY <1>3, OneCallLemma
<1>7. CASE UNCHANGED call
  BY <1>1, <1>7 DEF CallsTimely, Timely, BucketEnd
<1>4. ASSUME NEW me, me \in InFlight, me.step \in {"flag", "claim"} \cup {"send"},
             me.since = call[c].since, call' = [call EXCEPT ![c] = me]
      PROVE  call' \in [Call -> InFlight \cup {Idle}] /\ CallsTimely'
  <2>1. me.step \notin {"count", "recount", "rates"} /\ me.since <= clock
    BY <1>1, <1>4 DEF Timely
  <2>2. me # Idle => Timely(me)
    BY <2>1 DEF Timely
  <2> QED
    BY <1>4, <2>2, OneCallLemma
<1>5. ASSUME NEW s \in {"flag", "claim", "send"}, call' = [call EXCEPT ![c].step = s]
      PROVE  call' \in [Call -> InFlight \cup {Idle}] /\ CallsTimely'
  <2> DEFINE me == [call[c] EXCEPT !.step = s]
  <2>1. call' = [call EXCEPT ![c] = me]
    BY <1>1, <1>5
  <2>2. me \in InFlight /\ me.step = s /\ me.since = call[c].since
    BY <1>1 DEF InFlight
  <2> HIDE DEF me
  <2> QED
    BY <1>4, <2>1, <2>2
<1>6. ASSUME NEW key \in Key, call' = [call EXCEPT ![c].step = "claim", ![c].key = key]
      PROVE  call' \in [Call -> InFlight \cup {Idle}] /\ CallsTimely'
  <2> DEFINE me == [call[c] EXCEPT !.step = "claim", !.key = key]
  <2>1. call' = [call EXCEPT ![c] = me]
    BY <1>1, <1>6
  <2>2. me \in InFlight /\ me.step = "claim" /\ me.since = call[c].since
    BY <1>1 DEF InFlight
  <2> HIDE DEF me
  <2> QED
    BY <1>4, <2>1, <2>2
<1> QED
  BY <1>2, <1>3, <1>5, <1>6, <1>7

LEMMA FaultLemma ==
  ASSUME TypeOK, faults < MaxFaults, faults' = faults + 1
  PROVE  faults' \in 0..MaxFaults
BY FeedbackAssumption DEF TypeOK

LEMMA OnwardKeeps ==
  ASSUME CountInv, NEW c \in Call,
         \/ Judge(c) \/ Flag(c) \/ Claim(c) \/ ClaimLost(c) \/ ClaimFails(c) \/ Send(c)
         \/ RedisFails(c) \/ Dies(c)
  PROVE  CountInv'
<1>1. /\ TypeOK /\ CallsTimely /\ CountersKept /\ NothingForgotten
      /\ UNCHANGED <<clock, store, calls>> /\ UNCHANGED clock /\ call[c] # Idle
  BY DEF CountInv, At, Counting, Judge, Flag, Claim, ClaimLost, ClaimFails, Send, RedisFails, Dies
<1>2. /\ once \in [Key -> Nat] /\ faults \in 0..MaxFaults
      /\ outcomes \in [named: Nat, failed: Nat, unanswered: Nat, died: Nat]
      /\ judged \in [flagged: SUBSET BucketStart, unread: SUBSET BucketStart]
      /\ alerts \in [{"granted", "tried", "lost"} -> [Key -> Time \cup {-1}]]
      /\ call[c].bucket \in BucketStart /\ call[c].reads \in BucketStart /\ call[c].key \in Key
      /\ clock \in Time
  BY <1>1, InFlightFields DEF TypeOK
<1>3. ASSUME \/ Done(c) \/ UNCHANGED call
             \/ call' = [call EXCEPT ![c] = Idle]
             \/ \E s \in {"flag", "claim", "send"} : call' = [call EXCEPT ![c].step = s]
             \/ \E key \in Key : call' = [call EXCEPT ![c].step = "claim", ![c].key = key],
             once' \in [Key -> Nat], faults' \in 0..MaxFaults,
             outcomes' \in [named: Nat, failed: Nat, unanswered: Nat, died: Nat],
             judged' \in [flagged: SUBSET BucketStart, unread: SUBSET BucketStart],
             alerts' \in [{"granted", "tried", "lost"} -> [Key -> Time \cup {-1}]]
      PROVE  CountInv'
  <2>1. call' \in [Call -> InFlight \cup {Idle}] /\ CallsTimely'
    BY <1>1, <1>3, StepLemma
  <2>2. TypeOK'
    BY <1>1, <1>3, <2>1 DEF TypeOK, store
  <2>3. CountersKept' /\ NothingForgotten'
    BY <1>1 DEF CountersKept, NothingForgotten, store
  <2> QED
    BY <2>1, <2>2, <2>3 DEF CountInv
<1>4. CASE Judge(c)
  <2>1. /\ UNCHANGED <<once, faults, outcomes, judged, alerts>>
        /\ Done(c) \/ call' = [call EXCEPT ![c].step = "flag"]
    BY <1>4 DEF Judge
  <2> QED
    BY <1>2, <1>3, <2>1
<1>5. CASE Flag(c)
  <2>1. /\ UNCHANGED <<once, faults, outcomes, alerts>>
        /\ \E key \in Key : call' = [call EXCEPT ![c].step = "claim", ![c].key = key]
        /\ judged' = [judged EXCEPT !.flagged = @ \cup {call[c].reads}]
    BY <1>5 DEF Flag
  <2>2. judged' \in [flagged: SUBSET BucketStart, unread: SUBSET BucketStart]
    BY <1>2, <2>1
  <2> QED
    BY <1>2, <1>3, <2>1, <2>2
<1>6. CASE Claim(c)
  <2>1. UNCHANGED <<faults, outcomes, judged>>
    BY <1>6 DEF Claim
  <2>2. CASE once[call[c].key] # 0
    BY <1>2, <1>3, <1>6, <2>1, <2>2 DEF Claim
  <2>3. CASE once[call[c].key] = 0
    <3>1. /\ once' = [once EXCEPT ![call[c].key] = clock + Interval]
          /\ alerts' = [alerts EXCEPT !.granted[call[c].key] = clock]
          /\ call' = [call EXCEPT ![c].step = "send"]
      BY <1>6, <2>3 DEF Claim
    <3>2. clock + Interval \in Nat
      BY <1>2, FeedbackAssumption DEF Time
    <3>3. once' \in [Key -> Nat]
      BY <1>2, <3>1, <3>2
    <3>4. alerts' \in [{"granted", "tried", "lost"} -> [Key -> Time \cup {-1}]]
      BY <1>2, <3>1
    <3> QED
      BY <1>2, <1>3, <2>1, <3>1, <3>3, <3>4
  <2> QED
    BY <2>2, <2>3
<1>7. CASE ClaimFails(c)
  <2>1. /\ UNCHANGED <<once, outcomes, judged, alerts>>
        /\ call' = [call EXCEPT ![c].step = "send"] /\ faults' \in 0..MaxFaults
    BY <1>1, <1>7, FaultLemma DEF ClaimFails
  <2> QED
    BY <1>2, <1>3, <2>1
<1>8. CASE Send(c)
  <2>1. /\ UNCHANGED <<once, faults, outcomes, judged>> /\ Done(c)
        /\ alerts' = [alerts EXCEPT !.tried[call[c].key] = clock]
    BY <1>8 DEF Send
  <2>2. alerts' \in [{"granted", "tried", "lost"} -> [Key -> Time \cup {-1}]]
    BY <1>2, <2>1
  <2> QED
    BY <1>2, <1>3, <2>1, <2>2
<1>11. CASE ClaimLost(c)
  <2>1. UNCHANGED <<call, outcomes, judged>> /\ faults' \in 0..MaxFaults
    BY <1>1, <1>11, FaultLemma DEF ClaimLost
  <2>2. /\ once' \in {once, [once EXCEPT ![call[c].key] = clock + Interval]}
        /\ alerts' \in {alerts, [alerts EXCEPT !.lost[call[c].key] = clock]}
    BY <1>11 DEF ClaimLost
  <2>3. clock + Interval \in Nat
    BY <1>2, FeedbackAssumption DEF Time
  <2>4. once' \in [Key -> Nat]
    BY <1>2, <2>2, <2>3
  <2>5. alerts' \in [{"granted", "tried", "lost"} -> [Key -> Time \cup {-1}]]
    BY <1>2, <2>2
  <2> QED
    BY <1>2, <1>3, <2>1, <2>4, <2>5
<1>9. CASE RedisFails(c)
  <2>1. UNCHANGED <<once, alerts>> /\ Done(c) /\ faults' \in 0..MaxFaults
    BY <1>1, <1>9, FaultLemma DEF RedisFails, Caught
  <2>2. /\ outcomes' \in {outcomes, [outcomes EXCEPT !.failed = @ + 1]}
        /\ judged' = [judged EXCEPT !.unread = IF Unjudged(c) THEN @ \cup {call[c].bucket} ELSE @]
    BY <1>9 DEF RedisFails, LeftUnjudged
  <2>3. outcomes' \in [named: Nat, failed: Nat, unanswered: Nat, died: Nat]
    BY <1>2, <2>2
  <2>4. judged' \in [flagged: SUBSET BucketStart, unread: SUBSET BucketStart]
    BY <1>2, <2>2
  <2> QED
    BY <1>2, <1>3, <2>1, <2>3, <2>4
<1>10. CASE Dies(c)
  <2>1. /\ UNCHANGED once /\ call' = [call EXCEPT ![c] = Idle]
        /\ alerts' \in {alerts, [alerts EXCEPT !.lost[call[c].key] = clock]}
        /\ faults' \in 0..MaxFaults
        /\ outcomes' = [outcomes EXCEPT !.died = @ + 1]
        /\ judged' = [judged EXCEPT !.unread = IF Unjudged(c) THEN @ \cup {call[c].bucket} ELSE @]
    BY <1>1, <1>10, FaultLemma DEF Dies, LeftUnjudged
  <2>2. outcomes' \in [named: Nat, failed: Nat, unanswered: Nat, died: Nat]
    BY <1>2, <2>1
  <2>3. judged' \in [flagged: SUBSET BucketStart, unread: SUBSET BucketStart]
    BY <1>2, <2>1
  <2>4. alerts' \in [{"granted", "tried", "lost"} -> [Key -> Time \cup {-1}]]
    BY <1>2, <2>1
  <2> QED
    BY <1>2, <1>3, <2>1, <2>2, <2>3, <2>4
<1> QED
  BY <1>4, <1>5, <1>6, <1>7, <1>8, <1>9, <1>10, <1>11

(* What expires has outlived its bucket and the lag.                       *)
LEMMA TickKeeps ==
  ASSUME CountInv, Tick
  PROVE  CountInv'
<1>1. /\ clock \in Nat /\ clock' \in Time /\ clock' = clock + 1 /\ MaxLag \in Nat
      /\ UNCHANGED <<call, calls, faults, added, outcomes, judged, sentAtBad, alerts>>
      /\ \A c \in Call : Counting(c) \/ At(c, "rates") => clock < call[c].since + MaxLag
  BY FeedbackAssumption DEF CountInv, TypeOK, Time, Tick
<1> DEFINE gone(end) == end # 0 /\ end <= clock + 1
<1>2. /\ counter' = [k \in Kind |-> [b \in BucketStart |->
                       IF gone(counterEnd[k][b]) THEN 0 ELSE counter[k][b]]]
      /\ counterEnd' = [k \in Kind |-> [b \in BucketStart |->
                          IF gone(counterEnd[k][b]) THEN 0 ELSE counterEnd[k][b]]]
      /\ once' = [k \in Key |-> IF gone(once[k]) THEN 0 ELSE once[k]]
  BY DEF Tick
<1>3. TypeOK'
  <2>1. /\ counter' \in [Kind -> [BucketStart -> Nat]]
        /\ counterEnd' \in [Kind -> [BucketStart -> Nat]]
        /\ once' \in [Key -> Nat]
    BY <1>2 DEF CountInv, TypeOK
  <2> QED
    BY <1>1, <2>1 DEF CountInv, TypeOK
<1>4. CallsTimely'
  <2>1. ASSUME NEW c \in Call, call[c] # Idle PROVE Timely(call[c])'
    <3>1. Timely(call[c]) /\ call[c].since \in Nat /\ UNCHANGED call
      BY <1>1, <2>1, InFlightFields, FeedbackAssumption DEF CountInv, CallsTimely, Time
    <3>2. call[c].step \in {"count", "recount", "rates"} => clock < call[c].since + MaxLag
      BY <1>1, <2>1 DEF At, Counting
    <3> QED
      BY <1>1, <3>1, <3>2 DEF Timely, BucketEnd
  <2> QED
    BY <1>1, <2>1 DEF CallsTimely
<1>5. ASSUME NEW k \in Kind, NEW b \in BucketStart
      PROVE  /\ counterEnd'[k][b] # 0 => BucketEnd(b) + MaxLag <= counterEnd'[k][b]
             /\ counter'[k][b] <= added'[k][b]
             /\ sentAtBad'[b] <= added'["sent"][b]
             /\ clock' < BucketEnd(b) + MaxLag => counter'[k][b] = added'[k][b]
  <2>1. /\ counter'[k][b] = IF gone(counterEnd[k][b]) THEN 0 ELSE counter[k][b]
        /\ counterEnd'[k][b] = IF gone(counterEnd[k][b]) THEN 0 ELSE counterEnd[k][b]
        /\ added'[k][b] = added[k][b] /\ added[k][b] \in Nat /\ counterEnd[k][b] \in Nat
        /\ sentAtBad'[b] = sentAtBad[b] /\ added'["sent"][b] = added["sent"][b]
    BY <1>1, <1>2 DEF CountInv, TypeOK
  <2>2. BucketEnd(b) + MaxLag \in Int
    BY <1>1, BucketsAreIntegers, FeedbackAssumption DEF BucketEnd
  <2> QED
    BY <1>1, <2>1, <2>2 DEF CountInv, CountersKept, NothingForgotten
<1>6. CountersKept' /\ NothingForgotten'
  BY <1>5 DEF CountersKept, NothingForgotten, BucketEnd
<1> QED
  BY <1>3, <1>4, <1>6 DEF CountInv

LEMMA CountInductive == Spec => []CountInv
<1>1. Init => CountInv
  <2>1. SUFFICES ASSUME Init PROVE CountInv
    OBVIOUS
  <2>2. TypeOK
    BY <2>1, FeedbackAssumption DEF Init, TypeOK, Time, Zero, Kind, Outcome
  <2>3. CallsTimely
    BY <2>1 DEF Init, CallsTimely
  <2>4. CountersKept /\ NothingForgotten
    BY <2>1 DEF Init, Zero, CountersKept, NothingForgotten, Kind, Outcome
  <2> QED
    BY <2>2, <2>3, <2>4 DEF CountInv
<1>2. CountInv /\ [Next]_vars => CountInv'
  <2> SUFFICES ASSUME CountInv, [Next]_vars PROVE CountInv'
    OBVIOUS
  <2>1. ASSUME NEW c \in Call, NEW skew \in Skews,
               \/ \E rcpt \in Rcpts : Accept(c, rcpt, skew)
               \/ \E posted \in Batches : Ingest(c, posted, skew)
        PROVE  CountInv'
    BY <2>1, StartKeeps
  <2>2. ASSUME NEW c \in Call, Count(c) \/ CountLost(c) PROVE CountInv'
    BY <2>2, CountKeeps
  <2>3. ASSUME NEW c \in Call,
               \/ Judge(c) \/ Flag(c) \/ Claim(c) \/ ClaimLost(c) \/ ClaimFails(c) \/ Send(c)
               \/ RedisFails(c) \/ Dies(c)
        PROVE  CountInv'
    BY <2>3, OnwardKeeps
  <2>4. CASE Tick
    BY <2>4, TickKeeps
  <2>5. CASE UNCHANGED vars
    BY <2>5 DEF vars, CountInv, TypeOK, CallsTimely, Timely, CountersKept, NothingForgotten, BucketEnd
  <2> QED
    BY <2>1, <2>2, <2>3, <2>4, <2>5 DEF Next
<1> QED
  BY <1>1, <1>2, PTL DEF Spec

(* The type invariant.                                                     *)
THEOREM TypeCorrect == Spec => []TypeOK
<1>1. CountInv => TypeOK
  BY DEF CountInv
<1> QED
  BY <1>1, CountInductive, PTL

(* fbIncr() and fbRates(): as long as a bucket may be counted in or read,  *)
(* its counters hold all that was ever added to them, whatever the skews   *)
(* and lags of the replicas, as long as the 300 s cover them.              *)
THEOREM CountersComplete == Spec => []NothingForgotten
<1>1. CountInv => NothingForgotten
  BY DEF CountInv
<1> QED
  BY <1>1, CountInductive, PTL

-----------------------------------------------------------------------------
(***************************************************************************)
(* Alerts.                                                                 *)
(***************************************************************************)
(* The once-key of an alert lives for one interval, from its grant or from *)
(* a SET whose reply was lost; who was granted the alert has sent it, is   *)
(* about to, or has died.                                                  *)
Sending(c, k) == At(c, "send") /\ call[c].key = k
GrantOK(k) ==
  /\ alerts.granted[k] <= clock /\ alerts.lost[k] <= clock
  /\ once[k] # 0 =>
       /\ clock < once[k]
       /\ \/ alerts.granted[k] # -1 /\ once[k] = alerts.granted[k] + Interval
          \/ alerts.lost[k] # -1 /\ once[k] <= alerts.lost[k] + Interval
  /\ \/ alerts.granted[k] = -1
     \/ alerts.granted[k] + Interval <= clock
     \/ once[k] = alerts.granted[k] + Interval
SendOK(k) ==
  alerts.granted[k] # -1 => \/ alerts.lost[k] >= alerts.granted[k]
                            \/ alerts.tried[k] >= alerts.granted[k]
                            \/ \E c \in Call : Sending(c, k)
AlertInv == \A k \in Key : GrantOK(k) /\ SendOK(k)

LEMMA AlertTypes ==
  ASSUME TypeOK, NEW k \in Key
  PROVE  /\ clock \in Nat /\ once[k] \in Nat /\ Interval \in Nat \ {0}
         /\ alerts.granted[k] \in Int /\ alerts.tried[k] \in Int /\ alerts.lost[k] \in Int
         /\ alerts.granted[k] # -1 => alerts.granted[k] \in Nat
<1>1. Time \subseteq Nat
  BY FeedbackAssumption DEF Time
<1>2. /\ alerts.granted[k] \in Nat \cup {-1} /\ alerts.tried[k] \in Nat \cup {-1}
      /\ alerts.lost[k] \in Nat \cup {-1}
  BY <1>1 DEF TypeOK
<1>3. alerts.granted[k] \in Int /\ alerts.tried[k] \in Int /\ alerts.lost[k] \in Int
  BY <1>2
<1>4. clock \in Nat /\ once[k] \in Nat /\ Interval \in Nat \ {0}
  BY <1>1, FeedbackAssumption DEF TypeOK
<1> QED
  BY <1>2, <1>3, <1>4

LEMMA SendingKept ==
  ASSUME AlertInv, UNCHANGED <<clock, once, alerts>>,
         \A d \in Call : At(d, "send") => call'[d] = call[d]
  PROVE  AlertInv'
<1>1. \A k \in Key : GrantOK(k)'
  BY DEF AlertInv, GrantOK
<1>2. \A k \in Key : SendOK(k)'
  BY DEF AlertInv, SendOK, Sending, At
<1> QED
  BY <1>1, <1>2 DEF AlertInv

(* A caller takes the free once-key; `event`: it is granted the alert, or  *)
(* never hears of it.                                                      *)
LEMMA OnceTaken ==
  ASSUME TypeOK, AlertInv, UNCHANGED clock, NEW key \in Key, NEW event \in {"granted", "lost"},
         once[key] = 0, once' = [once EXCEPT ![key] = clock + Interval],
         alerts' = [alerts EXCEPT ![event][key] = clock],
         \A d \in Call : At(d, "send") => call'[d] = call[d],
         event = "granted" => \E c \in Call : Sending(c, key)'
  PROVE  AlertInv'
<1>1. /\ once'[key] = clock + Interval /\ alerts'[event][key] = clock
      /\ \A e \in {"granted", "tried", "lost"} \ {event} : alerts'[e] = alerts[e]
      /\ \A k \in Key \ {key} : once'[k] = once[k] /\ alerts'[event][k] = alerts[event][k]
  BY DEF TypeOK
<1>2. \A k \in Key : \A d \in Call : Sending(d, k) => Sending(d, k)'
  BY DEF Sending, At
<1>3. ASSUME NEW k \in Key \ {key} PROVE GrantOK(k)' /\ SendOK(k)'
  <2>1. UNCHANGED <<once[k], alerts.granted[k], alerts.tried[k], alerts.lost[k]>>
    BY <1>1
  <2> QED
    BY <1>2, <2>1 DEF AlertInv, GrantOK, SendOK
<1>4. GrantOK(key)' /\ SendOK(key)'
  <2>1. clock \in Nat /\ Interval \in Nat \ {0} /\ alerts.granted[key] \in Int
    BY AlertTypes
  <2>2. CASE event = "granted"
    <3>1. alerts'.granted[key] = clock /\ alerts'.lost[key] = alerts.lost[key]
          /\ alerts.lost[key] <= clock
      BY <1>1, <2>2 DEF AlertInv, GrantOK
    <3> QED
      BY <1>1, <2>1, <2>2, <3>1 DEF GrantOK, SendOK
  <2>3. CASE event = "lost"
    <3>1. alerts'.granted[key] = alerts.granted[key] /\ alerts'.lost[key] = clock
      BY <1>1, <2>3
    <3>2. alerts.granted[key] <= clock
          /\ (alerts.granted[key] = -1 \/ alerts.granted[key] + Interval <= clock)
      BY <2>1, AlertTypes DEF AlertInv, GrantOK
    <3> QED
      BY <1>1, <2>1, <3>1, <3>2 DEF GrantOK, SendOK
  <2> QED
    BY <2>2, <2>3
<1> QED
  BY <1>3, <1>4 DEF AlertInv

(* A sender is through, or has died: `event` says which.                   *)
LEMMA SenderGone ==
  ASSUME TypeOK, AlertInv, UNCHANGED <<clock, once>>, NEW c \in Call, At(c, "send"),
         NEW event \in {"tried", "lost"},
         alerts' = [alerts EXCEPT ![event][call[c].key] = clock],
         \A d \in Call \ {c} : call'[d] = call[d]
  PROVE  AlertInv'
<1>0. PICK key \in Key : key = call[c].key
  BY InFlightFields DEF At
<1>1. /\ alerts'[event][key] = clock /\ \A k \in Key \ {key} : alerts'[event][k] = alerts[event][k]
      /\ \A e \in {"granted", "tried", "lost"} \ {event} : alerts'[e] = alerts[e]
  BY <1>0 DEF TypeOK
<1>2. ASSUME NEW k \in Key \ {key} PROVE GrantOK(k)' /\ SendOK(k)'
  <2>1. UNCHANGED <<once[k], alerts.granted[k], alerts.tried[k], alerts.lost[k]>>
    BY <1>1
  <2>2. \A d \in Call : Sending(d, k) => Sending(d, k)'
    BY <1>0 DEF Sending, At
  <2> QED
    BY <2>1, <2>2 DEF AlertInv, GrantOK, SendOK
<1>3. GrantOK(key)' /\ SendOK(key)'
  <2>1. /\ alerts'.granted[key] = alerts.granted[key] /\ alerts.granted[key] <= clock
        /\ clock \in Nat /\ Interval \in Nat
        /\ alerts'.lost[key] \in {alerts.lost[key], clock}
    BY <1>1, AlertTypes DEF AlertInv, GrantOK
  <2>2. SendOK(key)'
    BY <1>1, <2>1 DEF SendOK
  <2>3. /\ once[key] \in Nat /\ alerts.granted[key] \in Int /\ alerts.lost[key] \in Int
        /\ alerts.lost[key] <= clock
    BY AlertTypes DEF AlertInv, GrantOK
  <2>4. alerts.lost[key] # -1 /\ once[key] <= alerts.lost[key] + Interval
          => alerts'.lost[key] # -1 /\ once[key] <= alerts'.lost[key] + Interval
    BY <2>1, <2>3
  <2>5. GrantOK(key)'
    BY <2>1, <2>4 DEF AlertInv, GrantOK
  <2> QED
    BY <2>2, <2>5
<1> QED
  BY <1>2, <1>3 DEF AlertInv

LEMMA AlertInductive == Spec => []AlertInv
<1>1. Init => AlertInv
  BY DEF Init, AlertInv, GrantOK, SendOK
<1>2. CountInv /\ AlertInv /\ [Next]_vars => AlertInv'
  <2> SUFFICES ASSUME CountInv, AlertInv, [Next]_vars PROVE AlertInv'
    OBVIOUS
  <2>0. TypeOK /\ call \in [Call -> InFlight \cup {Idle}]
    BY DEF CountInv, TypeOK
  <2>1. ASSUME NEW c \in Call, NEW skew \in Skews,
               \/ \E rcpt \in Rcpts : Accept(c, rcpt, skew)
               \/ \E posted \in Batches : Ingest(c, posted, skew)
        PROVE  AlertInv'
    <3>1. /\ UNCHANGED <<clock, once, alerts>>
          /\ call[c] = Idle /\ \A d \in Call \ {c} : call'[d] = call[d]
      BY <2>0, <2>1 DEF Accept, Ingest
    <3> QED
      BY <3>1, SendingKept DEF At
  <2>2. ASSUME NEW c \in Call, Count(c) \/ CountLost(c) PROVE AlertInv'
    <3>1. /\ UNCHANGED <<clock, once, alerts>>
          /\ Counting(c) /\ \A d \in Call \ {c} : call'[d] = call[d]
      BY <2>0, <2>2 DEF Count, CountLost, Done
    <3> QED
      BY <3>1, SendingKept DEF At, Counting
  <2>3. ASSUME NEW c \in Call, Judge(c) \/ Flag(c) PROVE AlertInv'
    <3>1. UNCHANGED <<clock, once, alerts>>
      BY <2>0, <2>3 DEF Judge, Flag
    <3>2. \A d \in Call : At(d, "send") => call'[d] = call[d]
      BY <2>0, <2>3 DEF At, Judge, Flag, Done
    <3> QED
      BY <3>1, <3>2, SendingKept
  <2>4. ASSUME NEW c \in Call, ClaimFails(c) \/ RedisFails(c) PROVE AlertInv'
    <3>1. UNCHANGED <<clock, once, alerts>>
      BY <2>0, <2>4 DEF ClaimFails, RedisFails
    <3>2. \A d \in Call : At(d, "send") => call'[d] = call[d]
      BY <2>0, <2>4 DEF At, Counting, ClaimFails, RedisFails, Caught, Done
    <3> QED
      BY <3>1, <3>2, SendingKept
  <2>5. ASSUME NEW c \in Call, Dies(c) PROVE AlertInv'
    <3>1. UNCHANGED <<clock, once>> /\ \A d \in Call \ {c} : call'[d] = call[d]
      BY <2>0, <2>5 DEF Dies
    <3>2. CASE At(c, "send")
      <4>1. alerts' = [alerts EXCEPT !["lost"][call[c].key] = clock]
        BY <2>5, <3>2 DEF Dies
      <4> QED
        BY <2>0, <3>1, <3>2, <4>1, SenderGone
    <3>3. CASE ~At(c, "send")
      <4>1. UNCHANGED alerts
        BY <2>5, <3>3 DEF Dies
      <4> QED
        BY <3>1, <3>3, <4>1, SendingKept
    <3> QED
      BY <3>2, <3>3
  <2>6. ASSUME NEW c \in Call, Claim(c) \/ ClaimLost(c) PROVE AlertInv'
    <3>0. PICK key \in Key : key = call[c].key
      BY <2>0, <2>6, InFlightFields DEF Claim, ClaimLost, At
    <3>1. UNCHANGED clock /\ At(c, "claim")
      BY <2>6 DEF Claim, ClaimLost
    <3>2. \A d \in Call : At(d, "send") => call'[d] = call[d]
      BY <2>0, <2>6 DEF At, Claim, ClaimLost, Done
    <3>3. CASE once[key] # 0
      <4>1. UNCHANGED <<once, alerts>>
        BY <2>6, <3>0, <3>3 DEF Claim, ClaimLost
      <4> QED
        BY <3>1, <3>2, <4>1, SendingKept
    <3>4. CASE once[key] = 0 /\ Claim(c)
      <4>1. /\ once' = [once EXCEPT ![key] = clock + Interval]
            /\ alerts' = [alerts EXCEPT !["granted"][key] = clock]
            /\ call' = [call EXCEPT ![c].step = "send"]
        BY <3>0, <3>4 DEF Claim
      <4>2. call[c] \in InFlight
        BY <2>0, <3>1, InFlightFields DEF At
      <4>3. Sending(c, key)'
        BY <2>0, <3>0, <4>1, <4>2, IdleAssumption DEF Sending, At, InFlight
      <4> QED
        BY <2>0, <3>1, <3>2, <3>4, <4>1, <4>3, OnceTaken
    <3>5. CASE once[key] = 0 /\ ClaimLost(c)
      <4>1. /\ once' = [once EXCEPT ![key] = clock + Interval]
            /\ alerts' = [alerts EXCEPT !["lost"][key] = clock]
        BY <3>0, <3>5 DEF ClaimLost
      <4> QED
        BY <2>0, <3>1, <3>2, <3>5, <4>1, OnceTaken
    <3> QED
      BY <2>6, <3>3, <3>4, <3>5
  <2>7. ASSUME NEW c \in Call, Send(c) PROVE AlertInv'
    <3>1. /\ UNCHANGED <<clock, once>> /\ At(c, "send")
          /\ alerts' = [alerts EXCEPT !["tried"][call[c].key] = clock]
          /\ \A d \in Call \ {c} : call'[d] = call[d]
      BY <2>0, <2>7 DEF Send, Done
    <3> QED
      BY <2>0, <3>1, SenderGone
  <2>8. CASE Tick
    <3>1. /\ clock' = clock + 1 /\ UNCHANGED <<call, alerts>>
          /\ once' = [k \in Key |-> IF once[k] # 0 /\ once[k] <= clock + 1 THEN 0 ELSE once[k]]
      BY <2>8 DEF Tick
    <3>2. ASSUME NEW k \in Key PROVE GrantOK(k)' /\ SendOK(k)'
      <4>1. once'[k] = IF once[k] # 0 /\ once[k] <= clock + 1 THEN 0 ELSE once[k]
        BY <3>1
      <4>2. GrantOK(k)'
        BY <2>0, <3>1, <4>1, AlertTypes DEF AlertInv, GrantOK
      <4> QED
        BY <3>1, <4>2 DEF AlertInv, SendOK, Sending, At
    <3> QED
      BY <3>2 DEF AlertInv
  <2>9. CASE UNCHANGED vars
    BY <2>9, SendingKept DEF vars
  <2> QED
    BY <2>1, <2>2, <2>3, <2>4, <2>5, <2>6, <2>7, <2>8, <2>9 DEF Next
<1> QED
  BY <1>1, <1>2, CountInductive, PTL DEF Spec

(* alert(): of all replicas, one caller per interval is granted an alert,  *)
(* however the claims interleave with expiry.                              *)
Spaced ==
  \A k \in Key : alerts'.granted[k] # alerts.granted[k] =>
    alerts.granted[k] = -1 \/ clock - alerts.granted[k] >= Interval

THEOREM AlertsAreSpaced == Spec => AlertsSpaced
<1>1. CountInv /\ AlertInv /\ [Next]_vars => [Spaced]_vars
  <2> SUFFICES ASSUME CountInv, AlertInv, [Next]_vars, NEW k \in Key,
                      alerts'.granted[k] # alerts.granted[k]
               PROVE  alerts.granted[k] = -1 \/ clock - alerts.granted[k] >= Interval
    BY DEF Spaced
  <2>1. PICK c \in Call : Claim(c)
    <3>1. UNCHANGED alerts \/ UNCHANGED alerts.granted \/ \E c \in Call : Claim(c)
      BY DEF Next, vars, CountInv, TypeOK, Accept, Ingest, Count, CountLost, Judge, Flag, ClaimLost,
         ClaimFails, Send, RedisFails, Dies, Tick
    <3> QED
      BY <3>1
  <2>2. once[k] = 0
    <3>1. /\ once[call[c].key] = 0
          /\ alerts' = [alerts EXCEPT !.granted[call[c].key] = clock]
      BY <2>1 DEF Claim
    <3>2. k = call[c].key
      BY <3>1 DEF CountInv, TypeOK
    <3> QED
      BY <3>1, <3>2
  <2> QED
    BY <2>2, AlertTypes DEF CountInv, AlertInv, GrantOK
<1> QED
  BY <1>1, CountInductive, AlertInductive, PTL DEF Spec, AlertsSpaced, Spaced

(* alert(): whoever finds the once-key leaves the alert to one that has    *)
(* been tried within the interval, or to a replica about to try; or the    *)
(* reply of a SET was lost within the interval, or a replica died that was *)
(* to send.  However long Redis fails, and whatever fails before, no alert *)
(* is kept back for more than the interval after such a loss.              *)
Relied ==
  \A c \in Call :
    At(c, "claim") /\ (call'[c] = Idle \/ call'[c].step \notin {"claim", "send"}) =>
      LET key == call[c].key
          Recent(event) == alerts[event][key] # -1 /\ clock - alerts[event][key] < Interval
      IN
      \/ Recent("tried") \/ Recent("lost")
      \/ \E d \in Call : At(d, "send") /\ call[d].key = key
      \/ outcomes'.died # outcomes.died

THEOREM NobodyIsSilenced == Spec => NobodySilenced
<1>1. CountInv /\ AlertInv /\ [Next]_vars => [Relied]_vars
  <2> DEFINE Recent(event, key) ==
               alerts[event][key] # -1 /\ clock - alerts[event][key] < Interval
  <2> SUFFICES ASSUME CountInv, AlertInv, [Next]_vars, NEW c \in Call, At(c, "claim"),
                      call'[c] = Idle \/ call'[c].step \notin {"claim", "send"}
               PROVE  \/ Recent("tried", call[c].key) \/ Recent("lost", call[c].key)
                      \/ \E d \in Call : At(d, "send") /\ call[d].key = call[c].key
                      \/ outcomes'.died # outcomes.died
    BY DEF Relied
  <2>0. /\ call \in [Call -> InFlight \cup {Idle}] /\ call[c].step = "claim" /\ call[c] # Idle
        /\ call'[c] # call[c]
    BY DEF CountInv, TypeOK, At
  <2>1. Claim(c) \/ Dies(c)
    <3>2. ASSUME NEW d \in Call, NEW skew \in Skews,
                 \/ \E rcpt \in Rcpts : Accept(d, rcpt, skew)
                 \/ \E posted \in Batches : Ingest(d, posted, skew)
          PROVE  FALSE
      BY <2>0, <3>2 DEF Accept, Ingest
    <3>3. ASSUME NEW d \in Call, Count(d) \/ CountLost(d) PROVE FALSE
      BY <2>0, <3>3 DEF Count, CountLost, Counting, At, Done
    <3>4. ASSUME NEW d \in Call, Judge(d) \/ Flag(d) \/ Send(d) \/ RedisFails(d) PROVE FALSE
      BY <2>0, <3>4 DEF Judge, Flag, Send, RedisFails, Counting, At, Caught, Done
    <3>5. ASSUME NEW d \in Call, ClaimFails(d) PROVE FALSE
      <4>1. call' = [call EXCEPT ![d].step = "send"]
        BY <3>5 DEF ClaimFails
      <4>2. d = c /\ call'[c] = [call[c] EXCEPT !.step = "send"]
        BY <2>0, <4>1
      <4>3. call[c] \in InFlight /\ [call[c] EXCEPT !.step = "send"] \in InFlight
        BY <2>0 DEF InFlight
      <4>4. call'[c] # Idle /\ call'[c].step = "send"
        BY <4>2, <4>3, IdleAssumption DEF InFlight
      <4> QED
        BY <4>4
    <3>6. ASSUME NEW d \in Call, Claim(d) \/ Dies(d) PROVE Claim(c) \/ Dies(c)
      BY <2>0, <3>6 DEF Claim, Dies, Done
    <3>7. Tick \/ UNCHANGED vars \/ (\E d \in Call : ClaimLost(d)) => UNCHANGED call
      BY DEF Tick, vars, ClaimLost
    <3> QED
      BY <2>0, <3>2, <3>3, <3>4, <3>5, <3>6, <3>7 DEF Next
  <2>2. CASE Dies(c)
    BY <2>2 DEF Dies, CountInv, TypeOK
  <2>3. CASE Claim(c)
    <3>1. PICK key \in Key : key = call[c].key
      BY InFlightFields DEF CountInv, At
    <3>2. once[key] # 0
      <4>1. SUFFICES ASSUME once[key] = 0 PROVE FALSE
        OBVIOUS
      <4>2. call' = [call EXCEPT ![c].step = "send"]
        BY <2>3, <3>1, <4>1 DEF Claim
      <4>3. call'[c] = [call[c] EXCEPT !.step = "send"]
        BY <2>0, <4>2
      <4>4. call'[c] \in InFlight /\ call'[c].step = "send"
        BY <2>0, <4>3 DEF InFlight
      <4> QED
        BY <4>4, IdleAssumption
    <3>3. /\ clock < once[key]
          /\ \/ alerts.granted[key] # -1 /\ once[key] = alerts.granted[key] + Interval
             \/ alerts.lost[key] # -1 /\ once[key] <= alerts.lost[key] + Interval
      BY <3>2 DEF AlertInv, GrantOK
    <3>4. /\ clock \in Nat /\ once[key] \in Nat /\ Interval \in Nat /\ alerts.granted[key] \in Int
          /\ alerts.tried[key] \in Int /\ alerts.lost[key] \in Int
          /\ alerts.granted[key] # -1 => alerts.granted[key] \in Nat
      BY AlertTypes DEF CountInv
    <3>5. CASE alerts.lost[key] # -1 /\ once[key] <= alerts.lost[key] + Interval
      <4>1. Recent("lost", key)
        BY <3>3, <3>4, <3>5
      <4> QED
        BY <3>1, <4>1
    <3>6. CASE alerts.granted[key] # -1 /\ once[key] = alerts.granted[key] + Interval
      <4>1. CASE alerts.lost[key] >= alerts.granted[key]
        <5>1. Recent("lost", key)
          BY <3>3, <3>4, <3>6, <4>1
        <5> QED
          BY <3>1, <5>1
      <4>2. CASE alerts.tried[key] >= alerts.granted[key]
        <5>1. Recent("tried", key)
          BY <3>3, <3>4, <3>6, <4>2
        <5> QED
          BY <3>1, <5>1
      <4>3. CASE \E d \in Call : Sending(d, key)
        BY <3>1, <4>3 DEF Sending
      <4> QED
        BY <3>6, <4>1, <4>2, <4>3 DEF AlertInv, SendOK
    <3> QED
      BY <3>3, <3>5, <3>6
  <2> QED
    BY <2>1, <2>2, <2>3
<1> QED
  BY <1>1, CountInductive, AlertInductive, PTL DEF Spec, NobodySilenced, Relied

-----------------------------------------------------------------------------
(***************************************************************************)
(* A sender that is too bad is noticed.                                    *)
(***************************************************************************)
BadOf(b) == added["bounce"][b] + added["spam"][b]
TooBad(b) ==
  /\ BadOf(b) > 0
  /\ sentAtBad[b] >= MinSample
  /\ 100 * BadOf(b) >= ThresholdPct * Max({1, added["sent"][b]})

Judging(c) == At(c, "rates") \/ At(c, "flag")
JudgedBy(c, b) == Unjudged(c) /\ call[c].bucket = b

(* Whoever judges reads the bucket it counted in; as long as a bucket is   *)
(* too bad, somebody is judging it or has flagged it.                      *)
ReadsItsOwn ==
  \A c \in Call : Judging(c) => call[c].reads = call[c].bucket \/ call[c].bucket \in judged.unread
Settled(b) == b \in judged.unread \/ b \in judged.flagged \/ ~TooBad(b)
NoticeInv ==
  /\ ReadsItsOwn
  /\ \A b \in BucketStart : Settled(b) \/ \E c \in Call : JudgedBy(c, b)

LEMMA MaxLemma ==
  ASSUME NEW n \in Nat
  PROVE  Max({1, n}) = IF n > 1 THEN n ELSE 1
<1>1. ASSUME NEW m \in {1, n}, \A x \in {1, n} : m >= x
      PROVE  Max({1, n}) = m
  <2>1. Max({1, n}) \in {1, n} /\ \A x \in {1, n} : Max({1, n}) >= x
    BY <1>1 DEF Max
  <2> QED
    BY <1>1, <2>1
<1> QED
  BY <1>1

LEMMA AddedTypes ==
  ASSUME TypeOK, NEW b \in BucketStart
  PROVE  /\ added["sent"][b] \in Nat /\ BadOf(b) \in Nat /\ sentAtBad[b] \in Nat
         /\ MinSample \in Nat /\ ThresholdPct \in Nat
BY FeedbackAssumption DEF TypeOK, BadOf, Kind, Outcome

(* Accepting more mail does not make a sender worse.                       *)
LEMMA MoreSentIsBetter ==
  ASSUME TypeOK, TypeOK', NEW b \in BucketStart, TooBad(b)',
         BadOf(b)' = BadOf(b), sentAtBad'[b] = sentAtBad[b], added["sent"][b] <= added'["sent"][b]
  PROVE  TooBad(b)
<1> DEFINE m == Max({1, added["sent"][b]})
           n == Max({1, added'["sent"][b]})
<1>1. added["sent"][b] \in Nat /\ added'["sent"][b] \in Nat /\ ThresholdPct \in Nat /\ BadOf(b) \in Nat
  BY AddedTypes DEF TypeOK, Kind
<1>2. m \in Nat /\ n \in Nat /\ m <= n
  BY <1>1, MaxLemma
<1>3. 100 * BadOf(b) >= ThresholdPct * n /\ BadOf(b) > 0 /\ sentAtBad[b] >= MinSample
  BY DEF TooBad
<1> HIDE DEF m, n
<1>4. ThresholdPct * m <= ThresholdPct * n
  BY <1>1, <1>2
<1>5. 100 * BadOf(b) >= ThresholdPct * m
  <2>1. 100 * BadOf(b) \in Nat /\ ThresholdPct * m \in Nat /\ ThresholdPct * n \in Nat
    BY <1>1, <1>2
  <2> QED
    BY <1>3, <1>4, <2>1
<1> QED
  BY <1>3, <1>5 DEF TooBad, m

(* One call goes on; what that has to do for the bucket it judges.         *)
LEMMA OneJudgeLemma ==
  ASSUME NoticeInv, NEW c \in Call, \A d \in Call \ {c} : call'[d] = call[d],
         judged.unread \subseteq judged'.unread, judged.flagged \subseteq judged'.flagged,
         Judging(c)' => call'[c].reads = call'[c].bucket \/ call'[c].bucket \in judged'.unread,
         \A b \in BucketStart : TooBad(b)' => TooBad(b) \/ JudgedBy(c, b)',
         \A b \in BucketStart : JudgedBy(c, b) => Settled(b)' \/ JudgedBy(c, b)'
  PROVE  NoticeInv'
<1>1. ReadsItsOwn'
  BY DEF NoticeInv, ReadsItsOwn, Judging, At
<1>2. ASSUME NEW b \in BucketStart PROVE Settled(b)' \/ \E d \in Call : JudgedBy(d, b)'
  <2>1. CASE Settled(b)
    BY <2>1 DEF Settled
  <2>2. ASSUME NEW d \in Call, JudgedBy(d, b) PROVE Settled(b)' \/ \E e \in Call : JudgedBy(e, b)'
    <3>1. CASE d = c
      BY <2>2, <3>1
    <3>2. CASE d # c
      BY <2>2, <3>2 DEF JudgedBy, Unjudged, At
    <3> QED
      BY <3>1, <3>2
  <2> QED
    BY <2>1, <2>2 DEF NoticeInv
<1> QED
  BY <1>1, <1>2 DEF NoticeInv

(* The counters that a judge reads are complete, so a bucket it lets pass  *)
(* is not too bad.                                                         *)
LEMMA FairJudge ==
  ASSUME CountInv, NEW c \in Call, At(c, "rates"), call[c].reads = call[c].bucket,
         ~TooHigh(Rates(call[c].reads))
  PROVE  ~TooBad(call[c].bucket)
<1> DEFINE b == call[c].bucket
<1>1. /\ b \in BucketStart /\ b \in Int /\ Bucket \in Nat /\ MaxLag \in Nat /\ clock \in Nat
      /\ call[c].since \in Nat /\ call[c].skew \in Nat
  <2>1. Time \subseteq Nat /\ Skews \subseteq Nat /\ Bucket \in Nat /\ MaxLag \in Nat
    BY FeedbackAssumption DEF Time
  <2>2. /\ call[c].bucket \in BucketStart /\ call[c].since \in Time /\ call[c].skew \in Skews
        /\ clock \in Time
    BY InFlightFields DEF CountInv, TypeOK, At
  <2> QED
    BY <2>1, <2>2, BucketsAreIntegers
<1>2. clock < BucketEnd(b) + MaxLag
  <2>1. clock <= call[c].since + MaxLag /\ call[c].since + call[c].skew < BucketEnd(b)
    BY DEF CountInv, CallsTimely, Timely, At
  <2>2. BucketEnd(b) \in Int
    BY <1>1 DEF BucketEnd
  <2> HIDE DEF b
  <2> QED
    BY <1>1, <2>1, <2>2
<1>3. \A k \in Kind : counter[k][b] = added[k][b]
  BY <1>1, <1>2 DEF CountInv, NothingForgotten
<1>4. /\ Rates(b)["sent"] = added["sent"][b]
      /\ Rates(b)["bounce"] + Rates(b)["spam"] = BadOf(b)
  BY <1>3 DEF Rates, BadOf, Kind, Outcome
<1>5. sentAtBad[b] <= added["sent"][b]
  BY <1>1 DEF CountInv, CountersKept, Kind
<1>6. /\ added["sent"][b] \in Nat /\ BadOf(b) \in Nat /\ sentAtBad[b] \in Nat
      /\ MinSample \in Nat /\ ThresholdPct \in Nat
  BY <1>1, AddedTypes DEF CountInv
<1>7. ~(/\ added["sent"][b] >= MinSample
        /\ 100 * BadOf(b) >= ThresholdPct * Max({1, added["sent"][b]}))
  BY <1>4 DEF TooHigh
<1> HIDE DEF b
<1>8. ~TooBad(b)
  BY <1>5, <1>6, <1>7 DEF TooBad
<1> QED
  BY <1>8 DEF b

LEMMA NoticeInductive == Spec => []NoticeInv
<1>1. Init => NoticeInv
  BY DEF Init, NoticeInv, ReadsItsOwn, Judging, At, Settled, TooBad, BadOf, Zero, Kind, Outcome
<1>2. CountInv /\ CountInv' /\ NoticeInv /\ [Next]_vars => NoticeInv'
  <2> SUFFICES ASSUME CountInv, CountInv', NoticeInv, [Next]_vars PROVE NoticeInv'
    OBVIOUS
  <2>0. /\ TypeOK /\ TypeOK' /\ CallsTimely /\ call \in [Call -> InFlight \cup {Idle}]
        /\ judged \in [flagged: SUBSET BucketStart, unread: SUBSET BucketStart]
    BY DEF CountInv, TypeOK
  <2>1. ASSUME UNCHANGED <<added, sentAtBad>>
        PROVE  \A b \in BucketStart : TooBad(b)' = TooBad(b)
    BY <2>1 DEF TooBad, BadOf
  (* A call that neither judged before nor does after. *)
  <2>2. ASSUME NEW c \in Call, ~Unjudged(c), ~Unjudged(c)', UNCHANGED <<added, sentAtBad, judged>>,
               \A d \in Call \ {c} : call'[d] = call[d]
        PROVE  NoticeInv'
    <3>1. ~Judging(c)'
      BY <2>2 DEF Judging, Unjudged
    <3> QED
      BY <2>1, <2>2, <3>1, OneJudgeLemma DEF JudgedBy
  <2>3. ASSUME NEW c \in Call, call[c] # Idle, Done(c), UNCHANGED clock
        PROVE  /\ ~Judging(c)' /\ ~Unjudged(c)'
               /\ \A d \in Call \ {c} : call'[d] = call[d]
    BY <2>0, <2>3, DoneLemma DEF Judging, Unjudged, At
  <2>4. ASSUME NEW c \in Call, NEW skew \in Skews,
               \/ \E rcpt \in Rcpts : Accept(c, rcpt, skew)
               \/ \E posted \in Batches : Ingest(c, posted, skew)
        PROVE  NoticeInv'
    <3>1. /\ UNCHANGED <<store, judged>> /\ call[c] = Idle
          /\ \A d \in Call \ {c} : call'[d] = call[d]
      BY <2>0, <2>4 DEF Accept, Ingest
    <3>2. call'[c] # Idle => call'[c].step = "count"
      BY <2>0, <2>4, <3>1 DEF Accept, Ingest, Recording
    <3> QED
      BY <2>2, <3>1, <3>2 DEF Unjudged, At, store
  <2>5. ASSUME NEW c \in Call, Count(c) \/ CountLost(c) PROVE NoticeInv'
    <3> DEFINE me == call[c]
    <3>1. /\ me # Idle /\ me.step \in {"count", "recount"} /\ me.kind \in Kind /\ me.n \in Nat
          /\ me.bucket \in BucketStart /\ UNCHANGED clock /\ me \in InFlight
          /\ added' = [added EXCEPT ![me.kind][me.bucket] = @ + me.n]
      BY <2>0, <2>5, InFlightFields DEF Count, CountLost, Counting, Incremented, At
    <3>2. \A b \in BucketStart : JudgedBy(c, b) => me.kind \in Bad /\ me.bucket = b
      BY <3>1 DEF JudgedBy, Unjudged, At
    (* A bad outcome: the bucket's call has it to judge. *)
    <3>3. ASSUME me.kind \in Bad, Unjudged(c)', call'[c].bucket = me.bucket, judged.unread \subseteq judged'.unread,
                 judged'.flagged = judged.flagged, \A d \in Call \ {c} : call'[d] = call[d],
                 Judging(c)' => call'[c].reads = call'[c].bucket \/ call'[c].bucket \in judged'.unread
          PROVE  NoticeInv'
      <4>1. sentAtBad' = [sentAtBad EXCEPT ![me.bucket] = counter["sent"][me.bucket]]
        BY <2>5, <3>3 DEF Count, CountLost, Incremented
      <4>2. ASSUME NEW b \in BucketStart, TooBad(b)', b # me.bucket PROVE TooBad(b)
        <5>1. /\ \A k \in Kind : added'[k][b] = added[k][b]
              /\ sentAtBad'[b] = sentAtBad[b]
          BY <2>0, <3>1, <4>1, <4>2 DEF TypeOK
        <5> QED
          BY <4>2, <5>1 DEF TooBad, BadOf, Kind, Outcome
      <4>3. \A b \in BucketStart : TooBad(b)' => TooBad(b) \/ JudgedBy(c, b)'
        BY <3>3, <4>2 DEF JudgedBy
      <4>4. \A b \in BucketStart : JudgedBy(c, b) => Settled(b)' \/ JudgedBy(c, b)'
        BY <3>2, <3>3 DEF JudgedBy
      <4> QED
        BY <3>3, <4>3, <4>4, OneJudgeLemma
    <3>4. CASE me.kind \in Bad /\ CountLost(c)
      <4> DEFINE new == [me EXCEPT !.step = "recount"]
      <4>1. /\ call' = [call EXCEPT ![c].step = "recount"] /\ UNCHANGED judged
        BY <3>4 DEF CountLost
      <4>2. call'[c] = new /\ \A d \in Call \ {c} : call'[d] = call[d]
        BY <2>0, <4>1
      <4>3. new \in InFlight /\ new.step = "recount" /\ new.kind = me.kind /\ new.bucket = me.bucket
        BY <3>1 DEF InFlight
      <4> HIDE DEF new
      <4>4. Unjudged(c)' /\ ~Judging(c)'
        BY <3>4, <4>2, <4>3, IdleAssumption DEF Unjudged, Judging, At
      <4> QED
        BY <3>3, <3>4, <4>1, <4>2, <4>3, <4>4
    <3>5. CASE me.kind \in Bad /\ Count(c)
      <4> DEFINE reads == BucketOf(clock + me.skew)
                 new == [me EXCEPT !.step = "rates", !.since = clock, !.reads = reads]
      <4>1. /\ call' = [call EXCEPT ![c].step = "rates", ![c].since = clock, ![c].reads = reads]
            /\ judged' = [judged EXCEPT !.unread =
                            IF reads = me.bucket THEN @ ELSE @ \cup {me.bucket}]
        BY <3>5 DEF Count
      <4>2. call'[c] = new /\ \A d \in Call \ {c} : call'[d] = call[d]
        BY <2>0, <4>1
      <4>3. reads \in BucketStart /\ clock \in Time
        BY <2>0, <3>1, BucketLemma DEF TypeOK, InFlight
      <4>4. /\ new \in InFlight /\ new.step = "rates" /\ new.bucket = me.bucket
            /\ new.reads = reads
        BY <3>1, <4>3 DEF InFlight
      <4>5. /\ judged.unread \subseteq judged'.unread /\ judged.flagged = judged'.flagged
            /\ reads = me.bucket \/ me.bucket \in judged'.unread
        BY <2>0, <4>1
      <4> HIDE DEF new, reads
      <4>6. Unjudged(c)'
        BY <4>2, <4>4, IdleAssumption DEF Unjudged, At
      <4> QED
        BY <3>3, <3>5, <4>2, <4>4, <4>5, <4>6
    <3>6. CASE me.kind \notin Bad
      <4>1. UNCHANGED <<sentAtBad, judged>>
        BY <2>5, <3>6 DEF Count, CountLost, Incremented
      <4>2. ~Judging(c)' /\ ~Unjudged(c)' /\ \A d \in Call \ {c} : call'[d] = call[d]
        <5>1. CASE Count(c)
          <6>1. Done(c)
            BY <3>6, <5>1 DEF Count
          <6> QED
            BY <2>3, <3>1, <6>1
        <5>2. CASE CountLost(c)
          <6>1. call' = [call EXCEPT ![c].step = "recount"]
            BY <5>2 DEF CountLost
          <6>2. /\ call'[c].step = "recount" /\ call'[c].kind = me.kind
                /\ \A d \in Call \ {c} : call'[d] = call[d]
            BY <2>0, <3>1, <6>1 DEF InFlight
          <6> QED
            BY <3>6, <6>2 DEF Judging, Unjudged, At
        <5> QED
          BY <2>5, <5>1, <5>2
      <4>3. ASSUME NEW b \in BucketStart, TooBad(b)' PROVE TooBad(b)
        <5>1. /\ added'["bounce"][b] = added["bounce"][b] /\ added'["spam"][b] = added["spam"][b]
              /\ added["sent"][b] <= added'["sent"][b]
          BY <2>0, <3>1, <3>6 DEF TypeOK, Bad, Kind, Outcome
        <5>2. BadOf(b)' = BadOf(b) /\ sentAtBad'[b] = sentAtBad[b]
          BY <4>1, <5>1 DEF BadOf
        <5> QED
          BY <2>0, <4>3, <5>1, <5>2, MoreSentIsBetter
      <4> QED
        BY <3>2, <3>6, <4>1, <4>2, <4>3, OneJudgeLemma
    <3> QED
      BY <2>5, <3>4, <3>5, <3>6
  <2>6. ASSUME NEW c \in Call, Judge(c) PROVE NoticeInv'
    <3>1. At(c, "rates") /\ call[c] # Idle /\ UNCHANGED <<store, judged>> /\ UNCHANGED clock
      BY <2>6 DEF Judge, At
    <3>2. CASE TooHigh(Rates(call[c].reads))
      <4>1. call' = [call EXCEPT ![c].step = "flag"] /\ call[c] \in InFlight
        BY <2>0, <2>6, <3>1, <3>2, InFlightFields DEF Judge
      <4>2. /\ call'[c].step = "flag" /\ call'[c] # Idle
            /\ call'[c].bucket = call[c].bucket /\ call'[c].reads = call[c].reads
            /\ \A d \in Call \ {c} : call'[d] = call[d]
        <5>1. call'[c] = [call[c] EXCEPT !.step = "flag"] /\ call'[c] \in InFlight
          BY <2>0, <4>1 DEF InFlight
        <5> QED
          BY <2>0, <4>1, <5>1, IdleAssumption DEF InFlight
      <4>3. Judging(c) /\ Judging(c)'
        BY <3>1, <4>2 DEF Judging, At
      <4>6. Unjudged(c) /\ Unjudged(c)'
        BY <4>3 DEF Judging, Unjudged
      <4>4. call[c].reads = call[c].bucket \/ call[c].bucket \in judged.unread
        BY <4>3 DEF NoticeInv, ReadsItsOwn
      <4>5. \A b \in BucketStart : JudgedBy(c, b) => JudgedBy(c, b)'
        BY <4>2, <4>6 DEF JudgedBy
      <4> QED
        BY <2>1, <3>1, <4>2, <4>4, <4>5, OneJudgeLemma DEF store
    <3>3. CASE ~TooHigh(Rates(call[c].reads))
      <4>1. Done(c)
        BY <2>6, <3>3 DEF Judge
      <4>2. ~Judging(c)' /\ \A d \in Call \ {c} : call'[d] = call[d]
        BY <2>3, <3>1, <4>1
      <4>3. ASSUME NEW b \in BucketStart, JudgedBy(c, b) PROVE Settled(b)'
        <5>1. CASE call[c].reads = b
          <6>1. ~TooBad(b)
            BY <3>1, <3>3, <4>3, <5>1, FairJudge DEF JudgedBy
          <6> QED
            BY <2>1, <3>1, <6>1 DEF store, Settled
        <5>2. CASE call[c].reads # b
          BY <3>1, <4>3, <5>2 DEF NoticeInv, ReadsItsOwn, JudgedBy, Judging, Settled
        <5> QED
          BY <5>1, <5>2
      <4> QED
        BY <2>1, <3>1, <4>2, <4>3, OneJudgeLemma DEF store, JudgedBy
    <3> QED
      BY <3>2, <3>3
  <2>7. ASSUME NEW c \in Call, Flag(c) PROVE NoticeInv'
    <3>1. /\ At(c, "flag") /\ UNCHANGED store
          /\ judged' = [judged EXCEPT !.flagged = @ \cup {call[c].reads}]
          /\ \E key \in Key : call' = [call EXCEPT ![c].step = "claim", ![c].key = key]
      BY <2>7 DEF Flag
    <3>2. ~Judging(c)' /\ ~Unjudged(c)' /\ \A d \in Call \ {c} : call'[d] = call[d]
      <4>1. call[c] \in InFlight
        BY <2>0, <3>1, InFlightFields DEF At
      <4>2. call'[c].step = "claim" /\ \A d \in Call \ {c} : call'[d] = call[d]
        BY <2>0, <3>1, <4>1 DEF InFlight
      <4> QED
        BY <4>2 DEF Judging, Unjudged, At
    <3>3. /\ judged'.unread = judged.unread /\ judged.flagged \subseteq judged'.flagged
          /\ call[c].reads \in judged'.flagged
      BY <2>0, <3>1
    <3>4. Judging(c)
      BY <3>1 DEF Judging, At
    <3>5. \A b \in BucketStart : JudgedBy(c, b) => Settled(b)'
      BY <3>3, <3>4 DEF NoticeInv, ReadsItsOwn, JudgedBy, Settled
    <3> QED
      BY <2>1, <3>1, <3>2, <3>3, <3>5, OneJudgeLemma DEF store, JudgedBy
  <2>8. ASSUME NEW c \in Call, Claim(c) \/ ClaimFails(c) \/ Send(c) PROVE NoticeInv'
    <3>1. /\ ~Unjudged(c) /\ call[c] # Idle /\ UNCHANGED <<store, judged>> /\ UNCHANGED clock
          /\ Done(c) \/ call' = [call EXCEPT ![c].step = "send"]
      BY <2>8 DEF Claim, ClaimFails, Send, At, Unjudged
    <3>2. ~Unjudged(c)' /\ \A d \in Call \ {c} : call'[d] = call[d]
      <4>1. CASE Done(c)
        BY <2>3, <3>1, <4>1
      <4>2. CASE call' = [call EXCEPT ![c].step = "send"]
        <5>1. call[c] \in InFlight
          BY <2>0, <3>1, InFlightFields
        <5> QED
          BY <2>0, <4>2, <5>1 DEF Unjudged, At, InFlight
      <4> QED
        BY <3>1, <4>1, <4>2
    <3> QED
      BY <2>2, <3>1, <3>2 DEF store
  <2>9. ASSUME NEW c \in Call, RedisFails(c) \/ Dies(c) PROVE NoticeInv'
    <3>1. /\ UNCHANGED store /\ UNCHANGED clock /\ call[c] # Idle
          /\ Done(c) \/ call' = [call EXCEPT ![c] = Idle]
      BY <2>9 DEF RedisFails, Dies, Counting, At, Caught
    <3>2. ~Judging(c)' /\ ~Unjudged(c)' /\ \A d \in Call \ {c} : call'[d] = call[d]
      <4>1. CASE Done(c)
        BY <2>3, <3>1, <4>1
      <4>2. CASE call' = [call EXCEPT ![c] = Idle]
        BY <2>0, <4>2 DEF Judging, Unjudged, At
      <4> QED
        BY <3>1, <4>1, <4>2
    <3>3. /\ judged.unread \subseteq judged'.unread /\ judged'.flagged = judged.flagged
          /\ Unjudged(c) => call[c].bucket \in judged'.unread
      BY <2>0, <2>9 DEF RedisFails, Dies, LeftUnjudged
    <3>4. \A b \in BucketStart : JudgedBy(c, b) => Settled(b)'
      BY <3>3 DEF JudgedBy, Settled
    <3> QED
      BY <2>1, <3>1, <3>2, <3>3, <3>4, OneJudgeLemma DEF store, JudgedBy
  <2>10. CASE Tick \/ UNCHANGED vars \/ \E c \in Call : ClaimLost(c)
    <3>1. UNCHANGED <<added, sentAtBad, call, judged>>
      BY <2>10 DEF Tick, vars, ClaimLost, store
    <3> QED
      BY <3>1 DEF NoticeInv, ReadsItsOwn, Judging, Unjudged, At, JudgedBy, Settled, TooBad, BadOf
  <2> QED
    BY <2>4, <2>5, <2>6, <2>7, <2>8, <2>9, <2>10 DEF Next
<1> QED
  BY <1>1, <1>2, CountInductive, PTL DEF Spec

(* record(): a sender whose bucket was too bad when its last bad outcome   *)
(* was counted, and still is, has been flagged, however accepts, reports,  *)
(* faults and the replicas' clocks interleaved.                            *)
THEOREM BadSendersNoticed == Spec => []NoticesBadSenders
<1>1. NoticeInv => NoticesBadSenders
  BY DEF NoticeInv, Settled, TooBad, BadOf, JudgedBy, NoticesBadSenders
<1> QED
  BY <1>1, NoticeInductive, PTL

-----------------------------------------------------------------------------
(***************************************************************************)
(* Sums over finite functions, as the community modules define them.       *)
(***************************************************************************)
(* Every non-empty set of naturals has a least element.                    *)
LEMMA LeastNat == ASSUME NEW T \in SUBSET Nat, T # {} PROVE \E n \in T : \A m \in T : n <= m
<1> DEFINE R == OpToRel(<, Nat)
<1>1. IsWellFoundedOn(R, Nat)
  BY NatLessThanWellFounded
<1>2. PICK n \in T : \A m \in T : ~(<<m, n>> \in R)
  <2> HIDE DEF R
  <2> QED  BY <1>1, WFMin
<1>3. \A m \in T : ~(m < n)
  BY <1>2 DEF OpToRel
<1> QED  BY <1>3

(* Among subsets of a finite set, one from which nothing can be taken away. *)
LEMMA LeastSubset ==
  ASSUME NEW S, IsFiniteSet(S), NEW W \in SUBSET (SUBSET S), W # {}
  PROVE  \E s \in W : \A p \in s : s \ {p} \notin W
<1> DEFINE sizes == {Cardinality(s) : s \in W}
<1>1. \A s \in W : IsFiniteSet(s) /\ Cardinality(s) \in Nat
  BY FS_Subset, FS_CardinalityType
<1>2. sizes \in SUBSET Nat /\ sizes # {}
  BY <1>1
<1>3. PICK n \in sizes : \A m \in sizes : n <= m
  <2> HIDE DEF sizes
  <2> QED  BY <1>2, LeastNat
<1>4. PICK s \in W : n = Cardinality(s)
  BY <1>3
<1>5. ASSUME NEW p \in s PROVE s \ {p} \notin W
  <2>1. IsFiniteSet(s) /\ n \in Nat
    BY <1>1, <1>4
  <2>2. Cardinality(s \ {p}) = n - 1
    BY <1>4, <2>1, FS_RemoveElement
  <2>3. SUFFICES ASSUME s \ {p} \in W PROVE FALSE
    OBVIOUS
  <2>4. n <= n - 1
    BY <1>3, <2>2, <2>3
  <2> QED  BY <2>1, <2>4
<1> QED  BY <1>4, <1>5

Pick(s) == CHOOSE p \in s : TRUE
Sums(f, h) ==
  f = [s \in SUBSET (DOMAIN h) |-> IF s = {} THEN 0 ELSE h[Pick(s)] + f[s \ {Pick(s)}]]
SumOf(h) == CHOOSE f : Sums(f, h)

LEMMA PickLemma == ASSUME NEW s, s # {} PROVE Pick(s) \in s
BY DEF Pick

LEMMA SumLemma == ASSUME NEW h PROVE SumFunction(h) = SumOf(h)[DOMAIN h]
BY DEF SumFunction, SumFunctionOnSet, FoldFunctionOnSet, MapThenFoldSet, Sums, Pick, SumOf

(* The recursion over the subsets of a finite domain is well founded.      *)
LEMMA SumExists ==
  ASSUME NEW h, IsFiniteSet(DOMAIN h)
  PROVE  Sums(SumOf(h), h)
<1> DEFINE S == DOMAIN h
           Small(n) == {s \in SUBSET S : Cardinality(s) <= n}
           UpTo(f, n) == f = [s \in Small(n) |-> IF s = {} THEN 0 ELSE h[Pick(s)] + f[s \ {Pick(s)}]]
           Wrong == {n \in Nat : ~\E f : UpTo(f, n)}
<1>1. \A s \in SUBSET S : IsFiniteSet(s) /\ Cardinality(s) \in Nat
  BY FS_Subset, FS_CardinalityType
<1>2. \A s \in SUBSET S : s # {} => /\ s \ {Pick(s)} \in SUBSET S
                                    /\ Cardinality(s \ {Pick(s)}) = Cardinality(s) - 1
  <2> SUFFICES ASSUME NEW s \in SUBSET S, s # {}
               PROVE  s \ {Pick(s)} \in SUBSET S /\ Cardinality(s \ {Pick(s)}) = Cardinality(s) - 1
    OBVIOUS
  <2> HIDE DEF S
  <2> QED  BY <1>1, PickLemma, FS_RemoveElement
<1>3. Wrong = {}
  <2> SUFFICES ASSUME Wrong # {} PROVE FALSE
    OBVIOUS
  <2>1. PICK n \in Wrong : \A m \in Wrong : n <= m
    <3>1. Wrong \in SUBSET Nat /\ Wrong # {}
      OBVIOUS
    <3> HIDE DEF Wrong
    <3> QED  BY <3>1, LeastNat
  <2>2. CASE n = 0
    <3> DEFINE g == [s \in Small(0) |-> 0]
    <3>1. \A s \in Small(0) : s = {}
      <4> SUFFICES ASSUME NEW s \in SUBSET S, Cardinality(s) <= 0 PROVE s = {}
        OBVIOUS
      <4>1. Cardinality(s) = 0 /\ IsFiniteSet(s)
        BY <1>1
      <4> QED  BY <4>1, FS_EmptySet
    <3>2. UpTo(g, 0)
      <4> HIDE DEF S, Small
      <4> QED  BY <3>1
    <3> QED
      <4> HIDE DEF UpTo, g
      <4> QED  BY <2>1, <2>2, <3>2
  <2>3. CASE n # 0
    <3>1. n \in Nat /\ n - 1 \in Nat /\ n - 1 \notin Wrong
      <4>1. n \in Nat
        OBVIOUS
      <4> HIDE DEF Wrong
      <4> QED  BY <2>1, <2>3, <4>1
    <3>2. PICK f : UpTo(f, n - 1)
      <4> HIDE DEF UpTo
      <4> QED  BY <3>1
    <3> DEFINE g == [s \in Small(n) |-> IF s = {} THEN 0 ELSE h[Pick(s)] + f[s \ {Pick(s)}]]
    <3>3. ASSUME NEW s \in Small(n), s # {}
          PROVE  s \ {Pick(s)} \in Small(n) /\ s \ {Pick(s)} \in Small(n - 1)
      <4> HIDE DEF S
      <4>1. s \in SUBSET S /\ Cardinality(s) \in Nat /\ Cardinality(s) <= n
        BY <1>1
      <4> QED  BY <1>2, <3>1, <3>3, <4>1
    <3>4. ASSUME NEW t \in Small(n - 1), t \in Small(n) PROVE g[t] = f[t]
      <4>1. f[t] = IF t = {} THEN 0 ELSE h[Pick(t)] + f[t \ {Pick(t)}]
        <5> HIDE DEF Small
        <5> QED  BY <3>2, <3>4
      <4>2. g[t] = IF t = {} THEN 0 ELSE h[Pick(t)] + f[t \ {Pick(t)}]
        <5> HIDE DEF Small
        <5> QED  BY <3>4
      <4> QED  BY <4>1, <4>2
    <3>5. g = [s \in Small(n) |-> IF s = {} THEN 0 ELSE h[Pick(s)] + g[s \ {Pick(s)}]]
      <4>1. ASSUME NEW s \in Small(n), s # {} PROVE g[s \ {Pick(s)}] = f[s \ {Pick(s)}]
        <5> HIDE DEF g, Small
        <5> QED  BY <3>3, <3>4, <4>1
      <4>2. ASSUME NEW s \in Small(n)
            PROVE  (IF s = {} THEN 0 ELSE h[Pick(s)] + f[s \ {Pick(s)}])
                     = IF s = {} THEN 0 ELSE h[Pick(s)] + g[s \ {Pick(s)}]
        <5> HIDE DEF g, Small
        <5> QED  BY <4>1
      <4>3. g = [s \in Small(n) |-> IF s = {} THEN 0 ELSE h[Pick(s)] + f[s \ {Pick(s)}]]
        OBVIOUS
      <4> HIDE DEF g, Small
      <4> QED  BY <4>2, <4>3
    <3>6. UpTo(g, n)
      <4> HIDE DEF g, Small
      <4> QED  BY <3>5
    <3> QED
      <4> HIDE DEF UpTo, g
      <4> QED  BY <2>1, <3>6
  <2> QED  BY <2>2, <2>3
<1>4. Small(Cardinality(S)) = SUBSET S
  BY FS_Subset
<1>5. Cardinality(S) \in Nat
  BY <1>1
<1>6. PICK f : UpTo(f, Cardinality(S))
  <2> HIDE DEF UpTo
  <2> QED  BY <1>3, <1>5
<1>7. Sums(f, h)
  <2> HIDE DEF Small
  <2> QED  BY <1>4, <1>6 DEF Sums
<1> QED  BY <1>7 DEF SumOf

LEMMA SumTyped ==
  ASSUME NEW S, IsFiniteSet(S), NEW h \in [S -> Int]
  PROVE  /\ \A s \in SUBSET S : SumOf(h)[s] \in Int
         /\ \A s \in SUBSET S : SumOf(h)[s] = IF s = {} THEN 0 ELSE h[Pick(s)] + SumOf(h)[s \ {Pick(s)}]
         /\ SumFunction(h) = SumOf(h)[S] /\ SumFunction(h) \in Int
<1> DEFINE f == SumOf(h)
           Wrong == {s \in SUBSET S : f[s] \notin Int}
<1>1. DOMAIN h = S
  OBVIOUS
<1>2. \A s \in SUBSET S : f[s] = IF s = {} THEN 0 ELSE h[Pick(s)] + f[s \ {Pick(s)}]
  <2>1. Sums(f, h)
    BY <1>1, SumExists
  <2> HIDE DEF f
  <2> QED  BY <1>1, <2>1 DEF Sums
<1> HIDE DEF f
<1>3. Wrong = {}
  <2> SUFFICES ASSUME Wrong # {} PROVE FALSE
    OBVIOUS
  <2>1. PICK s \in Wrong : \A p \in s : s \ {p} \notin Wrong
    <3>1. Wrong \in SUBSET (SUBSET S)
      OBVIOUS
    <3> HIDE DEF Wrong
    <3> QED  BY <3>1, LeastSubset
  <2>2. s # {} /\ Pick(s) \in s
    <3>1. s # {}
      BY <1>2
    <3> QED  BY <3>1, PickLemma
  <2>3. f[s \ {Pick(s)}] \in Int /\ h[Pick(s)] \in Int
    BY <2>1, <2>2
  <2> QED  BY <1>2, <2>2, <2>3
<1>4. SumFunction(h) = f[S]
  BY <1>1, SumLemma DEF f
<1> QED  BY <1>2, <1>3, <1>4 DEF f

(* One value changes by d, and so does the sum.                            *)
LEMMA SumChanges ==
  ASSUME NEW S, IsFiniteSet(S), NEW h \in [S -> Int], NEW g \in [S -> Int],
         NEW x \in S, NEW d \in Int, g[x] = h[x] + d, \A y \in S \ {x} : g[y] = h[y]
  PROVE  SumFunction(g) = SumFunction(h) + d
<1> DEFINE e == SumOf(h)
           f == SumOf(g)
           More(s) == IF x \in s THEN d ELSE 0
           Wrong == {s \in SUBSET S : f[s] # e[s] + More(s)}
<1>1. /\ \A s \in SUBSET S : e[s] \in Int /\ f[s] \in Int
      /\ \A s \in SUBSET S : e[s] = IF s = {} THEN 0 ELSE h[Pick(s)] + e[s \ {Pick(s)}]
      /\ \A s \in SUBSET S : f[s] = IF s = {} THEN 0 ELSE g[Pick(s)] + f[s \ {Pick(s)}]
      /\ SumFunction(h) = e[S] /\ SumFunction(g) = f[S]
  <2>1. /\ \A s \in SUBSET S : e[s] \in Int
        /\ \A s \in SUBSET S : e[s] = IF s = {} THEN 0 ELSE h[Pick(s)] + e[s \ {Pick(s)}]
        /\ SumFunction(h) = e[S]
    BY SumTyped
  <2>2. /\ \A s \in SUBSET S : f[s] \in Int
        /\ \A s \in SUBSET S : f[s] = IF s = {} THEN 0 ELSE g[Pick(s)] + f[s \ {Pick(s)}]
        /\ SumFunction(g) = f[S]
    BY SumTyped
  <2> HIDE DEF e, f
  <2> QED  BY <2>1, <2>2
<1> HIDE DEF e, f
<1>2. Wrong = {}
  <2> SUFFICES ASSUME Wrong # {} PROVE FALSE
    OBVIOUS
  <2>1. PICK s \in Wrong : \A p \in s : s \ {p} \notin Wrong
    <3>1. Wrong \in SUBSET (SUBSET S)
      OBVIOUS
    <3> HIDE DEF Wrong
    <3> QED  BY <3>1, LeastSubset
  <2>2. s # {}
    <3>1. {} \in SUBSET S /\ More({}) = 0
      OBVIOUS
    <3>2. e[{}] = 0 /\ f[{}] = 0
      BY <1>1, <3>1
    <3>3. f[s] # e[s] + More(s)
      OBVIOUS
    <3> HIDE DEF More
    <3>4. e[{}] + More({}) = 0
      BY <3>1, <3>2
    <3> HIDE DEF Wrong
    <3> QED  BY <3>2, <3>3, <3>4
  <2> DEFINE p == Pick(s)
             t == s \ {p}
  <2>3. p \in s
    BY <2>2, PickLemma
  <2> HIDE DEF p
  <2>4. t \in SUBSET S /\ f[t] = e[t] + More(t) /\ e[t] \in Int /\ f[t] \in Int
    BY <1>1, <2>1, <2>3
  <2>5. f[s] = g[p] + f[t] /\ e[s] = h[p] + e[t]
    BY <1>1, <2>2 DEF p
  <2>6. g[p] \in Int /\ h[p] \in Int /\ p \in S
    BY <2>3
  <2>7. g[p] + More(t) = h[p] + More(s)
    <3>1. CASE p = x
      BY <2>3, <2>6, <3>1
    <3>2. CASE p # x
      BY <2>3, <2>6, <3>2
    <3> QED  BY <3>1, <3>2
  <2>8. f[s] = e[s] + More(s)
    <3>1. More(t) \in Int /\ More(s) \in Int
      OBVIOUS
    <3> HIDE DEF More, t
    <3> QED  BY <2>4, <2>5, <2>6, <2>7, <3>1
  <2> QED  BY <2>1, <2>8
<1>3. f[S] = e[S] + d
  BY <1>2
<1> QED  BY <1>1, <1>3

LEMMA SumOfZeros ==
  ASSUME NEW S, IsFiniteSet(S), NEW h \in [S -> Int], \A x \in S : h[x] = 0
  PROVE  SumFunction(h) = 0
<1> DEFINE e == SumOf(h)
           Wrong == {s \in SUBSET S : e[s] # 0}
<1>1. /\ \A s \in SUBSET S : e[s] = IF s = {} THEN 0 ELSE h[Pick(s)] + e[s \ {Pick(s)}]
      /\ SumFunction(h) = e[S]
  BY SumTyped
<1> HIDE DEF e
<1>2. Wrong = {}
  <2> SUFFICES ASSUME Wrong # {} PROVE FALSE
    OBVIOUS
  <2>1. PICK s \in Wrong : \A p \in s : s \ {p} \notin Wrong
    <3>1. Wrong \in SUBSET (SUBSET S)
      OBVIOUS
    <3> HIDE DEF Wrong
    <3> QED  BY <3>1, LeastSubset
  <2>2. s # {} /\ Pick(s) \in s
    <3>1. s # {}
      BY <1>1
    <3> QED  BY <3>1, PickLemma
  <2>3. e[s \ {Pick(s)}] = 0 /\ h[Pick(s)] = 0
    BY <2>1, <2>2
  <2>4. s \in SUBSET S /\ e[s] # 0
    OBVIOUS
  <2>5. e[s] = h[Pick(s)] + e[s \ {Pick(s)}]
    BY <1>1, <2>2, <2>4
  <2> QED  BY <2>3, <2>4, <2>5
<1> QED  BY <1>1, <1>2

-----------------------------------------------------------------------------
(***************************************************************************)
(* Each report of a batch is counted, or its command fails.                *)
(***************************************************************************)
(* The reports of a call that have not been counted yet.                   *)
Left(me) ==
  IF me = Idle \/ me.kind = "sent" THEN 0
  ELSE IF me.step \in {"count", "recount"} THEN Len(me.todo) ELSE Len(me.todo) - 1
LeftBy == [c \in Call |-> Left(call[c])]

Shape(me) ==
  me # Idle =>
    /\ me.kind = "sent" => me.todo = << >> /\ me.step \in {"count", "recount"}
    /\ me.kind # "sent" => me.todo # << >> /\ me.n = 1
CallsShaped == \A c \in Call : Shape(call[c])

Balance ==
  SumFunction(CountedReports) + SumFunction(LeftBy)
    = outcomes.named - outcomes.failed + outcomes.unanswered

ReportInv == CallsShaped /\ (outcomes.died = 0 => Balance)

Reported == Outcome \X BucketStart

LEMMA ReportedFinite == IsFiniteSet(Reported) /\ IsFiniteSet(Call)
<1>1. IsFiniteSet(Outcome)
  <2>1. IsFiniteSet({"ok"}) /\ IsFiniteSet({"bounce"}) /\ IsFiniteSet({"spam"}) /\ IsFiniteSet({"defer"})
    BY FS_Singleton
  <2>2. Outcome = ({"ok"} \cup {"bounce"}) \cup ({"spam"} \cup {"defer"})
    BY DEF Outcome
  <2>3. IsFiniteSet({"ok"} \cup {"bounce"}) /\ IsFiniteSet({"spam"} \cup {"defer"})
    BY <2>1, FS_Union
  <2> QED  BY <2>2, <2>3, FS_Union
<1>2. IsFiniteSet(Time)
  BY FeedbackAssumption, FS_Interval DEF Time
<1>3. IsFiniteSet(Skews)
  <2>1. Skews \subseteq 0..Slack
    <3>1. MaxLag \in Nat /\ Slack \in Nat /\ Skews \subseteq Nat
      BY FeedbackAssumption
    <3> QED  BY <3>1, SlackCoversSkew
  <2>2. IsFiniteSet(0..Slack)
    BY FeedbackAssumption, FS_Interval
  <2> QED  BY <2>1, <2>2, FS_Subset
<1>4. IsFiniteSet(Time \X Skews)
  BY <1>2, <1>3, FS_Product
<1>5. IsFiniteSet(BucketStart)
  <2> DEFINE f == [ts \in Time \X Skews |-> BucketOf(ts[1] + ts[2])]
  <2>1. f \in Surjection(Time \X Skews, BucketStart)
    <3>1. f \in [Time \X Skews -> BucketStart]
      BY DEF BucketStart
    <3>2. ASSUME NEW t \in Time, NEW k \in Skews
          PROVE  \E ts \in Time \X Skews : f[ts] = BucketOf(t + k)
      <4>1. <<t, k>> \in Time \X Skews /\ f[<<t, k>>] = BucketOf(t + k)
        OBVIOUS
      <4> QED  BY <4>1
    <3> HIDE DEF f
    <3>3. \A b \in BucketStart : \E ts \in Time \X Skews : f[ts] = b
      <4> SUFFICES ASSUME NEW b \in BucketStart PROVE \E ts \in Time \X Skews : f[ts] = b
        OBVIOUS
      <4>1. PICK t \in Time, k \in Skews : b = BucketOf(t + k)
        BY DEF BucketStart
      <4> QED  BY <3>2, <4>1
    <3> QED  BY <3>1, <3>3 DEF Surjection
  <2> HIDE DEF f
  <2> QED  BY <1>4, <2>1, FS_Surjection
<1> QED  BY <1>1, <1>5, FS_Product, CallAssumption DEF Reported

LEMMA LeftTyped ==
  ASSUME TypeOK, CallsShaped
  PROVE  LeftBy \in [Call -> Int] /\ CountedReports \in [Reported -> Int]
<1>1. ASSUME NEW c \in Call PROVE Left(call[c]) \in Int
  BY InFlightFields DEF Left
<1>2. \A kb \in Reported : added[kb[1]][kb[2]] \in Int
  BY DEF Reported, TypeOK, Kind
<1> QED  BY <1>1, <1>2 DEF LeftBy, CountedReports, Reported

(* The terms of the balance after one call's step.                         *)
LEMMA OneLeft ==
  ASSUME TypeOK, TypeOK', CallsShaped, NEW c \in Call, \A d \in Call \ {c} : call'[d] = call[d],
         Shape(call'[c]), NEW n \in Int, Left(call'[c]) = Left(call[c]) + n
  PROVE  CallsShaped' /\ SumFunction(LeftBy)' = SumFunction(LeftBy) + n
<1>1. CallsShaped'
  BY DEF CallsShaped
<1>2. LeftBy \in [Call -> Int] /\ LeftBy' \in [Call -> Int]
  <2>1. LeftBy \in [Call -> Int]
    BY LeftTyped
  <2>2. ASSUME NEW d \in Call PROVE Left(call'[d]) \in Int
    <3>1. CASE d = c
      BY <2>1, <3>1 DEF LeftBy
    <3>2. CASE d # c
      BY <2>1, <3>2 DEF LeftBy
    <3> QED  BY <3>1, <3>2
  <2> QED  BY <2>1, <2>2 DEF LeftBy
<1>3. LeftBy'[c] = LeftBy[c] + n /\ \A d \in Call \ {c} : LeftBy'[d] = LeftBy[d]
  BY DEF LeftBy
<1>4. SumFunction(LeftBy') = SumFunction(LeftBy) + n
  BY <1>2, <1>3, ReportedFinite, SumChanges
<1> QED  BY <1>1, <1>4

(* record() has returned: there is one report less to come.                *)
LEMMA DoneLeft ==
  ASSUME TypeOK, CallsShaped, NEW c \in Call, call[c] # Idle, Done(c), UNCHANGED clock
  PROVE  /\ \A d \in Call \ {c} : call'[d] = call[d]
         /\ Shape(call'[c])
         /\ Left(call'[c]) = IF call[c].kind = "sent" THEN 0 ELSE Len(call[c].todo) - 1
<1> DEFINE me == call[c]
           rest == Tail(me.todo)
           new == IF me.todo = << >> THEN Idle ELSE Recording(rest, me.skew)
<1>1. call'[c] = new /\ \A d \in Call \ {c} : call'[d] = call[d]
  BY DEF Done, TypeOK
<1>2. me.todo \in Seq(Report) /\ me.skew \in Skews /\ Shape(me)
  BY InFlightFields DEF CallsShaped
<1>3. CASE me.kind = "sent"
  BY <1>1, <1>2, <1>3 DEF Shape, Left
<1>4. CASE me.kind # "sent"
  <2>1. me.todo # << >> /\ rest \in Seq(Report) /\ Len(rest) = Len(me.todo) - 1
    BY <1>2, <1>4 DEF Shape
  <2>2. CASE rest = << >>
    <3>1. new = Idle /\ Len(me.todo) - 1 = 0
      BY <2>1, <2>2 DEF Recording
    <3> QED  BY <1>1, <1>4, <3>1 DEF Shape, Left
  <2>3. CASE rest # << >>
    <3>1. /\ new.todo = rest /\ new.kind = Classify(Head(rest)) /\ new.n = 1 /\ new.step = "count"
      BY <2>1, <2>3 DEF Recording
    <3>2. new \in InFlight /\ new # Idle
      <4>1. new \in InFlight \cup {Idle} /\ new = Recording(rest, me.skew)
        BY <1>2, <2>1, RecordingLemma
      <4>2. new # Idle
        <5> DEFINE b == BucketOf(clock + me.skew)
                   r == [todo |-> rest, kind |-> Classify(Head(rest)), n |-> 1, skew |-> me.skew,
                         since |-> clock, bucket |-> b, reads |-> b, key |-> "bounce", step |-> "count"]
        <5>1. r \in InFlight
          <6>1. clock \in Time /\ b \in BucketStart
            BY <1>2, BucketLemma DEF TypeOK
          <6>2. Classify(Head(rest)) \in Kind
            BY DEF Classify, Kind, Outcome
          <6> QED  BY <1>2, <2>1, <6>1, <6>2 DEF InFlight, Key
        <5>2. new = r
          BY <2>1, <2>3 DEF Recording
        <5> HIDE DEF r
        <5> QED  BY <5>1, <5>2, IdleAssumption
      <4> QED  BY <4>1, <4>2
    <3>3. Classify(Head(rest)) # "sent"
      BY DEF Classify
    <3> HIDE DEF new
    <3> QED  BY <1>1, <1>4, <2>1, <2>3, <3>1, <3>2, <3>3 DEF Shape, Left
  <2> QED  BY <2>2, <2>3
<1> QED  BY <1>1, <1>3, <1>4

LEMMA SameSums ==
  ASSUME UNCHANGED <<added, outcomes>>, TypeOK, TypeOK', ReportInv, NEW c \in Call,
         \A d \in Call \ {c} : call'[d] = call[d], Shape(call'[c]), Left(call'[c]) = Left(call[c])
  PROVE  ReportInv'
<1>1. CallsShaped
  BY DEF ReportInv
<1>2. LeftBy \in [Call -> Int]
  BY <1>1, LeftTyped
<1>3. Left(call[c]) \in Int
  BY <1>2 DEF LeftBy
<1>4. Left(call'[c]) = Left(call[c]) + 0 /\ 0 \in Int
  BY <1>3
<1>5. CallsShaped' /\ SumFunction(LeftBy)' = SumFunction(LeftBy) + 0
  BY <1>1, <1>4, OneLeft
<1>6. SumFunction(LeftBy) \in Int
  BY <1>2, ReportedFinite, SumTyped
<1>7. CountedReports' = CountedReports
  BY DEF CountedReports
<1> QED  BY <1>5, <1>6, <1>7 DEF ReportInv, Balance

LEMMA IngestReports ==
  ASSUME ReportInv, TypeOK, TypeOK', NEW c \in Call, NEW posted \in Batches, NEW skew \in Skews,
         Ingest(c, posted, skew)
  PROVE  ReportInv'
<1> DEFINE reports == Named(posted)
           b == BucketOf(clock + skew)
           r == [todo |-> reports, kind |-> Classify(Head(reports)), n |-> 1, skew |-> skew,
                 since |-> clock, bucket |-> b, reads |-> b, key |-> "bounce", step |-> "count"]
<1>1. /\ reports \in Seq(Report) /\ reports # << >> /\ call[c] = Idle
      /\ UNCHANGED added /\ outcomes' = [outcomes EXCEPT !.named = @ + Len(reports)]
      /\ call' = [call EXCEPT ![c] = r]
  BY BatchesAssumption DEF Ingest, store, Recording
<1>2. r \in InFlight
  <2>1. clock \in Time /\ b \in BucketStart
    BY BucketLemma DEF TypeOK
  <2>2. Classify(Head(reports)) \in Kind
    BY DEF Classify, Kind, Outcome
  <2> HIDE DEF reports, b
  <2> QED  BY <1>1, <2>1, <2>2 DEF InFlight, Key
<1>3. r.todo = reports /\ r.kind # "sent" /\ r.n = 1 /\ r.step = "count" /\ r # Idle
  <2>1. Classify(Head(reports)) # "sent"
    BY DEF Classify
  <2>2. r # Idle
    <3> HIDE DEF r
    <3> QED  BY <1>2, IdleAssumption
  <2> QED  BY <2>1, <2>2
<1> HIDE DEF r
<1>4. call'[c] = r /\ \A d \in Call \ {c} : call'[d] = call[d]
  BY <1>1 DEF TypeOK
<1>5. Shape(call'[c]) /\ Left(call'[c]) = Len(reports) /\ Left(call[c]) = 0
  BY <1>1, <1>3, <1>4 DEF Shape, Left
<1>6. Len(reports) \in Int
  BY <1>1
<1> HIDE DEF reports
<1>7. CallsShaped' /\ SumFunction(LeftBy)' = SumFunction(LeftBy) + Len(reports)
  <2>1. Left(call'[c]) = Left(call[c]) + Len(reports) /\ CallsShaped
    BY <1>5, <1>6 DEF ReportInv
  <2> QED  BY <1>4, <1>5, <1>6, <2>1, OneLeft
<1>8. SumFunction(LeftBy) \in Int /\ SumFunction(CountedReports) \in Int
  BY LeftTyped, ReportedFinite, SumTyped DEF ReportInv
<1>9. CountedReports' = CountedReports
  BY <1>1 DEF CountedReports
<1>10. /\ outcomes'.named = outcomes.named + Len(reports) /\ outcomes'.failed = outcomes.failed
       /\ outcomes'.unanswered = outcomes.unanswered /\ outcomes'.died = outcomes.died
       /\ outcomes.named \in Int /\ outcomes.failed \in Int /\ outcomes.unanswered \in Int
  BY <1>1 DEF TypeOK
<1>11. Balance => Balance'
  <2> DEFINE counted == SumFunction(CountedReports)
             left == SumFunction(LeftBy)
             named == outcomes.named
             failing == outcomes.failed
             unanswered == outcomes.unanswered
             more == Len(reports)
  <2>1. /\ counted \in Int /\ left \in Int /\ more \in Int
        /\ named \in Int /\ failing \in Int /\ unanswered \in Int
    BY <1>6, <1>8, <1>10
  <2>2. counted' = counted
    BY <1>9
  <2>3. left' = left + more /\ named' = named + more /\ failing' = failing /\ unanswered' = unanswered
    BY <1>7, <1>10
  <2>4. (Balance <=> counted + left = named - failing + unanswered)
        /\ (Balance' <=> counted' + left' = named' - failing' + unanswered')
    BY DEF Balance
  <2> HIDE DEF counted, left, named, failing, unanswered, more
  <2> QED  BY <2>1, <2>2, <2>3, <2>4
<1> QED  BY <1>7, <1>10, <1>11 DEF ReportInv

(* What an INCR adds to the reports counted.                               *)
LEMMA IncrementAdds ==
  ASSUME ReportInv, TypeOK, TypeOK', NEW c \in Call, Counting(c), Incremented(call[c])
  PROVE  /\ call[c].kind = "sent" => CountedReports' = CountedReports
         /\ call[c].kind # "sent" => SumFunction(CountedReports)' = SumFunction(CountedReports) + 1
<1> DEFINE me == call[c]
<1>1. /\ me # Idle /\ Shape(me) /\ CallsShaped
      /\ me.kind \in Kind /\ me.n \in Nat /\ me.bucket \in BucketStart
      /\ added' = [added EXCEPT ![me.kind][me.bucket] = @ + me.n]
  BY InFlightFields DEF Counting, Incremented, At, ReportInv, CallsShaped
<1>5. CASE me.kind = "sent"
  <2>1. ASSUME NEW k \in Outcome PROVE added'[k] = added[k]
    <3>1. k \in Kind /\ k # me.kind
      BY <1>5, <2>1 DEF Kind, Outcome
    <3> QED  BY <1>1, <3>1 DEF TypeOK
  <2>2. \A kb \in Outcome \X BucketStart : added'[kb[1]][kb[2]] = added[kb[1]][kb[2]]
    BY <2>1
  <2> QED  BY <1>5, <2>2 DEF CountedReports
<1>6. CASE me.kind # "sent"
  <2> DEFINE x == <<me.kind, me.bucket>>
  <2>1. me.n = 1
    BY <1>1, <1>6 DEF Shape
  <2>5. x \in Reported
    BY <1>1, <1>6 DEF Reported, Kind
  <2>6. CountedReports \in [Reported -> Int] /\ CountedReports' \in [Reported -> Int]
    <3>1. \A kb \in Reported : added'[kb[1]][kb[2]] \in Int
      BY DEF Reported, TypeOK, Kind
    <3> QED  BY <1>1, <3>1, LeftTyped DEF CountedReports, Reported
  <2>7. CountedReports'[x] = CountedReports[x] + 1
    <3>1. added'[me.kind][me.bucket] = added[me.kind][me.bucket] + 1
      BY <1>1, <2>1 DEF TypeOK
    <3>2. CountedReports'[x] = added'[me.kind][me.bucket] /\ CountedReports[x] = added[me.kind][me.bucket]
      BY <2>5 DEF CountedReports, Reported
    <3> QED  BY <3>1, <3>2
  <2>8. ASSUME NEW y \in Reported \ {x} PROVE CountedReports'[y] = CountedReports[y]
    <3>1. PICK k \in Outcome, b \in BucketStart : y = <<k, b>>
      BY DEF Reported
    <3>2. k # me.kind \/ b # me.bucket
      BY <2>8, <3>1
    <3>3. added'[k][b] = added[k][b]
      BY <1>1, <3>2 DEF TypeOK, Kind
    <3>4. CountedReports'[y] = added'[k][b] /\ CountedReports[y] = added[k][b]
      BY <3>1 DEF CountedReports
    <3> QED  BY <3>3, <3>4
  <2> HIDE DEF x
  <2>9. SumFunction(CountedReports') = SumFunction(CountedReports) + 1
    BY <2>5, <2>6, <2>7, <2>8, ReportedFinite, SumChanges
  <2> QED  BY <1>6, <2>9
<1> QED  BY <1>5, <1>6

LEMMA CountReports ==
  ASSUME ReportInv, TypeOK, TypeOK', NEW c \in Call, Count(c) \/ CountLost(c)
  PROVE  ReportInv'
<1> DEFINE me == call[c]
<1>1. /\ me # Idle /\ me.step \in {"count", "recount"} /\ me \in InFlight /\ Shape(me)
      /\ me.kind \in Kind /\ me.todo \in Seq(Report) /\ UNCHANGED clock /\ CallsShaped
      /\ Counting(c) /\ Incremented(call[c])
  BY InFlightFields DEF Count, CountLost, Counting, At, ReportInv, CallsShaped
<1>2. /\ SumFunction(LeftBy) \in Int /\ SumFunction(CountedReports) \in Int
      /\ outcomes.named \in Int /\ outcomes.failed \in Int /\ outcomes.unanswered \in Int
  <2>1. LeftBy \in [Call -> Int] /\ CountedReports \in [Reported -> Int]
    BY <1>1, LeftTyped
  <2>2. SumFunction(LeftBy) \in Int /\ SumFunction(CountedReports) \in Int
    BY <2>1, ReportedFinite, SumTyped
  <2>3. outcomes.named \in Int /\ outcomes.failed \in Int /\ outcomes.unanswered \in Int
    BY DEF TypeOK
  <2> QED  BY <2>2, <2>3
<1>3. /\ me.kind = "sent" => CountedReports' = CountedReports
      /\ me.kind # "sent" => SumFunction(CountedReports)' = SumFunction(CountedReports) + 1
  BY <1>1, IncrementAdds
<1>4. Left(me) = IF me.kind = "sent" THEN 0 ELSE Len(me.todo)
  BY <1>1 DEF Left
<1>5. CASE CountLost(c)
  <2> DEFINE new == [me EXCEPT !.step = "recount"]
  <2>1. call' = [call EXCEPT ![c] = new]
    BY <1>5 DEF CountLost
  <2>2. /\ new \in InFlight /\ new.step = "recount" /\ new.kind = me.kind /\ new.todo = me.todo
        /\ new.n = me.n
    BY <1>1 DEF InFlight
  <2> HIDE DEF new
  <2>3. call'[c] = new /\ \A d \in Call \ {c} : call'[d] = call[d]
    BY <2>1 DEF TypeOK
  <2>4. Shape(call'[c]) /\ Left(call'[c]) = Left(me)
    BY <1>1, <2>2, <2>3, IdleAssumption DEF Shape, Left
  <2>5. CASE me.kind = "sent"
    <3>1. UNCHANGED outcomes
      BY <1>5, <2>5 DEF CountLost
    <3>2. Left(call'[c]) = Left(call[c]) + 0
      BY <1>4, <2>4, <2>5
    <3>3. CallsShaped' /\ SumFunction(LeftBy)' = SumFunction(LeftBy) + 0
      BY <1>1, <2>3, <2>4, <3>2, OneLeft
    <3> QED  BY <1>2, <1>3, <2>5, <3>1, <3>3 DEF ReportInv, Balance
  <2>6. CASE me.kind # "sent"
    <3>1. outcomes' = [outcomes EXCEPT !.unanswered = @ + 1]
      BY <1>5, <2>6 DEF CountLost
    <3>2. /\ outcomes'.unanswered = outcomes.unanswered + 1 /\ outcomes'.named = outcomes.named
          /\ outcomes'.failed = outcomes.failed /\ outcomes'.died = outcomes.died
      BY <3>1 DEF TypeOK
    <3>3. Left(call'[c]) = Left(call[c]) + 0
      <4>1. Len(me.todo) \in Nat
        BY <1>1
      <4> QED  BY <1>4, <2>4, <2>6, <4>1
    <3>4. CallsShaped' /\ SumFunction(LeftBy)' = SumFunction(LeftBy) + 0
      BY <1>1, <2>3, <2>4, <3>3, OneLeft
    <3> QED  BY <1>2, <1>3, <2>6, <3>2, <3>4 DEF ReportInv, Balance
  <2> QED  BY <2>5, <2>6
<1>6. CASE Count(c)
  <2>1. /\ \A d \in Call \ {c} : call'[d] = call[d]
        /\ Shape(call'[c])
        /\ Left(call'[c]) = IF me.kind = "sent" THEN 0 ELSE Len(me.todo) - 1
    <3>1. CASE me.kind \in Bad
      <4> DEFINE reads == BucketOf(clock + me.skew)
                 new == [me EXCEPT !.step = "rates", !.since = clock, !.reads = reads]
      <4>0. call' = [call EXCEPT ![c].step = "rates", ![c].since = clock,
                                 ![c].reads = BucketOf(clock + call[c].skew)]
        BY <1>6, <3>1 DEF Count
      <4>1. call' = [call EXCEPT ![c] = new]
        <5>1. call \in [Call -> InFlight \cup {Idle}]
          BY DEF TypeOK
        <5> QED  BY <4>0, <5>1
      <4>2. new.todo = me.todo /\ new.kind = me.kind /\ new.n = me.n /\ new.step = "rates" /\ new # Idle
        <5>1. reads \in BucketStart /\ clock \in Time
          BY <1>1, InFlightFields, BucketLemma DEF TypeOK
        <5>2. new \in InFlight /\ new.todo = me.todo /\ new.kind = me.kind /\ new.n = me.n
              /\ new.step = "rates"
          <6> HIDE DEF reads
          <6> QED  BY <1>1, <5>1 DEF InFlight
        <5> HIDE DEF new
        <5> QED  BY <5>2, IdleAssumption
      <4> HIDE DEF new
      <4>3. call'[c] = new /\ \A d \in Call \ {c} : call'[d] = call[d]
        BY <4>1 DEF TypeOK
      <4>4. me.kind # "sent"
        BY <3>1 DEF Bad
      <4> QED  BY <1>1, <4>2, <4>3, <4>4 DEF Shape, Left
    <3>2. CASE me.kind \notin Bad
      <4>1. Done(c)
        BY <1>6, <3>2 DEF Count
      <4> QED  BY <1>1, <4>1, DoneLeft
    <3> QED  BY <3>1, <3>2
  <2>2. UNCHANGED outcomes
    BY <1>6 DEF Count
  <2>5. CASE me.kind = "sent"
    <3>2. Left(call'[c]) = Left(call[c]) + 0
      BY <1>4, <2>1, <2>5
    <3>3. CallsShaped' /\ SumFunction(LeftBy)' = SumFunction(LeftBy) + 0
      BY <1>1, <2>1, <3>2, OneLeft
    <3> QED  BY <1>2, <1>3, <2>2, <2>5, <3>3 DEF ReportInv, Balance
  <2>6. CASE me.kind # "sent"
    <3>1. Left(call'[c]) = Left(call[c]) + (-1) /\ -1 \in Int
      <4> DEFINE k == Len(me.todo)
      <4>1. k \in Nat /\ Left(call[c]) = k /\ Left(call'[c]) = k - 1
        BY <1>1, <1>4, <2>1, <2>6
      <4> HIDE DEF k, me
      <4> QED  BY <4>1
    <3>2. CallsShaped' /\ SumFunction(LeftBy)' = SumFunction(LeftBy) + (-1)
      BY <1>1, <2>1, <3>1, OneLeft
    <3> QED  BY <1>2, <1>3, <2>2, <2>6, <3>2 DEF ReportInv, Balance
  <2> QED  BY <2>5, <2>6
<1> QED  BY <1>5, <1>6

(* A call that is past its count goes on, or its command fails.            *)
LEMMA OnwardReports ==
  ASSUME ReportInv, TypeOK, TypeOK', NEW c \in Call,
         Judge(c) \/ Flag(c) \/ Claim(c) \/ ClaimFails(c) \/ Send(c) \/ RedisFails(c)
  PROVE  ReportInv'
<1> DEFINE me == call[c]
<1>1. /\ me # Idle /\ me \in InFlight /\ Shape(me) /\ me.todo \in Seq(Report) /\ UNCHANGED clock
      /\ UNCHANGED added /\ CallsShaped /\ me.kind \in Kind
  <2>1. me # Idle /\ UNCHANGED store /\ UNCHANGED clock
    BY DEF At, Counting, Judge, Flag, Claim, ClaimFails, Send, RedisFails
  <2> QED  BY <2>1, InFlightFields DEF store, ReportInv, CallsShaped
<1>2. ASSUME me.step \notin {"count", "recount"}, UNCHANGED outcomes, Done(c) PROVE ReportInv'
  <2>1. me.kind # "sent" /\ Left(me) = Len(me.todo) - 1
    BY <1>1, <1>2 DEF Shape, Left
  <2>2. /\ \A d \in Call \ {c} : call'[d] = call[d]
        /\ Shape(call'[c]) /\ Left(call'[c]) = Left(me)
    BY <1>1, <1>2, <2>1, DoneLeft
  <2> QED  BY <1>1, <1>2, <2>2, SameSums
<1>3. ASSUME me.step \notin {"count", "recount"}, UNCHANGED outcomes, NEW new \in InFlight, new.step \notin {"count", "recount"},
             new.todo = me.todo, new.kind = me.kind, new.n = me.n, call' = [call EXCEPT ![c] = new]
      PROVE  ReportInv'
  <2>1. call'[c] = new /\ \A d \in Call \ {c} : call'[d] = call[d]
    BY <1>3 DEF TypeOK
  <2>2. new # Idle
    BY <1>3, IdleAssumption
  <2>3. Shape(call'[c]) /\ Left(call'[c]) = Left(me)
    BY <1>1, <1>3, <2>1, <2>2 DEF Shape, Left
  <2> QED  BY <1>1, <1>3, <2>1, <2>3, SameSums
<1>4. ASSUME me.step \notin {"count", "recount"}, UNCHANGED outcomes, NEW s \in {"flag", "send"},
             call' = [call EXCEPT ![c].step = s]
      PROVE  ReportInv'
  <2> DEFINE new == [me EXCEPT !.step = s]
  <2>1. call' = [call EXCEPT ![c] = new]
    BY <1>4 DEF TypeOK
  <2>2. new \in InFlight /\ new.step \notin {"count", "recount"} /\ new.todo = me.todo /\ new.kind = me.kind /\ new.n = me.n
    BY <1>1 DEF InFlight
  <2> HIDE DEF new
  <2> QED  BY <1>3, <1>4, <2>1, <2>2
<1>5. CASE Judge(c)
  BY <1>2, <1>4, <1>5 DEF Judge, At
<1>6. CASE Flag(c)
  <2>1. PICK key \in Key : call' = [call EXCEPT ![c].step = "claim", ![c].key = key]
    BY <1>6 DEF Flag
  <2> DEFINE new == [me EXCEPT !.step = "claim", !.key = key]
  <2>2. call' = [call EXCEPT ![c] = new]
    BY <2>1 DEF TypeOK
  <2>3. new \in InFlight /\ new.step \notin {"count", "recount"} /\ new.todo = me.todo /\ new.kind = me.kind /\ new.n = me.n
    BY <1>1 DEF InFlight
  <2>4. me.step \notin {"count", "recount"} /\ UNCHANGED outcomes
    BY <1>6 DEF Flag, At
  <2> HIDE DEF new, me
  <2> QED  BY <1>3, <2>2, <2>3, <2>4
<1>7. CASE Claim(c)
  BY <1>2, <1>4, <1>7 DEF Claim, At
<1>8. CASE ClaimFails(c)
  BY <1>4, <1>8 DEF ClaimFails, At
<1>9. CASE Send(c)
  BY <1>2, <1>9 DEF Send, At
<1>10. CASE RedisFails(c)
  <2>1. Done(c)
    BY <1>10 DEF RedisFails, Caught
  <2>2. CASE me.step \notin {"count", "recount"}
    <3>1. UNCHANGED outcomes
      BY <1>10, <2>2 DEF RedisFails, Counting, At
    <3> QED  BY <1>2, <2>1, <2>2, <3>1
  <2>3. CASE me.step \in {"count", "recount"} /\ me.kind = "sent"
    <3>1. UNCHANGED outcomes
      BY <1>1, <1>10, <2>3 DEF RedisFails, Counting, At
    <3>2. /\ \A d \in Call \ {c} : call'[d] = call[d]
          /\ Shape(call'[c]) /\ Left(call'[c]) = 0 /\ Left(me) = 0
      BY <1>1, <2>1, <2>3, DoneLeft DEF Left
    <3> QED  BY <1>1, <3>1, <3>2, SameSums
  <2>4. CASE me.step \in {"count", "recount"} /\ me.kind # "sent"
    <3>1. outcomes' = [outcomes EXCEPT !.failed = @ + 1]
      BY <1>1, <1>10, <2>4 DEF RedisFails, Counting, At
    <3>2. /\ \A d \in Call \ {c} : call'[d] = call[d]
          /\ Shape(call'[c]) /\ Left(call'[c]) = Len(me.todo) - 1 /\ Left(me) = Len(me.todo)
      BY <1>1, <2>1, <2>4, DoneLeft DEF Left
    <3>3. Left(call'[c]) = Left(call[c]) + (-1) /\ -1 \in Int
      <4> DEFINE k == Len(me.todo)
      <4>1. k \in Nat /\ Left(call[c]) = k /\ Left(call'[c]) = k - 1
        BY <1>1, <3>2
      <4> HIDE DEF k, me
      <4> QED  BY <4>1
    <3>4. CallsShaped' /\ SumFunction(LeftBy)' = SumFunction(LeftBy) + (-1)
      BY <1>1, <3>2, <3>3, OneLeft
    <3>5. SumFunction(LeftBy) \in Int /\ SumFunction(CountedReports) \in Int
      BY <1>1, LeftTyped, ReportedFinite, SumTyped
    <3>6. CountedReports' = CountedReports
      BY <1>1 DEF CountedReports
    <3>7. /\ outcomes'.failed = outcomes.failed + 1 /\ outcomes'.named = outcomes.named
          /\ outcomes'.unanswered = outcomes.unanswered /\ outcomes'.died = outcomes.died
          /\ outcomes.named \in Int /\ outcomes.failed \in Int /\ outcomes.unanswered \in Int
      BY <3>1 DEF TypeOK
    <3> QED  BY <3>4, <3>5, <3>6, <3>7 DEF ReportInv, Balance
  <2> QED  BY <2>2, <2>3, <2>4
<1> QED  BY <1>5, <1>6, <1>7, <1>8, <1>9, <1>10

LEMMA ReportsStart == Init => ReportInv
<1> SUFFICES ASSUME Init PROVE ReportInv
  OBVIOUS
<1>1. CallsShaped /\ \A c \in Call : Left(call[c]) = 0
  BY DEF Init, CallsShaped, Shape, Left
<1>2. LeftBy \in [Call -> Int] /\ \A c \in Call : LeftBy[c] = 0
  BY <1>1 DEF LeftBy
<1>3. CountedReports \in [Reported -> Int] /\ \A kb \in Reported : CountedReports[kb] = 0
  <2>1. \A kb \in Reported : added[kb[1]][kb[2]] = 0
    BY DEF Init, Zero, Reported, Kind
  <2> QED  BY <2>1 DEF CountedReports, Reported
<1>4. SumFunction(LeftBy) = 0 /\ SumFunction(CountedReports) = 0
  BY <1>2, <1>3, ReportedFinite, SumOfZeros
<1>5. outcomes.named = 0 /\ outcomes.failed = 0 /\ outcomes.unanswered = 0
  BY DEF Init
<1> QED  BY <1>1, <1>4, <1>5 DEF ReportInv, Balance

(* ingest(): each report that names a sender is counted once; a command    *)
(* that failed takes away one and a lost reply adds one, whatever the      *)
(* batches and however many of them are worked on at once.                 *)
THEOREM ReportsAreCounted == Spec => []EachReportCounted
<1>1. TypeOK /\ TypeOK' /\ ReportInv /\ [Next]_vars => ReportInv'
  <2> SUFFICES ASSUME TypeOK, TypeOK', ReportInv, [Next]_vars PROVE ReportInv'
    OBVIOUS
  <2>1. ASSUME NEW c \in Call, NEW skew \in Skews, NEW rcpt \in Rcpts, Accept(c, rcpt, skew)
        PROVE  ReportInv'
    <3>1. /\ call[c] = Idle /\ UNCHANGED <<added, outcomes>>
          /\ \A d \in Call \ {c} : call'[d] = call[d]
          /\ call'[c].kind = "sent" /\ call'[c].todo = << >> /\ call'[c].step = "count"
      BY <2>1 DEF Accept, store, TypeOK
    <3>2. Shape(call'[c]) /\ Left(call'[c]) = Left(call[c])
      BY <3>1 DEF Shape, Left
    <3> QED  BY <3>1, <3>2, SameSums
  <2>2. ASSUME NEW c \in Call, Dies(c) PROVE ReportInv'
    <3>1. call' = [call EXCEPT ![c] = Idle] /\ outcomes'.died # 0
      BY <2>2 DEF Dies, TypeOK
    <3>2. CallsShaped'
      BY <3>1 DEF CallsShaped, Shape, ReportInv, TypeOK
    <3> QED  BY <3>1, <3>2 DEF ReportInv
  <2>3. CASE Tick \/ UNCHANGED vars \/ \E c \in Call : ClaimLost(c)
    <3>1. UNCHANGED <<added, outcomes, call>>
      BY <2>3 DEF Tick, vars, ClaimLost, store
    <3>2. CountedReports' = CountedReports /\ LeftBy' = LeftBy /\ CallsShaped' = CallsShaped
      BY <3>1 DEF CountedReports, LeftBy, CallsShaped
    <3> QED  BY <3>1, <3>2 DEF ReportInv, Balance
  <2> QED
    BY <2>1, <2>2, <2>3, IngestReports, CountReports, OnwardReports DEF Next
<1>2. TypeOK /\ ReportInv => EachReportCounted
  <2> SUFFICES ASSUME TypeOK, ReportInv, \A c \in Call : call[c] = Idle, outcomes.died = 0
               PROVE  SumFunction(CountedReports) = outcomes.named - outcomes.failed + outcomes.unanswered
    BY DEF EachReportCounted
  <2>1. LeftBy \in [Call -> Int] /\ \A c \in Call : LeftBy[c] = 0
    BY LeftTyped DEF LeftBy, Left, ReportInv
  <2>2. SumFunction(LeftBy) = 0
    BY <2>1, ReportedFinite, SumOfZeros
  <2>3. SumFunction(CountedReports) \in Int
    BY LeftTyped, ReportedFinite, SumTyped DEF ReportInv
  <2> QED  BY <2>2, <2>3 DEF ReportInv, Balance
<1> QED
  BY <1>1, <1>2, TypeCorrect, ReportsStart, PTL DEF Spec

-----------------------------------------------------------------------------
(***************************************************************************)
(* Shipper.                                                                *)
(***************************************************************************)
(* Every delivery line is logged after the last line of its mail.          *)
IsMailOf(j, i) ==
  /\ j \in 1..i /\ log[j].qid = log[i].qid /\ ~IsDelivery(log[j])
  /\ \A k \in 1..i : log[k].qid = log[i].qid /\ ~IsDelivery(log[k]) => k <= j
MailsLogged ==
  \A i \in DOMAIN log :
    IsDelivery(log[i]) => \E j \in 1..i : IsMailOf(j, i) /\ log[j].of = log[i].of

(* A file holds lines in the order in which they were written.             *)
LinesInOrder(s) ==
  /\ Len(s) <= Len(log)
  /\ \A k \in DOMAIN s : s[k] \in DOMAIN log
  /\ \A k, m \in DOMAIN s : k < m => s[k] < s[m]
FilesInOrder == \A f \in DOMAIN files : LinesInOrder(files[f])

(* What is still to be read is newer than what was read, in whichever file *)
(* that was.                                                               *)
ReadsOn ==
  /\ pc = "open" <=> fd = 0
  /\ pc # "post" => Len(batch) < BATCH_MAX
  /\ seen \subseteq DOMAIN log
  /\ fd # 0 => \A k \in DOMAIN files[fd] : k > pos => \A j \in seen : j < files[fd][k]

(* The map has, for each queue id in it, the last mail that was read under *)
(* it, in the order of reading; and a queue id that this run of the script *)
(* read and has forgotten is older than the QID_MAX that the map holds.    *)
LastSeen(q, j) ==
  /\ j \in seen /\ log[j].qid = q /\ ~IsDelivery(log[j])
  /\ \A k \in seen : log[k].qid = q /\ ~IsDelivery(log[k]) => k <= j
Mapped(q) == \E n \in DOMAIN qid_sender : qid_sender[n].qid = q
Remembered ==
  /\ \A n \in DOMAIN qid_sender :
       \E j \in seen : LastSeen(qid_sender[n].qid, j) /\ log[j].of = qid_sender[n].sender
  /\ \A m, n \in DOMAIN qid_sender : m < n =>
       \A i, j \in seen :
         LastSeen(qid_sender[m].qid, i) /\ LastSeen(qid_sender[n].qid, j) => i < j
  /\ \A q \in Qid, i \in seen \ former : LastSeen(q, i) /\ ~Mapped(q) =>
       /\ Len(qid_sender) = QID_MAX
       /\ \A n \in DOMAIN qid_sender, j \in seen : LastSeen(qid_sender[n].qid, j) => i < j

(* An event stands for a delivery line that was read.                      *)
Shipped == accepted \o batch
EventsRead ==
  \A n \in DOMAIN Shipped : Shipped[n].line \in seen /\ IsDelivery(log[Shipped[n].line])

ShipperInv ==
  /\ ShipperTypeOK /\ MailsLogged /\ FilesInOrder /\ ReadsOn /\ Remembered /\ EventsRead
  /\ AcceptedOnce /\ ChargedToItsSender /\ NothingDropped

-----------------------------------------------------------------------------
LEMMA MailOfIs ==
  ASSUME NEW i \in Nat, NEW j, IsMailOf(j, i)
  PROVE  MailOf(i) = j
<1> DEFINE owners == {k \in 1..i : log[k].qid = log[i].qid /\ ~IsDelivery(log[k])}
<1>1. j \in owners /\ \A k \in owners : j >= k
  BY DEF IsMailOf
<1>2. \A k \in owners : (\A m \in owners : k >= m) => k = j
  BY <1>1
<1>3. Max(owners) = j
  <2> HIDE DEF owners
  <2> QED  BY <1>1, <1>2 DEF Max
<1> QED
  BY <1>3 DEF MailOf

(* What is in the log stays as it is, and so does the mail of each line.   *)
LEMMA LogGrows ==
  ASSUME log \in Seq(Line),
         log' = log \/ \E l \in Line : log' = Append(log, l)
  PROVE  /\ log' \in Seq(Line) /\ Len(log) <= Len(log')
         /\ \A i \in DOMAIN log : /\ i \in DOMAIN log' /\ log'[i] = log[i]
                                  /\ MailOf(i)' = MailOf(i)
                                  /\ \A j : IsMailOf(j, i)' <=> IsMailOf(j, i)
<1>1. /\ log' \in Seq(Line) /\ Len(log) <= Len(log')
      /\ \A i \in DOMAIN log : i \in DOMAIN log' /\ log'[i] = log[i]
  OBVIOUS
<1>2. ASSUME NEW i \in DOMAIN log
      PROVE  MailOf(i)' = MailOf(i) /\ \A j : IsMailOf(j, i)' <=> IsMailOf(j, i)
  <2>1. i \in Nat /\ 1..i \subseteq DOMAIN log
    OBVIOUS
  <2>2. log'[i] = log[i] /\ \A j \in 1..i : log'[j] = log[j]
    BY <1>1, <2>1
  <2>3. {j \in 1..i : log'[j].qid = log'[i].qid /\ ~IsDelivery(log'[j])}
        = {j \in 1..i : log[j].qid = log[i].qid /\ ~IsDelivery(log[j])}
    BY <2>2
  <2>4. MailOf(i)' = MailOf(i)
    BY <2>3 DEF MailOf, IsDelivery
  <2> QED
    BY <2>2, <2>4 DEF IsMailOf, IsDelivery
<1> QED
  BY <1>1, <1>2

(* What was read and shipped is not touched by what others write.          *)
LEMMA ReadingKept ==
  ASSUME ShipperInv, log' = log \/ \E l \in Line : log' = Append(log, l),
         UNCHANGED <<qid_sender, batch, accepted, seen, failed, former, kills>>
  PROVE  Remembered' /\ EventsRead' /\ AcceptedOnce' /\ ChargedToItsSender' /\ NothingDropped'
<1>1. /\ seen \subseteq DOMAIN log
      /\ \A i \in seen : log'[i] = log[i] /\ MailOf(i)' = MailOf(i)
  BY LogGrows DEF ShipperInv, ShipperTypeOK, ReadsOn
<1>2. \A q, j : LastSeen(q, j)' <=> LastSeen(q, j)
  BY <1>1 DEF LastSeen, IsDelivery
<1>3. Remembered'
  BY <1>1, <1>2 DEF ShipperInv, Remembered, Mapped
<1>4. Shipped' = Shipped /\ EventsRead
  BY DEF Shipped, ShipperInv
<1>5. EventsRead'
  BY <1>1, <1>4 DEF EventsRead, IsDelivery
<1>6. AcceptedOnce'
  BY DEF ShipperInv, AcceptedOnce
<1>7. \A e \in Range(accepted \o batch) : e.line \in seen
  BY <1>4 DEF EventsRead, Shipped, Range
<1>8. ChargedToItsSender'
  BY <1>1, <1>7 DEF ShipperInv, ChargedToItsSender
<1>9. \A i \in seen : Between(i)' = Between(i)
  BY <1>1 DEF Between, IsDelivery
<1>10. NothingDropped'
  BY <1>1, <1>9 DEF ShipperInv, NothingDropped, IsDelivery
<1> QED
  BY <1>3, <1>5, <1>6, <1>8, <1>10

-----------------------------------------------------------------------------
LEMMA InitShipper == ShipperInit => ShipperInv
<1> SUFFICES ASSUME ShipperInit PROVE ShipperInv
  OBVIOUS
<1> USE DEF ShipperInit
<1>1. ShipperTypeOK
  <2>1. /\ << >> \in Seq(Line) /\ << >> \in Seq(1..MaxLines)
        /\ <<<< >>>> \in Seq(Seq(1..MaxLines)) /\ Len(<<<< >>>>) = 1
    OBVIOUS
  <2> QED
    BY <2>1, ShipperAssumption DEF ShipperTypeOK
<1>2. MailsLogged /\ FilesInOrder /\ ReadsOn /\ Remembered
  BY ShipperAssumption DEF MailsLogged, FilesInOrder, LinesInOrder, ReadsOn, Remembered, LastSeen
<1>3. Shipped = << >> /\ accepted \o batch = << >>
  BY DEF Shipped
<1>4. EventsRead /\ AcceptedOnce /\ ChargedToItsSender /\ NothingDropped
  BY <1>3 DEF EventsRead, AcceptedOnce, ChargedToItsSender, NothingDropped, Range
<1> QED
  BY <1>1, <1>2, <1>4 DEF ShipperInv

-----------------------------------------------------------------------------
(* Postfix writes a line.                                                  *)
LEMMA LogsKeeps == ASSUME ShipperInv, NEW l \in Line, Logs(l) PROVE ShipperInv'
<1>0. PICK n \in Nat : n = Len(log) + 1
  BY DEF ShipperInv, ShipperTypeOK
<1>1. /\ log \in Seq(Line) /\ Len(log) < MaxLines /\ MaxLines \in Nat /\ log' = Append(log, l)
      /\ files \in Seq(Seq(1..MaxLines)) /\ syslog \in DOMAIN files
      /\ files' = [files EXCEPT ![syslog] = Append(@, n)]
      /\ UNCHANGED <<path, syslog, fd, pos, pc, qid_sender, batch, accepted, seen, failed, former, kills>>
  BY <1>0, ShipperAssumption DEF Logs, ShipperInv, ShipperTypeOK
<1>2. /\ log' \in Seq(Line) /\ Len(log') = n /\ n \in 1..MaxLines
      /\ \A i \in DOMAIN log : i \in DOMAIN log' /\ log'[i] = log[i] /\ i < n
      /\ log'[n] = l
  BY <1>0, <1>1
<1>3. \A i \in DOMAIN log : \A j : IsMailOf(j, i)' <=> IsMailOf(j, i)
  BY <1>1, LogGrows
<1>4. /\ files' \in Seq(Seq(1..MaxLines)) /\ Len(files') = Len(files)
      /\ \A f \in DOMAIN files : f # syslog => files'[f] = files[f]
      /\ files'[syslog] = Append(files[syslog], n)
  BY <1>1, <1>2
<1>5. ShipperTypeOK'
  BY <1>1, <1>2, <1>4 DEF ShipperInv, ShipperTypeOK
<1>6. MailsLogged'
  <2>1. ASSUME NEW i \in DOMAIN log, IsDelivery(log'[i])
        PROVE  \E j \in 1..i : IsMailOf(j, i)' /\ log'[j].of = log'[i].of
    <3>1. PICK j \in 1..i : IsMailOf(j, i) /\ log[j].of = log[i].of
      BY <1>2, <2>1 DEF ShipperInv, MailsLogged
    <3> QED
      BY <1>1, <1>2, <1>3, <3>1
  <2>2. ASSUME IsDelivery(l)
        PROVE  \E j \in 1..n : IsMailOf(j, n)' /\ log'[j].of = log'[n].of
    <3>1. PICK j \in Owners(l.qid) : (\A k \in Owners(l.qid) : k <= j) /\ log[j].of = l.of
      BY <2>2 DEF Logs
    <3>2. j \in DOMAIN log /\ j \in 1..n
      BY <1>0, <1>1, <3>1 DEF Owners
    <3>3. \A k \in 1..n : log'[k].qid = l.qid /\ ~IsDelivery(log'[k]) => k \in Owners(l.qid)
      BY <1>0, <1>1, <1>2, <2>2 DEF Owners
    <3>4. \A k \in 1..n : log'[k].qid = l.qid /\ ~IsDelivery(log'[k]) => k <= j
      BY <3>1, <3>3
    <3>5. log'[n] = l /\ log'[j] = log[j] /\ log[j].qid = l.qid /\ ~IsDelivery(log[j])
      BY <1>2, <3>1, <3>2 DEF Owners
    <3>6. IsMailOf(j, n)'
      BY <3>2, <3>4, <3>5 DEF IsMailOf, IsDelivery
    <3> QED
      BY <3>1, <3>2, <3>5, <3>6
  <2>3. \A i \in DOMAIN log' : i \in DOMAIN log \/ i = n
    BY <1>0, <1>1
  <2>4. ASSUME NEW i \in DOMAIN log', IsDelivery(log'[i])
        PROVE  \E j \in 1..i : IsMailOf(j, i)' /\ log'[j].of = log'[i].of
    BY <1>2, <2>1, <2>2, <2>3, <2>4
  <2> QED
    BY <2>4 DEF MailsLogged, IsDelivery
<1>7. FilesInOrder'
  <2>1. ASSUME NEW s \in Seq(1..MaxLines), LinesInOrder(s)
        PROVE  LinesInOrder(s)' /\ LinesInOrder(Append(s, n))'
    <3>1. Len(s) \in Nat /\ Len(s) + 1 <= n /\ Len(log') = n
      BY <1>0, <1>1, <1>2, <2>1 DEF LinesInOrder
    <3>2. \A k \in DOMAIN s : s[k] \in DOMAIN log' /\ s[k] < n
      BY <1>2, <2>1 DEF LinesInOrder
    <3>3. LinesInOrder(s)'
      BY <2>1, <3>1, <3>2 DEF LinesInOrder
    <3>4. PICK t : t = Append(s, n)
      OBVIOUS
    <3>5. /\ DOMAIN t = 1..(Len(s) + 1) /\ Len(t) = Len(s) + 1
          /\ \A k \in DOMAIN t : (k \in DOMAIN s /\ t[k] = s[k]) \/ (k = Len(s) + 1 /\ t[k] = n)
      BY <2>1, <3>1, <3>4
    <3>6. \A k, m \in DOMAIN t : k < m => t[k] < t[m]
      BY <2>1, <3>1, <3>2, <3>5 DEF LinesInOrder
    <3>7. n \in DOMAIN log'
      BY <1>2
    <3>8. LinesInOrder(t)'
      BY <3>1, <3>2, <3>5, <3>6, <3>7 DEF LinesInOrder
    <3> QED
      BY <3>3, <3>4, <3>8
  <2>2. \A f \in DOMAIN files : files[f] \in Seq(1..MaxLines) /\ LinesInOrder(files[f])
    BY <1>1 DEF ShipperInv, FilesInOrder
  <2>3. \A f \in DOMAIN files' : f \in DOMAIN files /\ files'[f] \in {files[f], Append(files[f], n)}
    BY <1>1, <1>4
  <2>4. ASSUME NEW f \in DOMAIN files' PROVE LinesInOrder(files[f])'
    <3>1. CASE files'[f] = files[f]
      BY <2>1, <2>2, <2>3, <3>1 DEF LinesInOrder
    <3>2. CASE files'[f] = Append(files[f], n)
      <4>1. f \in DOMAIN files
        BY <2>3
      <4>2. PICK s : s = files[f]
        OBVIOUS
      <4>3. LinesInOrder(Append(s, n))'
        BY <2>1, <2>2, <4>1, <4>2
      <4> QED
        BY <3>2, <4>2, <4>3 DEF LinesInOrder
    <3> QED
      BY <2>3, <3>1, <3>2
  <2> QED
    BY <2>4 DEF FilesInOrder
<1>8. ReadsOn'
  <2>1. fd # 0 => fd \in DOMAIN files
    BY <1>1 DEF ShipperInv, ShipperTypeOK
  <2>2. \A j \in seen : j < n
    BY <1>2 DEF ShipperInv, ReadsOn
  <2>3. ASSUME fd # 0, NEW k \in DOMAIN files'[fd], k > pos, NEW j \in seen
        PROVE  j < files'[fd][k]
    <3>1. CASE k \in DOMAIN files[fd] /\ files'[fd][k] = files[fd][k]
      BY <2>3, <3>1 DEF ShipperInv, ReadsOn
    <3>2. CASE files'[fd][k] = n
      BY <2>2, <3>2
    <3>3. CASE fd = syslog
      BY <1>1, <1>4, <2>1, <2>3, <3>1, <3>2, <3>3
    <3>4. CASE fd # syslog
      BY <1>4, <2>1, <2>3, <3>1, <3>4
    <3> QED
      BY <3>3, <3>4
  <2> QED
    BY <1>1, <1>2, <2>3 DEF ShipperInv, ReadsOn
<1>9. Remembered' /\ EventsRead' /\ AcceptedOnce' /\ ChargedToItsSender' /\ NothingDropped'
  BY <1>1, ReadingKept
<1> QED
  BY <1>5, <1>6, <1>7, <1>8, <1>9 DEF ShipperInv

(* The logs are rotated or truncated, the script opens, stats or waits.    *)
LEMMA FollowingKeeps ==
  ASSUME ShipperInv,
         Rename \/ Create \/ Reopen \/ Truncate \/ Open \/ EndOfFile \/ Stat
  PROVE  ShipperInv'
<1>1. UNCHANGED <<log, qid_sender, batch, accepted, seen, failed, former, kills>>
  BY DEF Rename, Create, Reopen, Truncate, Open, EndOfFile, Stat, world
<1>2. Remembered' /\ EventsRead' /\ AcceptedOnce' /\ ChargedToItsSender' /\ NothingDropped'
  BY <1>1, ReadingKept
<1>3. MailsLogged'
  BY <1>1 DEF ShipperInv, MailsLogged, IsMailOf, IsDelivery
<1>4. /\ files \in Seq(Seq(1..MaxLines)) /\ MaxLines \in Nat /\ log \in Seq(Line)
      /\ Len(log) <= MaxLines
      /\ path \in 0..Len(files) /\ syslog \in 1..Len(files) /\ fd \in 0..Len(files)
      /\ pos \in 0..MaxLines /\ FilesInOrder /\ ReadsOn
  BY ShipperAssumption DEF ShipperInv, ShipperTypeOK
<1>5. LinesInOrder(<< >>)
  BY <1>4 DEF LinesInOrder
<1>6. CASE Rename \/ Reopen
  <2>1. UNCHANGED <<files, fd, pos, pc>> /\ path' \in 0..Len(files) /\ syslog' \in 1..Len(files)
    BY <1>4, <1>6 DEF Rename, Reopen
  <2>2. ShipperTypeOK' /\ FilesInOrder' /\ ReadsOn'
    BY <1>1, <2>1 DEF ShipperInv, ShipperTypeOK, FilesInOrder, LinesInOrder, ReadsOn
  <2> QED
    BY <1>2, <1>3, <2>2 DEF ShipperInv
<1>7. CASE Create
  <2>1. /\ UNCHANGED <<syslog, fd, pos, pc>>
        /\ files' = Append(files, << >>) /\ path' = Len(files) + 1
    BY <1>7 DEF Create
  <2>2. /\ files' \in Seq(Seq(1..MaxLines)) /\ Len(files') = Len(files) + 1
        /\ \A f \in DOMAIN files : f \in DOMAIN files' /\ files'[f] = files[f]
        /\ files'[Len(files) + 1] = << >>
        /\ \A f \in DOMAIN files' : f \in DOMAIN files \/ f = Len(files) + 1
    <3>1. PICK S : S = Seq(1..MaxLines)
      OBVIOUS
    <3>2. files \in Seq(S) /\ << >> \in S
      BY <1>4, <3>1
    <3> QED
      BY <2>1, <3>1, <3>2
  <2>3. ShipperTypeOK'
    <3>1. path' \in 0..Len(files') /\ syslog' \in 1..Len(files') /\ fd' \in 0..Len(files')
      BY <1>4, <2>1, <2>2
    <3> QED
      BY <1>1, <2>1, <2>2, <3>1 DEF ShipperInv, ShipperTypeOK
  <2>4. FilesInOrder'
    <3>1. \A f \in DOMAIN files' : (f \in DOMAIN files /\ files'[f] = files[f]) \/ files'[f] = << >>
      BY <2>2
    <3> QED
      BY <1>1, <1>4, <1>5, <3>1 DEF FilesInOrder, LinesInOrder
  <2>5. ReadsOn'
    BY <1>1, <1>4, <2>1, <2>2 DEF ReadsOn
  <2> QED
    BY <1>2, <1>3, <2>3, <2>4, <2>5 DEF ShipperInv
<1>8. CASE Truncate
  <2>1. /\ UNCHANGED <<path, syslog, fd, pos, pc>> /\ path \in DOMAIN files
        /\ files' = [files EXCEPT ![path] = << >>]
    BY <1>4, <1>8 DEF Truncate
  <2>2. /\ files' \in Seq(Seq(1..MaxLines)) /\ Len(files') = Len(files)
        /\ \A f \in DOMAIN files : files'[f] = files[f] \/ files'[f] = << >>
    BY <1>4, <2>1
  <2>3. ShipperTypeOK'
    BY <1>1, <1>4, <2>1, <2>2 DEF ShipperInv, ShipperTypeOK
  <2>4. FilesInOrder'
    <3>1. \A f \in DOMAIN files' : f \in DOMAIN files /\ (files'[f] = files[f] \/ files'[f] = << >>)
      BY <1>4, <2>2
    <3> QED
      BY <1>1, <1>4, <1>5, <3>1 DEF FilesInOrder, LinesInOrder
  <2>5. ReadsOn'
    BY <1>1, <1>4, <2>1, <2>2 DEF ReadsOn
  <2> QED
    BY <1>2, <1>3, <2>3, <2>4, <2>5 DEF ShipperInv
<1>9. CASE Open
  <2>1. /\ UNCHANGED world /\ path \in DOMAIN files /\ path # 0 /\ pc = "open"
        /\ fd' = path /\ pos' = Len(files[path]) /\ pc' = "read"
    BY <1>4, <1>9 DEF Open
  <2>2. Len(files[path]) \in 0..MaxLines
    BY <1>4, <2>1 DEF FilesInOrder, LinesInOrder
  <2>3. ShipperTypeOK'
    BY <1>1, <1>4, <2>1, <2>2 DEF ShipperInv, ShipperTypeOK, ReadsOn, world
  <2>4. FilesInOrder' /\ ReadsOn'
    BY <1>1, <1>4, <2>1, <2>2 DEF FilesInOrder, LinesInOrder, ReadsOn, world
  <2> QED
    BY <1>2, <1>3, <2>3, <2>4 DEF ShipperInv
<1>10. CASE EndOfFile \/ Stat
  <2>1. /\ UNCHANGED world /\ UNCHANGED pos /\ pc \in {"read", "sleep"}
        /\ (pc' = "open" /\ fd' = 0) \/ (pc' \in {"read", "sleep"} /\ fd' = fd)
    BY <1>10 DEF EndOfFile, Stat
  <2>2. ShipperTypeOK'
    <3>1. UNCHANGED <<log, files, path, syslog>> /\ ShipperTypeOK
      BY <2>1 DEF ShipperInv, world
    <3>2. fd' \in 0..Len(files') /\ pc' \in {"open", "read", "sleep"}
      BY <1>4, <2>1, <3>1
    <3>3. Len(batch) < BATCH_MAX
      BY <1>4, <2>1 DEF ReadsOn
    <3> QED
      BY <1>1, <2>1, <3>1, <3>2, <3>3 DEF ShipperTypeOK
  <2>3. FilesInOrder' /\ ReadsOn'
    BY <1>1, <1>4, <2>1 DEF FilesInOrder, LinesInOrder, ReadsOn, world
  <2> QED
    BY <1>2, <1>3, <2>2, <2>3 DEF ShipperInv
<1> QED
  BY <1>6, <1>7, <1>8, <1>9, <1>10

-----------------------------------------------------------------------------
(* remember(): the entry of the queue id, or the oldest of a full map,     *)
(* makes room for the new one, and the others stay in their order.         *)
MakesRoom(d, q, s, r) ==
  /\ r \in Seq([qid: Qid, sender: Sender \cup {Null}])
  /\ Len(r) \in 1..QID_MAX
  /\ r[Len(r)] = [qid |-> q, sender |-> s]
  /\ \E k \in 1..Len(d) + 1 :
       /\ Len(r) = IF k = Len(d) + 1 THEN Len(d) + 1 ELSE Len(d)
       /\ \A n \in 1..Len(r) - 1 : r[n] = IF n < k THEN d[n] ELSE d[n + 1]
       /\ \A n \in DOMAIN d : n # k => d[n].qid # q
       /\ k \in DOMAIN d /\ d[k].qid # q => k = 1 /\ Len(d) = QID_MAX

LEMMA RememberLemma ==
  ASSUME ShipperTypeOK, NEW q \in Qid, NEW s \in Sender \cup {Null},
         NEW d, d = qid_sender, NEW r, r = Remember(q, s),
         \A m, n \in DOMAIN d : d[m].qid = d[n].qid => m = n
  PROVE  MakesRoom(d, q, s, r)
<1> DEFINE E == [qid: Qid, sender: Sender \cup {Null}]
           e == [qid |-> q, sender |-> s]
           all == Append(Without(q), e)
<1>1. d \in Seq(E) /\ Len(d) <= QID_MAX /\ QID_MAX \in Nat \ {0} /\ e \in E
  BY ShipperAssumption DEF ShipperTypeOK
<1>2. r = Newest(all, QID_MAX)
  BY DEF Remember
<1>3. CASE \E n \in DOMAIN d : d[n].qid = q
  <2> DEFINE k == CHOOSE n \in DOMAIN d : d[n].qid = q
  <2>1. k \in DOMAIN d /\ d[k].qid = q
    BY <1>3
  <2>2. Without(q) = RemoveAt(d, k)
    BY <1>3 DEF Without
  <2>3. \A n \in DOMAIN d : n # k => d[n].qid # q
    BY <2>1
  <2> HIDE DEF k, E, e
  <2>4. k \in 1..Len(d) /\ Len(d) \in Nat
    BY <1>1, <2>1
  <2>5. PICK a, b : a = SubSeq(d, 1, k - 1) /\ b = SubSeq(d, k + 1, Len(d))
    OBVIOUS
  <2>6. /\ a \in Seq(E) /\ Len(a) = k - 1 /\ \A n \in 1..k - 1 : a[n] = d[n]
        /\ b \in Seq(E) /\ Len(b) = Len(d) - k /\ \A n \in 1..Len(d) - k : b[n] = d[n + k]
    BY <1>1, <2>4, <2>5
  <2>7. /\ a \o b \in Seq(E) /\ Len(a \o b) = Len(d) - 1
        /\ \A n \in 1..Len(d) - 1 : (a \o b)[n] = IF n < k THEN d[n] ELSE d[n + 1]
    <3>1. a \o b \in Seq(E) /\ Len(a \o b) = Len(d) - 1
      <4>1. k \in Nat /\ Len(d) \in Nat /\ (k - 1) + (Len(d) - k) = Len(d) - 1
        BY <2>4
      <4>2. a \o b \in Seq(E) /\ Len(a \o b) = Len(a) + Len(b)
        BY <2>6
      <4> QED
        BY <2>6, <4>1, <4>2
    <3>2. ASSUME NEW n \in 1..Len(d) - 1
          PROVE  (a \o b)[n] = IF n < k THEN d[n] ELSE d[n + 1]
      <4>1. CASE n < k
        BY <2>4, <2>6, <4>1
      <4>2. CASE ~(n < k)
        <5>1. n - (k - 1) \in 1..Len(d) - k /\ n - (k - 1) + k = n + 1
          BY <2>4, <4>2
        <5>2. (a \o b)[n] = b[n - (k - 1)]
          BY <2>4, <2>6, <4>2
        <5> QED
          BY <2>6, <4>2, <5>1, <5>2
      <4> QED
        BY <4>1, <4>2
    <3> QED
      BY <3>1, <3>2
  <2>8. Without(q) = a \o b
    BY <2>2, <2>5 DEF RemoveAt
  <2>9. /\ all \in Seq(E) /\ Len(all) = Len(d) /\ all[Len(d)] = e
        /\ \A n \in 1..Len(d) - 1 : all[n] = IF n < k THEN d[n] ELSE d[n + 1]
    BY <1>1, <2>4, <2>7, <2>8
  <2>10. r = all
    BY <1>1, <1>2, <2>9 DEF Newest
  <2>11. k \in 1..Len(d) + 1 /\ k # Len(d) + 1
    BY <2>4
  <2> HIDE DEF all
  <2>12. /\ r \in Seq(E) /\ Len(r) = Len(d) /\ r[Len(r)] = e
         /\ \A n \in 1..Len(r) - 1 : r[n] = IF n < k THEN d[n] ELSE d[n + 1]
    BY <2>9, <2>10
  <2>13. Len(r) \in 1..QID_MAX
    BY <1>1, <2>4, <2>12
  <2>14. \E j \in 1..Len(d) + 1 :
           /\ Len(r) = IF j = Len(d) + 1 THEN Len(d) + 1 ELSE Len(d)
           /\ \A n \in 1..Len(r) - 1 : r[n] = IF n < j THEN d[n] ELSE d[n + 1]
           /\ \A n \in DOMAIN d : n # j => d[n].qid # q
           /\ j \in DOMAIN d /\ d[j].qid # q => j = 1 /\ Len(d) = QID_MAX
    BY <2>1, <2>3, <2>11, <2>12
  <2> QED
    BY <2>12, <2>13, <2>14 DEF e, E, MakesRoom
<1>4. CASE ~ \E n \in DOMAIN d : d[n].qid = q
  <2>1. Without(q) = d
    BY <1>4 DEF Without
  <2>2. /\ all \in Seq(E) /\ Len(all) = Len(d) + 1 /\ all[Len(d) + 1] = e
        /\ \A n \in 1..Len(d) : all[n] = d[n]
    BY <1>1, <2>1
  <2> HIDE DEF E, e, all
  <2>3. Len(d) \in Nat
    BY <1>1
  <2>4. CASE Len(d) < QID_MAX
    <3>1. r = all
      BY <1>1, <1>2, <2>2, <2>3, <2>4 DEF Newest
    <3>2. Len(d) + 1 \in 1..Len(d) + 1 /\ Len(d) + 1 \notin DOMAIN d /\ Len(d) + 1 \in 1..QID_MAX
      BY <1>1, <2>3, <2>4
    <3>3. \A n \in 1..Len(d) : n < Len(d) + 1
      BY <2>3
    <3> QED
      BY <1>1, <1>4, <2>2, <2>3, <3>1, <3>2, <3>3 DEF e, E, MakesRoom
  <2>5. CASE Len(d) = QID_MAX
    <3>1. r = SubSeq(all, 2, Len(d) + 1)
      BY <1>1, <1>2, <2>2, <2>3, <2>5 DEF Newest
    <3>2. r \in Seq(E) /\ Len(r) = Len(d) /\ \A n \in 1..Len(d) : r[n] = all[n + 1]
      <4> QED  BY <2>2, <2>3, <3>1
    <3>3. 1 \in 1..Len(d) + 1 /\ 1 # Len(d) + 1 /\ Len(d) \in 1..QID_MAX
      BY <1>1, <2>3, <2>5
    <3>4. r[Len(r)] = e /\ \A n \in 1..Len(r) - 1 : r[n] = IF n < 1 THEN d[n] ELSE d[n + 1]
      BY <2>2, <2>3, <3>2, <3>3
    <3> QED
      BY <1>4, <2>5, <3>2, <3>3, <3>4 DEF e, E, MakesRoom
  <2> QED
    BY <1>1, <2>3, <2>4, <2>5
<1> QED
  BY <1>3, <1>4

(* A line that was read is newer than all that were, and what they say of  *)
(* other queue ids stays.                                                  *)
NewLine(i) == i \in DOMAIN log /\ i \notin seen /\ \A j \in seen : j < i

LEMMA SeenGrows ==
  ASSUME ShipperInv, NEW i \in DOMAIN log, NewLine(i), UNCHANGED log, seen' = seen \cup {i}
  PROVE  /\ \A q, j : j # i /\ LastSeen(q, j)' => LastSeen(q, j)
         /\ \A q, j : LastSeen(q, j) /\ (q # log[i].qid \/ IsDelivery(log[i])) => LastSeen(q, j)'
         /\ \A q : LastSeen(q, i)' <=> q = log[i].qid /\ ~IsDelivery(log[i])
         /\ \A q, j, k : LastSeen(q, j)' /\ LastSeen(q, k)' => j = k
<1>1. seen \subseteq Nat /\ i \in Nat /\ \A j \in seen : j < i
  BY DEF ShipperInv, ShipperTypeOK, NewLine
<1>2. \A q, j : LastSeen(q, j)' <=>
        /\ j \in seen \cup {i} /\ log[j].qid = q /\ ~IsDelivery(log[j])
        /\ \A k \in seen \cup {i} : log[k].qid = q /\ ~IsDelivery(log[k]) => k <= j
  BY DEF LastSeen, IsDelivery
<1>3. ASSUME NEW q, NEW j, j # i, LastSeen(q, j)' PROVE LastSeen(q, j)
  BY <1>2, <1>3 DEF LastSeen
<1>4. ASSUME NEW q, NEW j, LastSeen(q, j), q # log[i].qid \/ IsDelivery(log[i])
      PROVE  LastSeen(q, j)'
  BY <1>2, <1>4 DEF LastSeen
<1>5. ASSUME NEW q PROVE LastSeen(q, i)' <=> q = log[i].qid /\ ~IsDelivery(log[i])
  <2>1. \A k \in seen \cup {i} : k <= i
    BY <1>1
  <2> QED
    BY <1>2, <2>1
<1>6. ASSUME NEW q, NEW j, NEW k, LastSeen(q, j)', LastSeen(q, k)' PROVE j = k
  <2>1. j \in Nat /\ k \in Nat /\ j <= k /\ k <= j
    BY <1>1, <1>2, <1>6
  <2> QED
    BY <2>1
<1> QED
  BY <1>3, <1>4, <1>5, <1>6

(* main() reads a line that names the sender of a mail.                    *)
LEMMA ReadsOwner ==
  ASSUME ShipperInv, NEW i \in DOMAIN log, NewLine(i), ~IsDelivery(log[i]),
         UNCHANGED <<log, former>>, seen' = seen \cup {i},
         qid_sender' = Remember(log[i].qid, log[i].of)
  PROVE  /\ Remembered'
         /\ qid_sender' \in Seq([qid: Qid, sender: Sender \cup {Null}])
         /\ Len(qid_sender') <= QID_MAX
<1>0. PICK q, s, d, r : /\ q = log[i].qid /\ s = log[i].of
                        /\ d = qid_sender /\ r = Remember(q, s)
  OBVIOUS
<1>1. /\ log[i].qid \in Qid /\ log[i].of \in Sender \cup {Null} /\ QID_MAX \in Nat
      /\ d \in Seq([qid: Qid, sender: Sender \cup {Null}]) /\ Len(d) <= QID_MAX
      /\ seen \subseteq Nat /\ former \subseteq seen /\ i \in Nat /\ ShipperTypeOK /\ Remembered
  <2>1. log[i] \in Line /\ i \in Nat /\ seen \subseteq Nat
    BY DEF ShipperInv, ShipperTypeOK
  <2> QED
    BY <1>0, <2>1, ShipperAssumption DEF ShipperInv, ShipperTypeOK, Line
<1>2. \A m, n \in DOMAIN d : d[m].qid = d[n].qid => m = n
  <2> SUFFICES ASSUME NEW m \in DOMAIN d, NEW n \in DOMAIN d, d[m].qid = d[n].qid, m < n
               PROVE  FALSE
    BY <1>1
  <2>1. PICK j \in seen : LastSeen(d[m].qid, j)
    BY <1>0, <1>1 DEF Remembered
  <2> QED
    BY <1>0, <1>1, <2>1 DEF Remembered
<1>3. /\ r \in Seq([qid: Qid, sender: Sender \cup {Null}])
      /\ Len(r) \in 1..QID_MAX
      /\ r[Len(r)] = [qid |-> q, sender |-> s]
      /\ MakesRoom(d, q, s, r)
  <2>1. q \in Qid /\ s \in Sender \cup {Null} /\ ShipperTypeOK
    BY <1>0, <1>1
  <2>2. MakesRoom(d, q, s, r)
    BY <1>0, <1>2, <2>1, RememberLemma
  <2> QED
    BY <2>2 DEF MakesRoom
<1>4. PICK k \in 1..Len(d) + 1 :
           /\ Len(r) = IF k = Len(d) + 1 THEN Len(d) + 1 ELSE Len(d)
           /\ \A n \in 1..Len(r) - 1 : r[n] = IF n < k THEN d[n] ELSE d[n + 1]
           /\ \A n \in DOMAIN d : n # k => d[n].qid # q
           /\ k \in DOMAIN d /\ d[k].qid # q => k = 1 /\ Len(d) = QID_MAX
  BY <1>3 DEF MakesRoom
<1> DEFINE at(n) == IF n < k THEN n ELSE n + 1
<1>5. /\ Len(d) \in Nat /\ Len(r) \in Nat /\ DOMAIN r = 1..Len(r) /\ DOMAIN d = 1..Len(d)
      /\ k \in Nat
  BY <1>1, <1>3, <1>4
<1>6. ASSUME NEW n \in 1..Len(r) - 1
      PROVE  at(n) \in DOMAIN d /\ at(n) # k /\ r[n] = d[at(n)] /\ r[n].qid # q
  <2>1. n \in Nat /\ at(n) \in DOMAIN d /\ at(n) # k
    BY <1>4, <1>5, <1>6
  <2>2. r[n] = d[at(n)]
    BY <1>4, <1>6
  <2> HIDE DEF at
  <2> QED
    BY <1>4, <2>1, <2>2
<1>7. /\ \A p, j : j # i /\ LastSeen(p, j)' => LastSeen(p, j)
      /\ \A p, j : LastSeen(p, j) /\ p # q => LastSeen(p, j)'
      /\ \A p : LastSeen(p, i)' <=> p = q
      /\ \A p, j, m : LastSeen(p, j)' /\ LastSeen(p, m)' => j = m
  BY <1>0, SeenGrows
<1>8. /\ \A n \in DOMAIN d : \E j \in seen : LastSeen(d[n].qid, j) /\ log[j].of = d[n].sender
      /\ \A m, n \in DOMAIN d : m < n =>
           \A a, b \in seen : LastSeen(d[m].qid, a) /\ LastSeen(d[n].qid, b) => a < b
      /\ \A p \in Qid, a \in seen \ former : LastSeen(p, a) /\ ~Mapped(p) =>
           /\ Len(d) = QID_MAX
           /\ \A n \in DOMAIN d, b \in seen : LastSeen(d[n].qid, b) => a < b
  BY <1>0, <1>1 DEF Remembered
<1>9. \A j \in seen : j < i
  BY DEF NewLine
<1>10. \A n \in DOMAIN r : n \in 1..Len(r) - 1 \/ n = Len(r)
  BY <1>5
<1>11. ASSUME NEW n \in DOMAIN r
       PROVE  \E j \in seen' : LastSeen(r[n].qid, j)' /\ log[j].of = r[n].sender
  <2>1. CASE n \in 1..Len(r) - 1
    BY <1>6, <1>7, <1>8, <2>1
  <2>2. CASE n = Len(r)
    BY <1>0, <1>3, <1>7, <2>2
  <2> QED
    BY <1>10, <2>1, <2>2
<1>12. ASSUME NEW m \in DOMAIN r, NEW n \in DOMAIN r, m < n, NEW a \in seen', NEW b \in seen',
              LastSeen(r[m].qid, a)', LastSeen(r[n].qid, b)'
       PROVE  a < b
  <2>1. m \in 1..Len(r) - 1 /\ r[m].qid # q
    BY <1>5, <1>6, <1>12
  <2>2. a # i
    BY <1>7, <1>12, <2>1
  <2>3. a \in seen /\ LastSeen(r[m].qid, a)
    BY <1>7, <1>12, <2>2
  <2>4. CASE n \in 1..Len(r) - 1
    <3>1. b \in seen /\ LastSeen(r[n].qid, b)
      BY <1>6, <1>7, <1>12, <2>4
    <3>2. at(m) < at(n)
      BY <1>4, <1>5, <1>12, <2>1, <2>4
    <3> HIDE DEF at
    <3> QED
      BY <1>6, <1>8, <2>1, <2>3, <2>4, <3>1, <3>2
  <2>5. CASE n = Len(r)
    <3>1. LastSeen(q, b)' /\ LastSeen(q, i)'
      BY <1>3, <1>7, <1>12, <2>5
    <3>2. b = i
      BY <1>7, <3>1
    <3> QED
      BY <1>9, <2>3, <3>2
  <2> QED
    BY <1>10, <2>4, <2>5
<1>13. ASSUME NEW p \in Qid, NEW a \in seen' \ former', LastSeen(p, a)',
              ~ \E n \in DOMAIN r : r[n].qid = p
       PROVE  /\ Len(r) = QID_MAX
              /\ \A n \in DOMAIN r, b \in seen' : LastSeen(r[n].qid, b)' => a < b
  <2>1. p # q
    BY <1>3, <1>5, <1>13
  <2>2. a \in seen \ former /\ LastSeen(p, a)
    BY <1>7, <1>13, <2>1
  <2>3. CASE Mapped(p)
    <3>1. PICK m \in DOMAIN d : d[m].qid = p
      BY <1>0, <2>3 DEF Mapped
    <3>2. m = k
      <4>1. SUFFICES ASSUME m # k PROVE FALSE
        OBVIOUS
      <4>2. PICK n \in 1..Len(r) - 1 : at(n) = m
        <5>1. CASE m < k
          <6>1. m \in 1..Len(r) - 1
            BY <1>4, <1>5, <5>1
          <6> QED  BY <5>1, <6>1
        <5>2. CASE k < m
          <6>1. m - 1 \in 1..Len(r) - 1 /\ ~(m - 1 < k) /\ m - 1 + 1 = m
            BY <1>4, <1>5, <5>2
          <6> QED  BY <6>1
        <5> QED  BY <1>5, <4>1, <5>1, <5>2
      <4> HIDE DEF at
      <4> QED
        BY <1>5, <1>6, <1>13, <3>1, <4>2
    <3>3. k = 1 /\ Len(d) = QID_MAX /\ Len(r) = QID_MAX
      BY <1>4, <1>5, <2>1, <3>1, <3>2
    <3>4. ASSUME NEW n \in DOMAIN r, NEW b \in seen', LastSeen(r[n].qid, b)' PROVE a < b
      <4>1. CASE n \in 1..Len(r) - 1
        <5>1. b \in seen /\ LastSeen(r[n].qid, b)
          BY <1>6, <1>7, <3>4, <4>1
        <5>2. k < at(n)
          BY <1>5, <3>3, <4>1
        <5> HIDE DEF at
        <5> QED
          BY <1>6, <1>8, <2>2, <3>1, <3>2, <4>1, <5>1, <5>2
      <4>2. CASE n = Len(r)
        <5>1. LastSeen(q, b)' /\ LastSeen(q, i)'
          BY <1>3, <1>7, <3>4, <4>2
        <5>2. b = i
          BY <1>7, <5>1
        <5> QED
          BY <1>9, <2>2, <5>2
      <4> QED
        BY <1>10, <4>1, <4>2
    <3> QED
      BY <3>3, <3>4
  <2>4. CASE ~Mapped(p)
    <3>1. /\ Len(d) = QID_MAX
          /\ \A n \in DOMAIN d, b \in seen : LastSeen(d[n].qid, b) => a < b
      BY <1>8, <1>13, <2>2, <2>4
    <3>2. Len(r) = QID_MAX
      BY <1>1, <1>3, <1>4, <1>5, <3>1
    <3>3. ASSUME NEW n \in DOMAIN r, NEW b \in seen', LastSeen(r[n].qid, b)' PROVE a < b
      <4>1. CASE n \in 1..Len(r) - 1
        <5>1. b \in seen /\ LastSeen(r[n].qid, b)
          BY <1>6, <1>7, <3>3, <4>1
        <5> HIDE DEF at
        <5> QED
          BY <1>6, <3>1, <4>1, <5>1
      <4>2. CASE n = Len(r)
        <5>1. LastSeen(q, b)' /\ LastSeen(q, i)'
          BY <1>3, <1>7, <3>3, <4>2
        <5>2. b = i
          BY <1>7, <5>1
        <5> QED
          BY <1>9, <2>2, <5>2
      <4> QED
        BY <1>10, <4>1, <4>2
    <3> QED
      BY <3>2, <3>3
  <2> QED
    BY <2>3, <2>4
<1>14. qid_sender' = r
  BY <1>0
<1>15. Remembered'
  BY <1>11, <1>12, <1>13, <1>14 DEF Remembered, Mapped
<1> QED
  BY <1>1, <1>3, <1>14, <1>15

(* The mail of a line is older than the line: what is read now neither     *)
(* changes the mail of what was read, nor comes in between.                *)
LEMMA MailsAreOlder ==
  ASSUME ShipperInv, NEW i \in DOMAIN log, NewLine(i), UNCHANGED log, seen' = seen \cup {i},
         NEW k \in seen \cup {i}, IsDelivery(log[k])
  PROVE  /\ MailOf(k)' = MailOf(k) /\ Between(k)' = Between(k)
         /\ IsMailOf(MailOf(k), k) /\ log[MailOf(k)].of = log[k].of
         /\ MailOf(k) \in seen' => MailOf(k) \in seen
<1>1. k \in DOMAIN log /\ k \in Nat /\ i \in Nat /\ k <= i /\ seen \subseteq Nat
  <2>1. i \in Nat /\ seen \subseteq DOMAIN log /\ seen \subseteq Nat
    <3>1. log \in Seq(Line) /\ seen \subseteq DOMAIN log
      BY DEF ShipperInv, ShipperTypeOK, ReadsOn
    <3> QED
      BY <3>1
  <2>2. \A j \in seen : j < i
    BY DEF NewLine
  <2> QED
    BY <2>1, <2>2
<1>2. PICK j \in 1..k : IsMailOf(j, k) /\ log[j].of = log[k].of
  BY <1>1 DEF ShipperInv, MailsLogged
<1>3. MailOf(k) = j
  BY <1>1, <1>2, MailOfIs
<1>4. MailOf(k)' = MailOf(k)
  BY DEF MailOf, IsDelivery
<1>5. j # i
  BY <1>1, <1>2 DEF IsMailOf
<1>6. {m \in seen \cup {i} : MailOf(k) < m /\ m < k /\ ~IsDelivery(log[m])}
      = {m \in seen : MailOf(k) < m /\ m < k /\ ~IsDelivery(log[m])}
  BY <1>1
<1>7. Between(k)' = Between(k)
  BY <1>4, <1>6 DEF Between, IsDelivery
<1> QED
  BY <1>2, <1>3, <1>4, <1>5, <1>7

(* What was shipped stays in order, whatever is read.                      *)
LEMMA ShippedKept ==
  ASSUME ShipperInv, NEW i \in DOMAIN log, NewLine(i),
         UNCHANGED <<log, accepted, failed, former>>, seen' = seen \cup {i}
  PROVE  /\ \A n \in DOMAIN Shipped, k \in Nat : k = Shipped[n].line =>
              /\ k \in seen' /\ k < i /\ IsDelivery(log'[k])
              /\ MailOf(k)' \in seen' => Shipped[n].sender = log[k].of
         /\ \A k \in seen \ (failed \cup former) :
              /\ IsDelivery(log[k]) /\ log[k].of # Null
              /\ MailOf(k)' \in seen' \ former /\ Cardinality(Between(k)') < QID_MAX
              => \E n \in DOMAIN Shipped : Shipped[n].line = k
<1>1. ASSUME NEW n \in DOMAIN Shipped, NEW k \in Nat, k = Shipped[n].line
      PROVE  /\ k \in seen' /\ k < i /\ IsDelivery(log'[k])
             /\ MailOf(k)' \in seen' => Shipped[n].sender = log[k].of
  <2>1. k \in seen /\ IsDelivery(log[k]) /\ k < i
    BY <1>1 DEF ShipperInv, EventsRead, NewLine
  <2>2. MailOf(k)' = MailOf(k) /\ (MailOf(k) \in seen' => MailOf(k) \in seen)
    BY <2>1, MailsAreOlder
  <2>3. MailOf(k) \in seen => Shipped[n].sender = log[k].of
    BY <1>1 DEF ShipperInv, ChargedToItsSender, Shipped, Range
  <2> QED
    BY <2>1, <2>2, <2>3 DEF IsDelivery
<1>2. ASSUME NEW k \in seen \ (failed \cup former), IsDelivery(log[k]), log[k].of # Null,
             MailOf(k)' \in seen' \ former, Cardinality(Between(k)') < QID_MAX
      PROVE  \E n \in DOMAIN Shipped : Shipped[n].line = k
  <2>1. /\ MailOf(k)' = MailOf(k) /\ (MailOf(k) \in seen' => MailOf(k) \in seen)
        /\ Between(k)' = Between(k)
    BY <1>2, MailsAreOlder
  <2>2. MailOf(k) \in seen \ former /\ Cardinality(Between(k)) < QID_MAX
    BY <1>2, <2>1
  <2>3. \E e \in Range(accepted \o batch) : e.line = k
    BY <1>2, <2>2 DEF ShipperInv, NothingDropped
  <2> QED
    BY <2>3 DEF Shipped, Range
<1> QED
  BY <1>1, <1>2

(* Queue ids of which a later mail was read than that of line i came       *)
(* between the two.                                                        *)
LEMMA FullMapIsBetween ==
  ASSUME ShipperInv, NEW i \in DOMAIN log, NewLine(i), Len(qid_sender) = QID_MAX,
         MailOf(i) \in seen,
         \A n \in DOMAIN qid_sender, b \in seen :
           LastSeen(qid_sender[n].qid, b) => MailOf(i) < b
  PROVE  ~(Cardinality(Between(i)) < QID_MAX)
<1> DEFINE d == qid_sender
           f == [n \in 1..QID_MAX |-> d[n].qid]
           g == [j \in 1..Len(log) |-> log[j].qid]
           all == {log[j].qid : j \in 1..Len(log)}
<1>1. /\ QID_MAX \in Nat /\ DOMAIN d = 1..QID_MAX /\ log \in Seq(Line)
      /\ DOMAIN log = 1..Len(log) /\ Len(log) \in Nat /\ seen \subseteq DOMAIN log
  <2>1. log \in Seq(Line) /\ d \in Seq([qid: Qid, sender: Sender \cup {Null}])
    BY DEF ShipperInv, ShipperTypeOK
  <2>2. seen \subseteq DOMAIN log
    BY DEF ShipperInv, ReadsOn
  <2>3. QID_MAX \in Nat
    BY ShipperAssumption
  <2> QED
    BY <2>1, <2>2, <2>3
<1>2. IsFiniteSet(all)
  <2>1. IsFiniteSet(1..Len(log))
    BY <1>1, FS_Interval
  <2>2. g \in Surjection(1..Len(log), all)
    BY DEF Surjection
  <2> HIDE DEF g, all
  <2> QED
    BY <2>1, <2>2, FS_Surjection
<1>3. IsFiniteSet(Between(i))
  <2>1. Between(i) \subseteq all
    BY <1>1 DEF Between
  <2> HIDE DEF all
  <2> QED
    BY <1>2, <2>1, FS_Subset
<1>4. ASSUME NEW n \in 1..QID_MAX
      PROVE  \E j \in seen : LastSeen(d[n].qid, j) /\ d[n].qid \in Between(i)
  <2>1. PICK j \in seen : LastSeen(d[n].qid, j)
    BY <1>1 DEF ShipperInv, Remembered
  <2>2. MailOf(i) < j /\ j < i /\ ~IsDelivery(log[j]) /\ log[j].qid = d[n].qid
    BY <1>1, <2>1 DEF LastSeen, NewLine
  <2> QED
    BY <2>1, <2>2 DEF Between
<1>5. ASSUME NEW m \in 1..QID_MAX, NEW n \in 1..QID_MAX, m < n PROVE d[m].qid # d[n].qid
  <2>1. PICK j \in seen : LastSeen(d[n].qid, j)
    BY <1>4
  <2>2. j \in Nat
    BY <1>1
  <2> QED
    BY <1>1, <1>5, <2>1, <2>2 DEF ShipperInv, Remembered
<1>6. f \in Injection(1..QID_MAX, Between(i))
  <2>1. \A m, n \in 1..QID_MAX : m # n => m < n \/ n < m
    BY <1>1
  <2> HIDE DEF d
  <2> QED
    BY <1>4, <1>5, <2>1 DEF Injection, IsInjective
<1> HIDE DEF f
<1>7. Cardinality(1..QID_MAX) <= Cardinality(Between(i))
  BY <1>3, <1>6, FS_Injection
<1>8. Cardinality(1..QID_MAX) = QID_MAX
  BY <1>1, FS_Interval
<1> QED
  BY <1>1, <1>3, <1>7, <1>8, FS_CardinalityType

(* main(): what becomes of a delivery line.                                *)
LEMMA CollectedLemma ==
  ASSUME ShipperInv, NEW i \in DOMAIN log, NewLine(i), IsDelivery(log[i])
  PROVE  \/ /\ Collected(i) = batch
            /\ log[i].of # Null /\ MailOf(i) \in seen \ former
                 => ~(Cardinality(Between(i)) < QID_MAX)
         \/ \E e \in Event :
              /\ Collected(i) = Append(batch, e) /\ e.line = i
              /\ MailOf(i) \in seen => e.sender = log[i].of
<1> DEFINE q == log[i].qid
           known == {e.sender : e \in {e \in Range(qid_sender) : e.qid = log[i].qid}} \ {Null}
<1>1. /\ i \in Nat /\ log[i] \in Line /\ seen \subseteq Nat \ {0}
      /\ qid_sender \in Seq([qid: Qid, sender: Sender \cup {Null}])
      /\ seen \subseteq DOMAIN log /\ \A j \in seen : j < i
  BY DEF ShipperInv, ShipperTypeOK, NewLine, ReadsOn
<1>2. PICK m \in 1..i : IsMailOf(m, i) /\ log[m].of = log[i].of
  BY DEF ShipperInv, MailsLogged
<1>3. MailOf(i) = m
  BY <1>1, <1>2, MailOfIs
<1>4. m \in seen => LastSeen(q, m)
  <2>1. \A j \in seen : j \in 1..i
    BY <1>1
  <2> QED
    BY <1>2, <2>1 DEF LastSeen, IsMailOf
<1>5. \A j, k : LastSeen(q, j) /\ LastSeen(q, k) => j = k
  BY <1>1 DEF LastSeen
<1>6. ASSUME NEW n \in DOMAIN qid_sender, qid_sender[n].qid = q, m \in seen
      PROVE  qid_sender[n].sender = log[i].of
  BY <1>2, <1>4, <1>5, <1>6 DEF ShipperInv, Remembered
<1>7. known = {s \in Sender : \E n \in DOMAIN qid_sender :
                 qid_sender[n].qid = q /\ qid_sender[n].sender = s}
  <2>1. ASSUME NEW n \in DOMAIN qid_sender PROVE qid_sender[n].sender \in Sender \cup {Null}
    <3>1. PICK E : E = [qid: Qid, sender: Sender \cup {Null}]
      OBVIOUS
    <3>2. qid_sender \in Seq(E)
      BY <1>1, <3>1
    <3>3. qid_sender[n] \in E
      BY <2>1, <3>2
    <3> QED
      BY <3>1, <3>3
  <2> QED
    BY <2>1, ShipperAssumption DEF Range
<1>8. Collected(i) = IF known = {} THEN batch
                     ELSE Append(batch, [line |-> i, sender |-> CHOOSE s \in known : TRUE,
                                         dsn |-> Captured(log[i].dsn)])
  BY DEF Collected
<1> HIDE DEF known
<1>9. CASE known = {}
  <2>1. ASSUME log[i].of # Null, m \in seen \ former
        PROVE  ~(Cardinality(Between(i)) < QID_MAX)
    <3>1. log[i].of \in Sender
      BY <1>1, <2>1 DEF Line
    <3>2. ~Mapped(q)
      BY <1>6, <1>7, <1>9, <2>1, <3>1 DEF Mapped
    <3>3. q \in Qid /\ LastSeen(q, m)
      BY <1>1, <1>4, <2>1 DEF Line
    <3>4. /\ Len(qid_sender) = QID_MAX
          /\ \A n \in DOMAIN qid_sender, b \in seen : LastSeen(qid_sender[n].qid, b) => m < b
      BY <2>1, <3>2, <3>3 DEF ShipperInv, Remembered
    <3> QED
      BY <1>3, <2>1, <3>4, FullMapIsBetween
  <2> QED
    BY <1>3, <1>8, <1>9, <2>1
<1>10. CASE known # {}
  <2>1. PICK s : s = CHOOSE x \in known : TRUE
    OBVIOUS
  <2>2. s \in known
    BY <1>10, <2>1
  <2>3. s \in Sender /\ \E n \in DOMAIN qid_sender : qid_sender[n].qid = q /\ qid_sender[n].sender = s
    BY <1>7, <2>2
  <2>4. Captured(log[i].dsn) \in Dsn \cup {None}
    BY <1>1 DEF Captured, Line
  <2>5. PICK e : e = [line |-> i, sender |-> s, dsn |-> Captured(log[i].dsn)]
    OBVIOUS
  <2>6. e \in Event /\ e.line = i /\ e.sender = s
    BY <1>1, <2>3, <2>4, <2>5 DEF Event
  <2>7. Collected(i) = Append(batch, e)
    BY <1>8, <1>10, <2>1, <2>5
  <2>8. m \in seen => s = log[i].of
    BY <1>6, <2>3
  <2> QED
    BY <1>3, <2>6, <2>7, <2>8
<1> QED
  BY <1>9, <1>10

-----------------------------------------------------------------------------
(* main() reads a line.                                                    *)
LEMMA ReadLineKeeps == ASSUME ShipperInv, NEW due \in BOOLEAN, ReadLine(due) PROVE ShipperInv'
<1>1. /\ pc = "read" /\ fd \in DOMAIN files /\ pos \in Nat /\ pos < Len(files[fd])
      /\ pos' = pos + 1 /\ pos + 1 \in DOMAIN files[fd] /\ fd # 0
      /\ UNCHANGED <<world, fd, accepted, failed, former, kills>>
      /\ UNCHANGED <<log, files, path, syslog>>
  BY DEF ShipperInv, ShipperTypeOK, ReadsOn, ReadLine, world
<1>2. PICK i : i = files[fd][pos + 1]
  OBVIOUS
<1>3. LinesInOrder(files[fd])
  BY <1>1 DEF ShipperInv, FilesInOrder
<1>4. i \in DOMAIN log /\ NewLine(i)
  <2>1. i \in DOMAIN log
    BY <1>1, <1>2, <1>3 DEF LinesInOrder
  <2>2. \A j \in seen : j < i
    BY <1>1, <1>2 DEF ShipperInv, ReadsOn
  <2>3. i \in Nat
    BY <2>1 DEF ShipperInv, ShipperTypeOK
  <2> QED
    BY <2>1, <2>2, <2>3 DEF NewLine
<1>5. /\ seen' = seen \cup {i}
      /\ IF IsDelivery(log[i]) THEN batch' = Collected(i) /\ UNCHANGED qid_sender
         ELSE qid_sender' = Remember(log[i].qid, log[i].of) /\ UNCHANGED batch
      /\ pc' = IF Flushes(batch', due) THEN "post" ELSE "read"
  BY <1>2 DEF ReadLine
<1>6. /\ batch \in Seq(Event) /\ Len(batch) < BATCH_MAX /\ BATCH_MAX \in Nat \ {0}
      /\ accepted \in Seq(Event) /\ log \in Seq(Line) /\ i \in Nat
      /\ seen \subseteq DOMAIN log /\ failed \subseteq seen /\ former \subseteq seen
  <2>1. log \in Seq(Line) /\ i \in Nat
    BY <1>4 DEF ShipperInv, ShipperTypeOK
  <2> QED
    BY <1>1, <2>1, ShipperAssumption DEF ShipperInv, ShipperTypeOK, ReadsOn
<1>7. \/ /\ batch' = batch
         /\ IsDelivery(log[i]) /\ log[i].of # Null /\ MailOf(i) \in seen \ former
              => ~(Cardinality(Between(i)) < QID_MAX)
      \/ \E e \in Event :
           /\ batch' = Append(batch, e) /\ e.line = i /\ IsDelivery(log[i])
           /\ MailOf(i) \in seen => e.sender = log[i].of
  <2>1. CASE ~IsDelivery(log[i])
    BY <1>5, <2>1
  <2>2. CASE IsDelivery(log[i])
    <3>1. PICK b : b = Collected(i)
      OBVIOUS
    <3>2. \/ /\ b = batch
             /\ log[i].of # Null /\ MailOf(i) \in seen \ former
                  => ~(Cardinality(Between(i)) < QID_MAX)
          \/ \E e \in Event :
               /\ b = Append(batch, e) /\ e.line = i
               /\ MailOf(i) \in seen => e.sender = log[i].of
      BY <1>4, <2>2, <3>1, CollectedLemma
    <3> QED
      BY <1>5, <2>2, <3>1, <3>2
  <2> QED
    BY <2>1, <2>2
<1>8. batch' \in Seq(Event) /\ Len(batch') \in Nat /\ Len(batch') <= BATCH_MAX
  <2>1. \A e \in Event : /\ Append(batch, e) \in Seq(Event)
                        /\ Len(Append(batch, e)) = Len(batch) + 1
    BY <1>6
  <2>2. Len(batch) \in Nat /\ Len(batch) + 1 <= BATCH_MAX
    BY <1>6
  <2>3. CASE batch' = batch
    BY <1>6, <2>2, <2>3
  <2>4. CASE \E e \in Event : batch' = Append(batch, e)
    BY <2>1, <2>2, <2>4
  <2> QED
    BY <1>7, <2>3, <2>4
<1>9. pc' \in {"read", "post"} /\ (pc' # "post" => Len(batch') < BATCH_MAX)
  BY <1>5, <1>6, <1>8 DEF Flushes
<1>10. /\ Remembered'
       /\ qid_sender' \in Seq([qid: Qid, sender: Sender \cup {Null}])
       /\ Len(qid_sender') <= QID_MAX
  <2>1. CASE ~IsDelivery(log[i])
    BY <1>1, <1>4, <1>5, <2>1, ReadsOwner
  <2>2. CASE IsDelivery(log[i])
    <3>1. \A q, j : LastSeen(q, j)' <=> LastSeen(q, j)
      <4>1. \A q, j : LastSeen(q, j)' => j # i
        BY <1>1, <2>2 DEF LastSeen, IsDelivery
      <4> QED
        BY <1>1, <1>4, <1>5, <2>2, <4>1, SeenGrows
    <3>2. \A q, j : LastSeen(q, j) => j \in seen
      BY DEF LastSeen
    <3>3. UNCHANGED <<qid_sender, log, former>> /\ seen \subseteq seen'
      BY <1>1, <1>5, <2>2
    <3>4. Remembered'
      BY <2>2, <1>5, <3>1, <3>2, <3>3 DEF ShipperInv, Remembered, Mapped
    <3> QED
      BY <3>3, <3>4 DEF ShipperInv, ShipperTypeOK
  <2> QED
    BY <2>1, <2>2
<1>11. pos' \in 0..MaxLines
  <2>1. Len(log) \in Nat /\ Len(log) <= MaxLines /\ MaxLines \in Nat
    BY <1>6, ShipperAssumption DEF ShipperInv, ShipperTypeOK
  <2>2. pos + 1 \in 1..Len(files[fd])
    BY <1>1
  <2>3. Len(files[fd]) \in Nat /\ Len(files[fd]) <= Len(log)
    BY <1>1, <1>3 DEF LinesInOrder, ShipperInv, ShipperTypeOK
  <2> QED
    BY <1>1, <2>1, <2>2, <2>3
<1>12. ShipperTypeOK'
  <2>1. seen' \subseteq 1..MaxLines
    <3>1. i \in 1..Len(log) /\ Len(log) <= MaxLines /\ Len(log) \in Nat /\ MaxLines \in Nat
      <4>1. Len(log) <= MaxLines /\ MaxLines \in Nat
        BY ShipperAssumption DEF ShipperInv, ShipperTypeOK
      <4> QED
        BY <1>4, <1>6, <4>1
    <3>2. i \in 1..MaxLines
      BY <3>1
    <3> QED
      BY <1>5, <3>2 DEF ShipperInv, ShipperTypeOK
  <2>2. failed' \subseteq seen' /\ former' \subseteq seen'
    BY <1>1, <1>5, <1>6
  <2> QED
    BY <1>1, <1>8, <1>9, <1>10, <1>11, <2>1, <2>2 DEF ShipperInv, ShipperTypeOK
<1>13. MailsLogged' /\ FilesInOrder'
  BY <1>1 DEF ShipperInv, MailsLogged, IsMailOf, IsDelivery, FilesInOrder, LinesInOrder
<1>14. ReadsOn'
  <2>1. ASSUME NEW k \in DOMAIN files[fd], k > pos + 1, NEW j \in seen'
        PROVE  j < files[fd][k]
    <3>1. CASE j \in seen
      BY <1>1, <2>1, <3>1 DEF ShipperInv, ReadsOn
    <3>2. CASE j = i
      BY <1>1, <1>2, <1>3, <2>1, <3>2 DEF LinesInOrder
    <3> QED
      BY <1>5, <3>1, <3>2
  <2>2. seen' \subseteq DOMAIN log'
    BY <1>1, <1>4, <1>5, <1>6
  <2> QED
    BY <1>1, <1>9, <2>1, <2>2 DEF ReadsOn
<1>15. /\ \A n \in DOMAIN Shipped, k \in Nat : k = Shipped[n].line =>
            /\ k \in seen' /\ k < i /\ IsDelivery(log'[k])
            /\ MailOf(k)' \in seen' => Shipped[n].sender = log[k].of
       /\ \A k \in seen \ (failed \cup former) :
            /\ IsDelivery(log[k]) /\ log[k].of # Null
            /\ MailOf(k)' \in seen' \ former /\ Cardinality(Between(k)') < QID_MAX
            => \E n \in DOMAIN Shipped : Shipped[n].line = k
  BY <1>1, <1>4, <1>5, ShippedKept
<1>16. IsDelivery(log[i]) => /\ MailOf(i)' = MailOf(i) /\ Between(i)' = Between(i)
                             /\ MailOf(i) \in seen' => MailOf(i) \in seen
  BY <1>1, <1>4, <1>5, MailsAreOlder
<1>17. PICK old, new : old = Shipped /\ new = Shipped'
  OBVIOUS
<1>18. old \in Seq(Event)
  BY <1>6, <1>17 DEF Shipped
<1>19. \/ /\ new = old
          /\ IsDelivery(log[i]) /\ log[i].of # Null /\ MailOf(i) \in seen \ former
               => ~(Cardinality(Between(i)) < QID_MAX)
       \/ \E e \in Event :
            /\ new = Append(old, e) /\ e.line = i /\ IsDelivery(log[i])
            /\ MailOf(i) \in seen => e.sender = log[i].of
  <2>1. ASSUME NEW e \in Event, batch' = Append(batch, e)
        PROVE  accepted \o batch' = Append(accepted \o batch, e)
    BY <1>6, <2>1
  <2> QED
    BY <1>1, <1>7, <1>17, <2>1 DEF Shipped
<1>20. ASSUME NEW n \in DOMAIN old, NEW k \in Nat, k = old[n].line
       PROVE  /\ k \in seen' /\ k < i /\ IsDelivery(log'[k])
              /\ MailOf(k)' \in seen' => old[n].sender = log[k].of
  BY <1>15, <1>17, <1>20
<1>21. \A n \in DOMAIN old : old[n].line \in Nat /\ old[n].line < i
  <2>1. ASSUME NEW n \in DOMAIN old PROVE old[n].line \in Nat
    <3>1. old[n] \in Event
      BY <1>18, <2>1
    <3> QED
      BY <3>1 DEF Event
  <2> QED
    BY <1>20, <2>1
<1>22. ASSUME NEW n \in DOMAIN new
       PROVE  \/ n \in DOMAIN old /\ new[n] = old[n]
              \/ /\ n = Len(old) + 1 /\ new[n].line = i /\ IsDelivery(log[i])
                 /\ MailOf(i) \in seen => new[n].sender = log[i].of
  BY <1>18, <1>19, <1>22
<1>23. \A n \in DOMAIN old : n \in DOMAIN new /\ new[n] = old[n]
  BY <1>18, <1>19
<1>24. ASSUME NEW n \in DOMAIN new, NEW k, k = new[n].line
       PROVE  /\ k \in seen' /\ IsDelivery(log'[k])
              /\ MailOf(k)' \in seen' => new[n].sender = log'[k].of
  <2>1. CASE n \in DOMAIN old /\ new[n] = old[n]
    BY <1>1, <1>20, <1>21, <1>24, <2>1
  <2>2. CASE /\ n = Len(old) + 1 /\ new[n].line = i /\ IsDelivery(log[i])
             /\ MailOf(i) \in seen => new[n].sender = log[i].of
    BY <1>1, <1>5, <1>16, <1>24, <2>2 DEF IsDelivery
  <2> QED
    BY <1>22, <2>1, <2>2
<1>25. new = accepted' \o batch'
  BY <1>17 DEF Shipped
<1>26. EventsRead'
  BY <1>17, <1>24 DEF EventsRead
<1>27. AcceptedOnce'
  <2>1. \A m, n \in DOMAIN old : old[m].line = old[n].line => m = n
    BY <1>17 DEF ShipperInv, AcceptedOnce, Shipped
  <2>2. ASSUME NEW m \in DOMAIN new, NEW n \in DOMAIN new, new[m].line = new[n].line
        PROVE  m = n
    BY <1>6, <1>21, <1>22, <2>1, <2>2
  <2> QED
    BY <1>25, <2>2 DEF AcceptedOnce
<1>28. ChargedToItsSender'
  <2>1. ASSUME NEW e \in Range(new), MailOf(e.line)' \in seen' PROVE e.sender = log'[e.line].of
    <3>1. PICK n \in DOMAIN new : e = new[n]
      BY <2>1 DEF Range
    <3>2. PICK k : k = e.line
      OBVIOUS
    <3>3. MailOf(k)' \in seen'
      BY <2>1, <3>2
    <3> QED
      BY <1>24, <3>1, <3>2, <3>3
  <2> QED
    BY <1>25, <2>1 DEF ChargedToItsSender
<1>29. NothingDropped'
  <2>1. ASSUME NEW k \in seen' \ (failed \cup former), IsDelivery(log[k]), log[k].of # Null,
               MailOf(k)' \in seen' \ former, Cardinality(Between(k)') < QID_MAX
        PROVE  \E n \in DOMAIN new : new[n].line = k
    <3>1. CASE k \in seen
      <4>1. \E n \in DOMAIN Shipped : Shipped[n].line = k
        BY <1>15, <2>1, <3>1
      <4> QED
        BY <1>17, <1>23, <4>1
    <3>2. CASE k = i
      <4>1. MailOf(i) \in seen \ former /\ Cardinality(Between(i)) < QID_MAX
        BY <1>16, <2>1, <3>2
      <4>2. PICK e \in Event : new = Append(old, e) /\ e.line = i
        BY <1>19, <2>1, <3>2, <4>1
      <4>3. Len(old) + 1 \in DOMAIN new /\ new[Len(old) + 1] = e
        BY <1>18, <4>2
      <4> QED
        BY <3>2, <4>2, <4>3
    <3> QED
      BY <1>5, <2>1, <3>1, <3>2
  <2>2. ASSUME NEW k, \E n \in DOMAIN new : new[n].line = k
        PROVE  \E e \in Range(new) : e.line = k
    BY <2>2 DEF Range
  <2> QED
    BY <1>1, <1>25, <2>1, <2>2 DEF NothingDropped, IsDelivery
<1> QED
  BY <1>10, <1>12, <1>13, <1>14, <1>26, <1>27, <1>28, <1>29 DEF ShipperInv

-----------------------------------------------------------------------------
(* A batch that arrives is accepted; one that does not has failed.         *)
LEMMA BatchLeaves ==
  ASSUME ShipperInv, NEW arrives \in BOOLEAN, Posted(arrives),
         batch' = << >>, UNCHANGED <<log, seen>>, former' \in {former, seen}
  PROVE  /\ accepted' \in Seq(Event) /\ failed' \subseteq seen' /\ former' \subseteq seen'
         /\ EventsRead' /\ AcceptedOnce' /\ ChargedToItsSender' /\ NothingDropped'
<1>1. /\ accepted \in Seq(Event) /\ batch \in Seq(Event) /\ failed \subseteq seen /\ former \subseteq seen
  BY DEF ShipperInv, ShipperTypeOK
<1>2. PICK old, new : old = Shipped /\ new = Shipped'
  OBVIOUS
<1>3. old \in Seq(Event) /\ old = accepted \o batch
  BY <1>1, <1>2 DEF Shipped
<1>4. accepted' \in Seq(Event) /\ new = accepted' /\ new = accepted' \o batch'
  <2>1. accepted' \in Seq(Event)
    <3>1. accepted \o batch \in Seq(Event)
      BY <1>1
    <3>2. accepted' = accepted \/ accepted' = accepted \o batch
      BY DEF Posted
    <3> QED
      BY <1>1, <3>1, <3>2
  <2>2. accepted' \o << >> = accepted'
    BY <2>1
  <2> QED
    BY <1>2, <2>1, <2>2 DEF Shipped
<1>5. \A n \in DOMAIN new : n \in DOMAIN old /\ new[n] = old[n]
  BY <1>1, <1>3, <1>4 DEF Posted
<1>6. \A n \in DOMAIN old : old[n].line \in seen /\ IsDelivery(log[old[n].line])
  BY <1>2 DEF ShipperInv, EventsRead
<1>7. EventsRead'
  BY <1>2, <1>5, <1>6 DEF EventsRead, IsDelivery
<1>8. AcceptedOnce'
  <2>1. \A m, n \in DOMAIN old : old[m].line = old[n].line => m = n
    BY <1>3 DEF ShipperInv, AcceptedOnce
  <2>2. \A m, n \in DOMAIN new : new[m].line = new[n].line => m = n
    BY <1>5, <2>1
  <2> QED
    BY <1>4, <2>2 DEF AcceptedOnce
<1>9. Range(new) \subseteq Range(old)
  BY <1>5 DEF Range
<1>10. \A k : MailOf(k)' = MailOf(k) /\ Between(k)' = Between(k)
  BY DEF MailOf, Between, IsDelivery
<1>11. ChargedToItsSender'
  BY <1>3, <1>4, <1>9, <1>10 DEF ShipperInv, ChargedToItsSender
<1>12. failed' \subseteq seen'
  <2>1. CASE arrives
    BY <1>1, <2>1 DEF Posted
  <2>2. CASE ~arrives
    <3>1. ASSUME NEW e \in Range(batch) PROVE e.line \in seen
      <4>1. PICK n \in DOMAIN batch : e = batch[n]
        BY <3>1 DEF Range
      <4>2. Len(accepted) + n \in DOMAIN old /\ old[Len(accepted) + n] = e
        BY <1>1, <1>3, <4>1
      <4> QED
        BY <1>6, <4>2
    <3> QED
      BY <1>1, <2>2, <3>1 DEF Posted
  <2> QED
    BY <2>1, <2>2
<1>13. NothingDropped'
  <2>1. ASSUME NEW k \in seen \ (failed' \cup former), IsDelivery(log[k]), log[k].of # Null,
               MailOf(k) \in seen \ former, Cardinality(Between(k)) < QID_MAX
        PROVE  \E e \in Range(new) : e.line = k
    <3>1. k \notin failed
      BY <2>1 DEF Posted
    <3>2. PICK e \in Range(old) : e.line = k
      BY <1>3, <2>1, <3>1 DEF ShipperInv, NothingDropped
    <3>3. PICK n \in DOMAIN old : old[n] = e
      BY <3>2 DEF Range
    <3>4. CASE arrives
      BY <1>3, <1>4, <3>2, <3>4 DEF Posted
    <3>5. CASE ~arrives
      <4>1. \A b \in Range(batch) : b.line # k
        BY <2>1, <3>5 DEF Posted
      <4>2. n \in DOMAIN accepted /\ accepted[n] = e
        <5>1. CASE n \in DOMAIN accepted
          BY <1>1, <1>3, <3>3, <5>1
        <5>2. CASE n \notin DOMAIN accepted
          <6>1. n - Len(accepted) \in DOMAIN batch /\ batch[n - Len(accepted)] = e
            BY <1>1, <1>3, <3>3, <5>2
          <6> QED
            BY <3>2, <4>1, <6>1 DEF Range
        <5> QED
          BY <5>1, <5>2
      <4> QED
        BY <1>4, <3>2, <3>5, <4>2 DEF Posted, Range
    <3> QED
      BY <3>4, <3>5
  <2>2. former \subseteq former'
    BY <1>1
  <2> QED
    BY <1>4, <1>10, <2>1, <2>2 DEF NothingDropped, IsDelivery
<1> QED
  BY <1>1, <1>4, <1>7, <1>8, <1>11, <1>12, <1>13

LEMMA PostKeeps ==
  ASSUME ShipperInv, NEW arrives \in BOOLEAN, NEW answered \in BOOLEAN, Post(arrives, answered)
  PROVE  ShipperInv'
<1>1. /\ pc = "post" /\ pc' = "read" /\ Posted(arrives) /\ batch' = << >>
      /\ UNCHANGED <<log, files, path, syslog, fd, pos, qid_sender, seen, former, kills>>
  BY DEF Post, world
<1>2. /\ accepted' \in Seq(Event) /\ failed' \subseteq seen' /\ former' \subseteq seen'
      /\ EventsRead' /\ AcceptedOnce' /\ ChargedToItsSender' /\ NothingDropped'
  BY <1>1, BatchLeaves
<1>3. batch' \in Seq(Event) /\ Len(batch') = 0 /\ BATCH_MAX \in Nat \ {0}
  BY <1>1, ShipperAssumption
<1>4. ShipperTypeOK'
  BY <1>1, <1>2, <1>3 DEF ShipperInv, ShipperTypeOK
<1>5. MailsLogged' /\ FilesInOrder'
  BY <1>1 DEF ShipperInv, MailsLogged, IsMailOf, IsDelivery, FilesInOrder, LinesInOrder
<1>6. ReadsOn'
  BY <1>1, <1>3 DEF ShipperInv, ReadsOn
<1>7. Remembered'
  BY <1>1 DEF ShipperInv, Remembered, LastSeen, Mapped, IsDelivery
<1> QED
  BY <1>2, <1>4, <1>5, <1>6, <1>7 DEF ShipperInv

LEMMA KillKeeps == ASSUME ShipperInv, Kill PROVE ShipperInv'
<1>1. /\ kills \in Nat /\ kills < MaxKills /\ MaxKills \in Nat /\ kills' = kills + 1
      /\ pc' = "open" /\ fd' = 0 /\ pos' = 0 /\ qid_sender' = << >> /\ batch' = << >>
      /\ former' = seen /\ UNCHANGED <<log, files, path, syslog, seen>>
  BY ShipperAssumption DEF Kill, world, ShipperInv, ShipperTypeOK
<1>2. PICK arrives \in BOOLEAN : Posted(arrives)
  BY DEF Kill
<1>3. /\ accepted' \in Seq(Event) /\ failed' \subseteq seen' /\ former' \subseteq seen'
      /\ EventsRead' /\ AcceptedOnce' /\ ChargedToItsSender' /\ NothingDropped'
  BY <1>1, <1>2, BatchLeaves
<1>4. /\ batch' \in Seq(Event) /\ Len(batch') = 0 /\ BATCH_MAX \in Nat \ {0}
      /\ qid_sender' \in Seq([qid: Qid, sender: Sender \cup {Null}]) /\ Len(qid_sender') = 0
      /\ QID_MAX \in Nat /\ MaxLines \in Nat
  BY <1>1, ShipperAssumption
<1>5. ShipperTypeOK'
  BY <1>1, <1>3, <1>4 DEF ShipperInv, ShipperTypeOK
<1>6. MailsLogged' /\ FilesInOrder'
  BY <1>1 DEF ShipperInv, MailsLogged, IsMailOf, IsDelivery, FilesInOrder, LinesInOrder
<1>7. ReadsOn'
  BY <1>1, <1>4 DEF ShipperInv, ReadsOn
<1>8. Remembered'
  <2>1. seen' \ former' = {} /\ DOMAIN qid_sender' = {}
    BY <1>1
  <2> QED
    BY <2>1 DEF Remembered
<1> QED
  BY <1>3, <1>5, <1>6, <1>7, <1>8 DEF ShipperInv

(* The invariant is inductive: one lemma per step or group of steps.        *)
THEOREM ShipperInvariant == ShipperSpec => []ShipperInv
<1>1. ShipperInit => ShipperInv
  BY InitShipper
<1>2. ShipperInv /\ [ShipperNext]_shipperVars => ShipperInv'
  <2> SUFFICES ASSUME ShipperInv, [ShipperNext]_shipperVars PROVE ShipperInv'
    OBVIOUS
  <2>1. ASSUME NEW l \in Line, Logs(l) PROVE ShipperInv'
    BY <2>1, LogsKeeps
  <2>2. CASE Rename \/ Create \/ Reopen \/ Truncate \/ Open \/ EndOfFile \/ Stat
    BY <2>2, FollowingKeeps
  <2>3. ASSUME NEW due \in BOOLEAN, ReadLine(due) PROVE ShipperInv'
    BY <2>3, ReadLineKeeps
  <2>4. ASSUME NEW arrives \in {TRUE, ~PostFails}, NEW answered \in {TRUE, ~PostFails},
               Post(arrives, answered)
        PROVE  ShipperInv'
    <3>1. arrives \in BOOLEAN /\ answered \in BOOLEAN
      OBVIOUS
    <3> QED
      BY <2>4, <3>1, PostKeeps
  <2>5. CASE Kill
    BY <2>5, KillKeeps
  <2>6. CASE UNCHANGED shipperVars
    <3>1. Remembered' /\ EventsRead' /\ AcceptedOnce' /\ ChargedToItsSender' /\ NothingDropped'
      BY <2>6, ReadingKept DEF shipperVars
    <3>2. ShipperTypeOK' /\ MailsLogged' /\ FilesInOrder' /\ ReadsOn'
      BY <2>6 DEF shipperVars, ShipperInv, ShipperTypeOK, MailsLogged, IsMailOf, IsDelivery,
                  FilesInOrder, LinesInOrder, ReadsOn
    <3> QED
      BY <3>1, <3>2 DEF ShipperInv
  <2> QED
    BY <2>1, <2>2, <2>3, <2>4, <2>5, <2>6 DEF ShipperNext, Shipping
<1> QED
  BY <1>1, <1>2, PTL DEF ShipperSpec

(* Batches and the map of queue ids never grow beyond their bounds, the    *)
(* position is one in the file that is open, and everything has its type.  *)
THEOREM ShipperTypeCorrect == ShipperSpec => []ShipperTypeOK
<1>1. ShipperInv => ShipperTypeOK
  BY DEF ShipperInv
<1> QED
  BY <1>1, ShipperInvariant, PTL

(* Whatever fails, is rotated or killed, policyd never takes one delivery  *)
(* line twice.                                                             *)
THEOREM OutcomesCountOnce == ShipperSpec => []AcceptedOnce
<1>1. ShipperInv => AcceptedOnce
  BY DEF ShipperInv
<1> QED
  BY <1>1, ShipperInvariant, PTL

(* An outcome is charged to the sender of its own mail.                    *)
THEOREM OutcomesFindTheirSender == ShipperSpec => []ChargedToItsSender
<1>1. ShipperInv => ChargedToItsSender
  BY DEF ShipperInv
<1> QED
  BY <1>1, ShipperInvariant, PTL

(* The map forgets a mail only after QID_MAX others, and the batches drop  *)
(* nothing.                                                                *)
THEOREM OutcomesAreShipped == ShipperSpec => []NothingDropped
<1>1. ShipperInv => NothingDropped
  BY DEF ShipperInv
<1> QED
  BY <1>1, ShipperInvariant, PTL

=============================================================================
