------------------------------ MODULE Feedback ------------------------------
(***************************************************************************)
(* The bounce-rate feedback loop for one sender.  decide() counts accepted *)
(* recipients without waiting for Redis; ingest() takes batches of         *)
(* delivery outcomes, one record() after the other, counts each and, after *)
(* a bad one, judges the sender by the counters of the current bucket; a   *)
(* judgement raises a flag and alerts the operators, at most once per      *)
(* interval (notify.service.ts).  Calls of any replica interleave at their *)
(* awaits; the replicas' clocks run ahead of Redis' by different amounts.  *)
(*                                                                         *)
(* A command is issued when the answer before it arrives and runs in Redis *)
(* up to MaxLag ticks later.  A connection lost before its reply makes the *)
(* client send it again, after it has run (maxRetriesPerRequest).  A       *)
(* bucket is named by the tick it starts at.                               *)
(***************************************************************************)
EXTENDS Integers, Sequences, FiniteSets, FiniteSetsExt

CONSTANTS
  Call,          \* calls that may be in flight at once
  Idle,          \* call[c] of a free slot
  Batches,       \* batches the shippers post: sequences of Report
  Rcpts,         \* recipient counts of accepted messages
  Skews,         \* how far a replica's clock may be ahead of Redis'
  MaxLag,        \* ticks between issuing a command and its run
  Bucket,        \* ticks of a bucket (BOUNCE_WINDOW_HOURS)
  Slack,         \* the 300 s by which a counter outlives its bucket
  MinSample,     \* BOUNCE_RATE_MIN_SAMPLE
  ThresholdPct,  \* BOUNCE_RATE_THRESHOLD, in percent
  Interval,      \* ALERT_MIN_INTERVAL_SEC
  MaxCalls,      \* bound: calls in a behaviour
  MaxFaults,     \* bound: commands that fail, replies lost, replicas that die
  Horizon        \* bound: the last tick

Time == 0..Horizon
ASSUME FeedbackAssumption ==
  /\ Skews \subseteq Nat /\ Rcpts \subseteq Nat \ {0}
  /\ {Bucket, Interval} \subseteq Nat \ {0}
  /\ {MaxLag, Slack, MinSample, ThresholdPct, MaxCalls, MaxFaults, Horizon} \subseteq Nat

ASSUME CallAssumption == IsFiniteSet(Call)

(* The slack covers the skew of the clocks and the lag of a command.       *)
ASSUME SlackCoversSkew == \A s \in Skews : s + MaxLag <= Slack

Outcome == {"ok", "bounce", "spam", "defer"}
Bad == {"bounce", "spam"}
Kind == Outcome \cup {"sent"}
Key == {"bounce", "suspend"}   \* alert:bounce:<email>, alert:suspend:<email>

(* What classify() can tell of a report: the class of its DSN and which of *)
(* its word lists occur anywhere in it ("blocked" stands for the list      *)
(* spam, blocked, blacklist, ..., 5.7.).  `named`: it carries an address.  *)
Report == [named: BOOLEAN, dsn: {"2", "4", "5", "none"},
           words: SUBSET {"blocked", "bounced", "deferred", "sent"}]

Named(reports) == SelectSeq(reports, LAMBDA r : r.named)

ASSUME BatchesAssumption == \A b \in Batches : b \in Seq(Report) /\ Named(b) \in Seq(Report)

(* classify(): the first list that matches decides.                        *)
Classify(r) ==
  IF "blocked" \in r.words THEN "spam"
  ELSE IF r.dsn = "5" \/ "bounced" \in r.words THEN "bounce"
  ELSE IF r.dsn = "4" \/ "deferred" \in r.words THEN "defer"
  ELSE "ok"

BucketOf(t) == t - (t % Bucket)
BucketStart == {BucketOf(t + s) : t \in Time, s \in Skews}
BucketEnd(b) == b + Bucket

(* A call: decide()'s count of n recipients (an empty todo), or an ingest() *)
(* with the reports it has left, the first of which it is recording.  The  *)
(* bucket it counted in, the one it reads, and when the command was issued; *)
(* at "recount" its INCR has run and is to be sent again.                  *)
InFlight == [todo: Seq(Report), kind: Kind, n: Nat, skew: Skews, since: Time,
             bucket: BucketStart, reads: BucketStart, key: Key,
             step: {"count", "recount", "rates", "flag", "claim", "send"}]

ASSUME IdleAssumption == Idle \notin InFlight

VARIABLES
  clock,      \* Redis' time
  counter,    \* fb:<kind>:<email>:<bucket>
  counterEnd, \* when it expires, 0: not in Redis
  once,       \* when once:alert:<key> expires, 0: not in Redis
  call,
  calls,      \* calls so far (bounded by MaxCalls)
  faults,     \* faults so far (bounded by MaxFaults)
  added,      \* history: what was ever added to each counter
  outcomes,   \* history: reports [named, failed], INCRs [unanswered], replicas [died]
  judged,     \* history: [flagged, unread] buckets; see NoticesBadSenders
  sentAtBad,  \* history: sent when the last bad outcome of a bucket was counted
  alerts      \* history: [granted, tried, lost]: last tick per key, -1: never

vars == <<clock, counter, counterEnd, once, call, calls, faults,
          added, outcomes, judged, sentAtBad, alerts>>
store == <<counter, counterEnd, added, sentAtBad>>

TypeOK ==
  /\ clock \in Time
  /\ counter \in [Kind -> [BucketStart -> Nat]]
  /\ counterEnd \in [Kind -> [BucketStart -> Nat]]
  /\ once \in [Key -> Nat]
  /\ call \in [Call -> InFlight \cup {Idle}]
  /\ calls \in 0..MaxCalls /\ faults \in 0..MaxFaults
  /\ added \in [Kind -> [BucketStart -> Nat]]
  /\ outcomes \in [named: Nat, failed: Nat, unanswered: Nat, died: Nat]
  /\ judged \in [flagged: SUBSET BucketStart, unread: SUBSET BucketStart]
  /\ sentAtBad \in [BucketStart -> Nat]
  /\ alerts \in [{"granted", "tried", "lost"} -> [Key -> Time \cup {-1}]]

Zero == [b \in BucketStart |-> 0]

Init ==
  /\ clock = 0
  /\ counter = [k \in Kind |-> Zero] /\ counterEnd = [k \in Kind |-> Zero]
  /\ once = [k \in Key |-> 0]
  /\ call = [c \in Call |-> Idle]
  /\ calls = 0 /\ faults = 0
  /\ added = [k \in Kind |-> Zero]
  /\ outcomes = [named |-> 0, failed |-> 0, unanswered |-> 0, died |-> 0]
  /\ judged = [flagged |-> {}, unread |-> {}]
  /\ sentAtBad = Zero
  /\ alerts = [event \in {"granted", "tried", "lost"} |-> [k \in Key |-> -1]]

At(c, s) == call[c] # Idle /\ call[c].step = s

(* The call of a replica that starts to record the first of `todo`: it     *)
(* issues the INCR of the bucket its clock is in; nothing left, it ends.   *)
Recording(todo, skew) ==
  IF todo = << >> THEN Idle
  ELSE LET b == BucketOf(clock + skew) IN
       [todo |-> todo, kind |-> Classify(Head(todo)), n |-> 1, skew |-> skew,
        since |-> clock, bucket |-> b, reads |-> b, key |-> "bounce", step |-> "count"]

(* record() has returned: ingest() goes on with the next report.           *)
Done(c) ==
  call' = [call EXCEPT ![c] =
             IF @.todo = << >> THEN Idle ELSE Recording(Tail(@.todo), @.skew)]

(* Mutant: the catch is around the loop, and an error ends the batch.      *)
CaughtOutside(c) == call' = [call EXCEPT ![c] = Idle]

(* record() has thrown, and ingest() goes on all the same.                 *)
Caught(c) == Done(c)

-----------------------------------------------------------------------------
(* decide() accepts a message and counts its recipients, not awaited.      *)
Accept(c, rcpt, skew) ==
  /\ call[c] = Idle
  /\ calls < MaxCalls /\ calls' = calls + 1
  /\ LET b == BucketOf(clock + skew) IN
     call' = [call EXCEPT ![c] =
                [todo |-> << >>, kind |-> "sent", n |-> rcpt, skew |-> skew, since |-> clock,
                 bucket |-> b, reads |-> b, key |-> "bounce", step |-> "count"]]
  /\ UNCHANGED <<clock, store, once, faults, outcomes, judged, alerts>>

(* A shipper posts a batch; reports without an address are skipped.        *)
Ingest(c, batch, skew) ==
  /\ call[c] = Idle
  /\ calls < MaxCalls /\ calls' = calls + 1
  /\ Named(batch) # << >>
  /\ call' = [call EXCEPT ![c] = Recording(Named(batch), skew)]
  /\ outcomes' = [outcomes EXCEPT !.named = @ + Len(Named(batch))]
  /\ UNCHANGED <<clock, store, once, faults, judged, alerts>>

(* Mutant: the counter lives for one bucket.                               *)
TtlOfBucket == Bucket

(* The TTL a counter gets when it is created.                              *)
CounterTtl == Bucket + Slack

Counting(c) == At(c, "count") \/ At(c, "recount")

(* INCR_TTL in Redis.                                                      *)
Incremented(me) ==
  /\ counter' = [counter EXCEPT ![me.kind][me.bucket] = @ + me.n]
  /\ counterEnd' = [counterEnd EXCEPT ![me.kind][me.bucket] =
                      IF counter[me.kind][me.bucket] = 0 THEN clock + CounterTtl ELSE @]
  /\ added' = [added EXCEPT ![me.kind][me.bucket] = @ + me.n]
  /\ sentAtBad' = IF me.kind \in Bad
                    THEN [sentAtBad EXCEPT ![me.bucket] = counter["sent"][me.bucket]]
                    ELSE sentAtBad

(* After a bad outcome the counters are asked for, in the bucket of the    *)
(* replica's clock as it is now.                                           *)
Count(c) ==
  /\ Counting(c)
  /\ Incremented(call[c])
  /\ IF call[c].kind \in Bad
       THEN LET reads == BucketOf(clock + call[c].skew) IN
            /\ call' = [call EXCEPT ![c].step = "rates", ![c].since = clock, ![c].reads = reads]
            /\ judged' = [judged EXCEPT !.unread =
                            IF reads = call[c].bucket THEN @ ELSE @ \cup {call[c].bucket}]
       ELSE Done(c) /\ UNCHANGED judged
  /\ UNCHANGED <<clock, once, calls, faults, outcomes, alerts>>

(* The INCR_TTL runs, but its reply is lost: it is sent again.             *)
CountLost(c) ==
  /\ Counting(c)
  /\ faults < MaxFaults /\ faults' = faults + 1
  /\ Incremented(call[c])
  /\ call' = [call EXCEPT ![c].step = "recount"]
  /\ outcomes' = IF call[c].kind = "sent" THEN outcomes
                   ELSE [outcomes EXCEPT !.unanswered = @ + 1]
  /\ UNCHANGED <<clock, once, calls, judged, alerts>>

(* The four counters of a bucket, as fbRates() reads them.                 *)
Rates(b) == [kind \in {"sent", "bounce", "spam", "defer"} |-> counter[kind][b]]

(* Mutant: the rate has to exceed the threshold.                           *)
TooHighStrictly(r) ==
  /\ r["sent"] >= MinSample
  /\ 100 * (r["bounce"] + r["spam"]) > ThresholdPct * Max({1, r["sent"]})

(* Enough volume to judge, and the share of bad outcomes at the threshold. *)
TooHigh(r) ==
  /\ r["sent"] >= MinSample
  /\ 100 * (r["bounce"] + r["spam"]) >= ThresholdPct * Max({1, r["sent"]})

Judge(c) ==
  /\ At(c, "rates")
  /\ IF TooHigh(Rates(call[c].reads)) THEN call' = [call EXCEPT ![c].step = "flag"] ELSE Done(c)
  /\ UNCHANGED <<clock, store, once, calls, faults, outcomes, judged, alerts>>

(* raiseFlag() returns; its verdict is Anomaly's.  To suspend alerts under *)
(* a key of its own once SenderControlService has blocked the sender.      *)
Flag(c) ==
  /\ At(c, "flag")
  /\ \E key \in Key : call' = [call EXCEPT ![c].step = "claim", ![c].key = key]
  /\ judged' = [judged EXCEPT !.flagged = @ \cup {call[c].reads}]
  /\ UNCHANGED <<clock, store, once, calls, faults, outcomes, alerts>>

(* Mutants: the once-key is set in milliseconds; an error counts as "not   *)
(* the first".                                                             *)
ClaimMillis(c) ==
  /\ At(c, "claim")
  /\ LET key == call[c].key IN
     IF once[key] # 0 THEN Done(c) /\ UNCHANGED <<once, alerts>>
     ELSE /\ once' = [once EXCEPT ![key] = clock + 1]
          /\ alerts' = [alerts EXCEPT !.granted[key] = clock]
          /\ call' = [call EXCEPT ![c].step = "send"]
  /\ UNCHANGED <<clock, store, calls, faults, outcomes, judged>>
ClaimRefused(c) ==
  /\ At(c, "claim")
  /\ faults < MaxFaults /\ faults' = faults + 1
  /\ Done(c)
  /\ UNCHANGED <<clock, store, once, calls, outcomes, judged, alerts>>

(* alert(): SET NX EX of the once-key, and nothing more if it exists: if   *)
(* another caller has set it, or this one, before its reply was lost.      *)
Claim(c) ==
  /\ At(c, "claim")
  /\ LET key == call[c].key IN
     IF once[key] # 0 THEN Done(c) /\ UNCHANGED <<once, alerts>>
     ELSE /\ once' = [once EXCEPT ![key] = clock + Interval]
          /\ alerts' = [alerts EXCEPT !.granted[key] = clock]
          /\ call' = [call EXCEPT ![c].step = "send"]
  /\ UNCHANGED <<clock, store, calls, faults, outcomes, judged>>

(* The SET runs, but its reply is lost: it is sent again, and this caller  *)
(* no longer knows that the alert was its own.                             *)
ClaimLost(c) ==
  /\ At(c, "claim")
  /\ faults < MaxFaults /\ faults' = faults + 1
  /\ LET key == call[c].key IN
     IF once[key] # 0 THEN UNCHANGED <<once, alerts>>
     ELSE /\ once' = [once EXCEPT ![key] = clock + Interval]
          /\ alerts' = [alerts EXCEPT !.lost[key] = clock]
  /\ UNCHANGED <<clock, store, call, calls, outcomes, judged>>

(* With Redis failing, the alert goes out, whether or not a SET has run.   *)
ClaimFails(c) ==
  /\ At(c, "claim")
  /\ faults < MaxFaults /\ faults' = faults + 1
  /\ call' = [call EXCEPT ![c].step = "send"]
  /\ UNCHANGED <<clock, store, once, calls, outcomes, judged, alerts>>

(* Both channels are tried and have answered, failed or timed out.         *)
Send(c) ==
  /\ At(c, "send")
  /\ alerts' = [alerts EXCEPT !.tried[call[c].key] = clock]
  /\ Done(c)
  /\ UNCHANGED <<clock, store, once, calls, faults, outcomes, judged>>

(* The call has counted a bad outcome and has not judged it.               *)
Unjudged(c) ==
  \/ At(c, "recount") /\ call[c].kind \in Bad
  \/ At(c, "rates") \/ At(c, "flag")

LeftUnjudged(c) ==
  judged' = [judged EXCEPT !.unread = IF Unjudged(c) THEN @ \cup {call[c].bucket} ELSE @]

(* A Redis command before the alert fails, its retries used up: record()   *)
(* throws and is caught.                                                   *)
RedisFails(c) ==
  /\ Counting(c) \/ At(c, "rates") \/ At(c, "flag")
  /\ faults < MaxFaults /\ faults' = faults + 1
  /\ outcomes' = IF Counting(c) /\ call[c].kind # "sent"
                   THEN [outcomes EXCEPT !.failed = @ + 1] ELSE outcomes
  /\ LeftUnjudged(c)
  /\ Caught(c)
  /\ UNCHANGED <<clock, store, once, calls, alerts>>

(* The replica dies, and an alert it was about to send with it.            *)
Dies(c) ==
  /\ call[c] # Idle
  /\ faults < MaxFaults /\ faults' = faults + 1
  /\ call' = [call EXCEPT ![c] = Idle]
  /\ outcomes' = [outcomes EXCEPT !.died = @ + 1]
  /\ LeftUnjudged(c)
  /\ alerts' = IF At(c, "send") THEN [alerts EXCEPT !.lost[call[c].key] = clock] ELSE alerts
  /\ UNCHANGED <<clock, store, once, calls>>

(* A tick passes; Redis drops what has expired.                            *)
Tick ==
  /\ clock < Horizon
  /\ \A c \in Call : Counting(c) \/ At(c, "rates") => clock < call[c].since + MaxLag
  /\ clock' = clock + 1
  /\ LET gone(end) == end # 0 /\ end <= clock + 1 IN
     /\ counter' = [k \in Kind |-> [b \in BucketStart |->
                      IF gone(counterEnd[k][b]) THEN 0 ELSE counter[k][b]]]
     /\ counterEnd' = [k \in Kind |-> [b \in BucketStart |->
                         IF gone(counterEnd[k][b]) THEN 0 ELSE counterEnd[k][b]]]
     /\ once' = [k \in Key |-> IF gone(once[k]) THEN 0 ELSE once[k]]
  /\ UNCHANGED <<call, calls, faults, added, outcomes, judged, sentAtBad, alerts>>

Next ==
  \/ \E c \in Call :
       \/ \E skew \in Skews :
            \/ \E rcpt \in Rcpts : Accept(c, rcpt, skew)
            \/ \E batch \in Batches : Ingest(c, batch, skew)
       \/ Count(c) \/ CountLost(c) \/ Judge(c) \/ Flag(c)
       \/ Claim(c) \/ ClaimLost(c) \/ ClaimFails(c) \/ Send(c)
       \/ RedisFails(c) \/ Dies(c)
  \/ Tick

Spec == Init /\ [][Next]_vars

-----------------------------------------------------------------------------
(* fbIncr() and fbRates(): whatever the clocks of the replicas say, no     *)
(* counter is dropped while its bucket may still be counted in or read.    *)
NothingForgotten ==
  \A k \in Kind, b \in BucketStart :
    clock < BucketEnd(b) + MaxLag => counter[k][b] = added[k][b]

CountedReports == [kb \in Outcome \X BucketStart |-> added[kb[1]][kb[2]]]

(* ingest(): when no batch is being worked on and no replica has died,     *)
(* each report that names a sender has been counted once; a command that   *)
(* failed takes away one, whatever is left of its batch, and a lost reply  *)
(* adds one.                                                               *)
EachReportCounted ==
  (\A c \in Call : call[c] = Idle) /\ outcomes.died = 0 =>
     SumFunction(CountedReports) = outcomes.named - outcomes.failed + outcomes.unanswered

(* record(): a sender that is too bad is noticed.  If there was volume     *)
(* enough when the last bad outcome of a bucket was counted, and its share *)
(* is at the threshold even of all that was sent in the bucket, then one   *)
(* of the calls has raised the flag, however they interleaved.  Left out   *)
(* are buckets of which a bad outcome was counted but not judged: its call *)
(* failed, died, or read the counters after the bucket's end.              *)
NoticesBadSenders ==
  \A b \in BucketStart :
    /\ added["bounce"][b] + added["spam"][b] > 0
    /\ sentAtBad[b] >= MinSample
    /\ 100 * (added["bounce"][b] + added["spam"][b]) >= ThresholdPct * Max({1, added["sent"][b]})
    /\ b \notin judged.unread
    /\ \A c \in Call : Unjudged(c) => call[c].bucket # b
    => b \in judged.flagged

(* alert(): while Redis answers, an alert is granted to one caller per     *)
(* interval and key, of all replicas.                                      *)
AlertsSpaced ==
  [][\A k \in Key : alerts'.granted[k] # alerts.granted[k] =>
       alerts.granted[k] = -1 \/ clock - alerts.granted[k] >= Interval]_vars

(* alert(): a call that ends its alert unsent has somebody else's to rely  *)
(* on: one of the same key has been tried within the interval or is about  *)
(* to be.  What can silence an alert that nobody sends is, for one         *)
(* interval, a SET whose reply was lost, or the death of the replica that  *)
(* was to send; never a failing Redis, nor anything before the interval.   *)
NobodySilenced ==
  [][\A c \in Call :
       At(c, "claim") /\ (call'[c] = Idle \/ call'[c].step \notin {"claim", "send"}) =>
         LET key == call[c].key
             Recent(event) == alerts[event][key] # -1 /\ clock - alerts[event][key] < Interval
         IN
         \/ Recent("tried") \/ Recent("lost")
         \/ \E d \in Call : At(d, "send") /\ call[d].key = key
         \/ outcomes'.died # outcomes.died]_vars
=============================================================================
