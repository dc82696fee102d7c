---------------------------- MODULE AnomalyProofs ----------------------------
(***************************************************************************)
(* Proofs about Anomaly, for all thresholds, windows, delays and numbers   *)
(* of calls.                                                               *)
(***************************************************************************)
EXTENDS Anomaly, FiniteSetTheorems, TLAPS

(* Math.round of a share of 60 is a natural number.                        *)
LEMMA DivNat == ASSUME NEW a \in Nat, NEW b \in Nat \ {0} PROVE a \div b \in Nat
OBVIOUS

LEMMA ScoreType == ASSUME NEW reasons \in SUBSET Reason, NEW count \in Nat
                   PROVE  Score(reasons, count) \in 0..100
<1>1. SumOfSeverities(reasons) \in Nat
  BY DEF SumOfSeverities, Severity
<1>2. 60 * count + FlagsToSuspend \in Nat /\ 2 * FlagsToSuspend \in Nat \ {0}
  BY AnomalyAssumption
<1>3. (60 * count + FlagsToSuspend) \div (2 * FlagsToSuspend) \in Nat
  BY <1>2, DivNat
<1> DEFINE n == SumOfSeverities(reasons) + (60 * count + FlagsToSuspend) \div (2 * FlagsToSuspend)
<1>4. n \in Nat
  BY <1>1, <1>3
<1>5. Capped(n) \in 0..100
  <2> HIDE DEF n
  <2> QED BY <1>4 DEF Capped
<1> QED BY <1>5 DEF Score

(* A counter per minute, incremented.                                      *)
LEMMA AddTyped == ASSUME NEW S, NEW f \in [S -> Nat], NEW m, NEW n \in Nat
                  PROVE  [f EXCEPT ![m] = f[m] + n] \in [S -> Nat]
<1> DEFINE g == [f EXCEPT ![m] = f[m] + n]
<1>1. ASSUME NEW x \in S PROVE g[x] \in Nat
  OBVIOUS
<1> QED BY <1>1

LEMMA RcptType == ASSUME NEW me \in InFlight PROVE me.rcpt \in Nat
<1>1. \A n \in Rcpts : n \in Nat
  BY AnomalyAssumption
<1>2. me.rcpt \in Rcpts \/ me.rcpt = 0
  BY DEF InFlight
<1>3. CASE me.rcpt \in Rcpts
  BY <1>1, <1>3
<1>4. CASE me.rcpt = 0
  BY <1>4
<1> QED BY <1>2, <1>3, <1>4

-----------------------------------------------------------------------------
LEMMA InitTyped == Init => TypeOK
<1> SUFFICES ASSUME Init PROVE TypeOK
  OBVIOUS
<1>1. clock \in Time /\ calls \in 0..MaxCalls /\ risk \in 0..100 /\ raised \in Seq(Time)
      /\ faults \in 0..MaxFaults
  BY AnomalyAssumption DEF Init, Time
<1>2. /\ rcptMin \in [MinuteStart -> Nat] /\ rcptEnd \in [MinuteStart -> Nat]
      /\ msgMin \in [MinuteStart -> Nat] /\ msgEnd \in [MinuteStart -> Nat]
      /\ quiet \in [MinuteStart -> Nat]
  BY DEF Init
<1>3. call \in [Call -> InFlight \cup {Idle}] /\ blocked \in BOOLEAN
  BY DEF Init
<1> QED BY <1>1, <1>2, <1>3 DEF Init, TypeOK

(* What the increments of a message and of the flag counter leave.         *)
LEMMA IncrementTyped ==
  ASSUME TypeOK, NEW c \in Call, call[c] \in InFlight, NEW ran, Increment(c, ran)
  PROVE  /\ rcptMin' \in [MinuteStart -> Nat] /\ rcptEnd' \in [MinuteStart -> Nat]
         /\ msgMin' \in [MinuteStart -> Nat] /\ msgEnd' \in [MinuteStart -> Nat]
<1> DEFINE m == MinuteOf(call[c].at)
           end == clock + CounterTtl
<1>1. call[c].rcpt \in Nat /\ end \in Nat
  BY RcptType, AnomalyAssumption DEF TypeOK, Time
<1>2. /\ rcptMin' = rcptMin \/ rcptMin' = [rcptMin EXCEPT ![m] = rcptMin[m] + call[c].rcpt]
      /\ rcptEnd' = rcptEnd \/ rcptEnd' = [rcptEnd EXCEPT ![m] = end]
      /\ msgMin' = msgMin \/ msgMin' = [msgMin EXCEPT ![m] = msgMin[m] + 1]
      /\ msgEnd' = msgEnd \/ msgEnd' = [msgEnd EXCEPT ![m] = end]
  BY DEF Increment
<1> HIDE DEF m, end
<1>3. /\ [rcptMin EXCEPT ![m] = rcptMin[m] + call[c].rcpt] \in [MinuteStart -> Nat]
      /\ [msgMin EXCEPT ![m] = msgMin[m] + 1] \in [MinuteStart -> Nat]
  BY <1>1, AddTyped DEF TypeOK
<1>4. /\ [rcptEnd EXCEPT ![m] = end] \in [MinuteStart -> Nat]
      /\ [msgEnd EXCEPT ![m] = end] \in [MinuteStart -> Nat]
  BY <1>1 DEF TypeOK
<1> QED BY <1>2, <1>3, <1>4 DEF TypeOK

LEMMA RaiseTyped ==
  ASSUME TypeOK, Raise
  PROVE  /\ flags' \in Nat /\ flagsEnd' \in Nat /\ raised' \in Seq(Time)
         /\ life' \in Nat /\ passed' \in Nat /\ failedOpen' \in Nat
<1>1. clock + WindowTicks \in Nat
  BY AnomalyAssumption DEF TypeOK, Time
<1>2. raised' \in Seq(Time)
  BY DEF Raise, TypeOK
<1> QED BY <1>1, <1>2 DEF Raise, TypeOK, through

LEMMA FaultTyped == ASSUME faults \in 0..MaxFaults, Fault PROVE faults' \in 0..MaxFaults
BY AnomalyAssumption DEF Fault

LEMMA NextTyped == TypeOK /\ [Next]_vars => TypeOK'
<1> SUFFICES ASSUME TypeOK, [Next]_vars PROVE TypeOK'
  OBVIOUS
<1> USE DEF TypeOK
<1>1. ASSUME NEW c \in Call, NEW rcpt \in Rcpts, Evaluate(c, rcpt)
      PROVE  TypeOK'
  <2> DEFINE me == [kind |-> "message", rcpt |-> rcpt, at |-> clock, step |-> "count",
                    reasons |-> {}, count |-> 0, life |-> 0]
  <2>1. me \in InFlight
    BY DEF InFlight
  <2>2. call' \in [Call -> InFlight \cup {Idle}]
    BY <1>1, <2>1 DEF Evaluate
  <2>3. calls' \in 0..MaxCalls
    BY <1>1, AnomalyAssumption DEF Evaluate
  <2> QED BY <1>1, <2>2, <2>3 DEF Evaluate, counters, flagKey, history, through
<1>2. ASSUME NEW c \in Call, RaiseFlag(c)
      PROVE  TypeOK'
  <2> DEFINE me == [kind |-> "bounce", rcpt |-> 0, at |-> clock, step |-> "flag",
                    reasons |-> {"bounce"}, count |-> 0, life |-> 0]
  <2>1. me \in InFlight
    BY DEF InFlight, Reason
  <2>2. call' \in [Call -> InFlight \cup {Idle}]
    BY <1>2, <2>1 DEF RaiseFlag
  <2>3. calls' \in 0..MaxCalls
    BY <1>2, AnomalyAssumption DEF RaiseFlag
  <2> QED BY <1>2, <2>2, <2>3 DEF RaiseFlag, counters, flagKey, history, through
<1>3. ASSUME NEW c \in Call, Count(c)
      PROVE  TypeOK'
  <2> DEFINE m == MinuteOf(call[c].at)
             found == Reasons(m, call[c].rcpt, rcptMin'[m], msgMin'[m])
             me == [call[c] EXCEPT !.step = "flag", !.reasons = found]
  <2>1. call[c] \in InFlight
    BY <1>3 DEF Count, At
  <2>2. found \in SUBSET Reason
    BY DEF Reasons, Reason
  <2>3. me \in InFlight
    <3> HIDE DEF found
    <3> QED BY <2>1, <2>2 DEF InFlight
  <2>4. call' = [call EXCEPT ![c] = me]
    <3> HIDE DEF found
    <3>1. call' = [call EXCEPT ![c].step = "flag", ![c].reasons = found]
      BY <1>3, Zenon DEF Count, found
    <3> QED BY <3>1
  <2>5. call' \in [Call -> InFlight \cup {Idle}]
    <3> HIDE DEF me
    <3> QED BY <2>3, <2>4
  <2>6. call[c].rcpt \in Nat
    BY <2>1, RcptType
  <2>7. /\ rcptMin' \in [MinuteStart -> Nat] /\ rcptEnd' \in [MinuteStart -> Nat]
        /\ msgMin' \in [MinuteStart -> Nat] /\ msgEnd' \in [MinuteStart -> Nat]
    BY <1>3, <2>1, IncrementTyped DEF Count
  <2>8. quiet' \in [MinuteStart -> Nat]
    <3> HIDE DEF m
    <3>1. quiet' = quiet \/ quiet' = [quiet EXCEPT ![m] = quiet[m] + call[c].rcpt]
      BY <1>3 DEF Count, m
    <3>2. [quiet EXCEPT ![m] = quiet[m] + call[c].rcpt] \in [MinuteStart -> Nat]
      BY <2>6, AddTyped
    <3> QED BY <3>1, <3>2
  <2> QED BY <1>3, <2>5, <2>7, <2>8 DEF Count, flagKey, through
<1>4. ASSUME NEW c \in Call, NEW ran, CountLost(c, ran)
      PROVE  TypeOK'
  <2>1. call[c] \in InFlight
    BY <1>4 DEF CountLost, At
  <2>2. /\ rcptMin' \in [MinuteStart -> Nat] /\ rcptEnd' \in [MinuteStart -> Nat]
        /\ msgMin' \in [MinuteStart -> Nat] /\ msgEnd' \in [MinuteStart -> Nat]
    BY <1>4, <2>1, IncrementTyped DEF CountLost
  <2>3. faults' \in 0..MaxFaults
    BY <1>4, FaultTyped DEF CountLost
  <2> QED BY <1>4, <2>2, <2>3 DEF CountLost, flagKey, history, through
<1>5. ASSUME NEW c \in Call, Flag(c)
      PROVE  TypeOK'
  <2>1. call[c] \in InFlight
    BY <1>5 DEF Flag, At
  <2>2. /\ flags' \in Nat /\ flagsEnd' \in Nat /\ raised' \in Seq(Time)
        /\ life' \in Nat /\ passed' \in Nat /\ failedOpen' \in Nat
    <3>1. CASE call[c].reasons = {}
      BY <1>5, <3>1 DEF Flag, flagKey, through
    <3>2. CASE call[c].reasons # {}
      BY <1>5, <3>2, RaiseTyped DEF Flag
    <3> QED BY <3>1, <3>2
  <2>3. call' = [call EXCEPT ![c] = [call[c] EXCEPT !.step = "risk", !.count = flags', !.life = life']]
    BY <1>5 DEF Flag
  <2>4. [call[c] EXCEPT !.step = "risk", !.count = flags', !.life = life'] \in InFlight
    BY <2>1, <2>2 DEF InFlight
  <2>5. call' \in [Call -> InFlight \cup {Idle}]
    BY <2>3, <2>4
  <2> QED BY <1>5, <2>2, <2>5 DEF Flag, counters
<1>6. ASSUME NEW c \in Call, FlagLost(c)
      PROVE  TypeOK'
  <2>1. /\ flags' \in Nat /\ flagsEnd' \in Nat /\ raised' \in Seq(Time)
        /\ life' \in Nat /\ passed' \in Nat /\ failedOpen' \in Nat
    BY <1>6, RaiseTyped DEF FlagLost
  <2>2. faults' \in 0..MaxFaults
    BY <1>6, FaultTyped DEF FlagLost
  <2> QED BY <1>6, <2>1, <2>2 DEF FlagLost, counters
<1>7. ASSUME NEW c \in Call, FailOpen(c)
      PROVE  TypeOK'
  <2>1. passed' \in Nat /\ failedOpen' \in Nat
    BY <1>7 DEF FailOpen, through
  <2>2. call' \in [Call -> InFlight \cup {Idle}]
    BY <1>7 DEF FailOpen, Return
  <2> QED BY <1>7, <2>1, <2>2 DEF FailOpen, counters, flagKey
<1>8. ASSUME NEW c \in Call, NEW stored \in BOOLEAN, Verdict(c, stored)
      PROVE  TypeOK'
  <2>1. call[c] \in InFlight
    BY <1>8 DEF Verdict, At
  <2>2. /\ call[c].rcpt \in Nat /\ call[c].count \in Nat /\ call[c].reasons \in SUBSET Reason
        /\ [call[c] EXCEPT !.step = "suspend"] \in InFlight
    BY <2>1, RcptType DEF InFlight
  <2>3. risk' \in 0..100
    BY <1>8, <2>2, ScoreType DEF Verdict
  <2>4. call' \in [Call -> InFlight \cup {Idle}]
    BY <1>8, <2>2 DEF Verdict, Return
  <2>5. passed' \in Nat
    BY <1>8 DEF Verdict
  <2>6. faults' \in 0..MaxFaults
    BY <1>8, FaultTyped DEF Verdict
  <2> QED BY <1>8, <2>3, <2>4, <2>5, <2>6 DEF Verdict, counters, flagKey
<1>9. ASSUME NEW c \in Call, NEW added \in BOOLEAN, Suspend(c, added)
      PROVE  TypeOK'
  <2>1. faults' \in 0..MaxFaults /\ blocked' \in BOOLEAN
    BY <1>9, FaultTyped DEF Suspend
  <2>2. call' \in [Call -> InFlight \cup {Idle}]
    BY <1>9 DEF Suspend, Return
  <2> QED BY <1>9, <2>1, <2>2 DEF Suspend, counters, flagKey, history, through
<1>10. CASE Unsuspend
  BY <1>10 DEF Unsuspend, counters, flagKey, history, through
<1>11. ASSUME NEW m \in MinuteStart, LoseRcpt(m) \/ LoseMsg(m)
       PROVE  TypeOK'
  <2>1. faults' \in 0..MaxFaults
    BY <1>11, FaultTyped DEF LoseRcpt, LoseMsg
  <2>2. /\ rcptMin' \in [MinuteStart -> Nat] /\ rcptEnd' \in [MinuteStart -> Nat]
        /\ msgMin' \in [MinuteStart -> Nat] /\ msgEnd' \in [MinuteStart -> Nat]
        /\ quiet' \in [MinuteStart -> Nat]
    <3>1. CASE LoseRcpt(m)
      BY <3>1 DEF LoseRcpt
    <3>2. CASE LoseMsg(m)
      BY <3>2 DEF LoseMsg, history
    <3> QED BY <1>11, <3>1, <3>2
  <2> QED BY <1>11, <2>1, <2>2 DEF LoseRcpt, LoseMsg, flagKey, history, through
<1>12. CASE LoseFlags
  <2>1. faults' \in 0..MaxFaults
    BY <1>12, FaultTyped DEF LoseFlags
  <2> QED BY <1>12, <2>1 DEF LoseFlags, counters, history, through
<1>13. CASE Tick
  <2>1. clock' \in Time
    BY <1>13, AnomalyAssumption DEF Tick, Time
  <2>2. /\ rcptMin' \in [MinuteStart -> Nat] /\ rcptEnd' \in [MinuteStart -> Nat]
        /\ msgMin' \in [MinuteStart -> Nat] /\ msgEnd' \in [MinuteStart -> Nat]
    BY <1>13 DEF Tick
  <2>3. flags' \in Nat /\ flagsEnd' \in Nat
    BY <1>13 DEF Tick
  <2> QED BY <1>13, <2>1, <2>2, <2>3 DEF Tick, history, through
<1>14. CASE UNCHANGED vars
  BY <1>14 DEF vars, counters, flagKey, history, through
<1> QED BY <1>1, <1>2, <1>3, <1>4, <1>5, <1>6, <1>7, <1>8, <1>9, <1>10, <1>11, <1>12, <1>13, <1>14
        DEF Next

(* The engine's counters, flags, score and calls keep their types; the     *)
(* score stays within 0..100 whatever the flags and thresholds.            *)
THEOREM TypeCorrect == Spec => []TypeOK
BY InitTyped, NextTyped, PTL DEF Spec

-----------------------------------------------------------------------------
(* The window of the flag counter: flags of it are the last ones raised,   *)
(* none of them more than a window before it expires.                      *)
RecentInv ==
  /\ flags <= Len(raised)
  /\ flags # 0 => clock < flagsEnd /\ flagsEnd <= clock + WindowTicks
  /\ \A i \in DOMAIN raised : i > Len(raised) - flags => raised[i] + WindowTicks >= flagsEnd

LEMMA InitRecent == Init => RecentInv
BY DEF Init, RecentInv

LEMMA NextRecent == TypeOK /\ RecentInv /\ [Next]_vars => RecentInv'
<1> SUFFICES ASSUME TypeOK, RecentInv, [Next]_vars PROVE RecentInv'
  OBVIOUS
<1> USE DEF TypeOK, RecentInv
<1>t. WindowTicks \in Nat \ {0} /\ clock \in Nat
  BY AnomalyAssumption DEF Time
<1>1. ASSUME clock' = clock, flags' = flags, flagsEnd' = flagsEnd, raised' = raised
      PROVE  RecentInv'
  BY <1>1
<1>2. ASSUME Raise, clock' = clock
      PROVE  RecentInv'
  <2>1. /\ flags' = flags + 1
        /\ flagsEnd' = IF flags = 0 THEN clock + WindowTicks ELSE flagsEnd
        /\ raised' = Append(raised, clock)
    BY <1>2 DEF Raise
  <2>2. /\ Len(raised') = Len(raised) + 1 /\ DOMAIN raised' = 1..(Len(raised) + 1)
        /\ raised'[Len(raised) + 1] = clock
        /\ \A i \in DOMAIN raised : i \in 1..Len(raised) /\ raised'[i] = raised[i]
    BY <2>1
  <2>3. flagsEnd' <= clock + WindowTicks /\ clock < flagsEnd'
    BY <2>1, <1>t
  <2>4. ASSUME NEW i \in DOMAIN raised', i > Len(raised') - flags'
        PROVE  raised'[i] + WindowTicks >= flagsEnd'
    <3>1. CASE i = Len(raised) + 1
      BY <3>1, <2>2, <2>3, <1>t
    <3>2. CASE i # Len(raised) + 1
      <4>1. i \in DOMAIN raised /\ i > Len(raised) - flags
        BY <2>1, <2>2, <2>4, <3>2
      <4>2. flags # 0
        BY <4>1, <2>2
      <4> QED BY <4>1, <4>2, <2>1, <2>2
    <3> QED BY <3>1, <3>2
  <2> QED BY <1>2, <2>1, <2>2, <2>3, <2>4
<1>3. ASSUME NEW c \in Call, Flag(c)
      PROVE  RecentInv'
  <2>1. CASE call[c].reasons = {}
    BY <1>3, <2>1, <1>1 DEF Flag, flagKey
  <2>2. CASE call[c].reasons # {}
    BY <1>3, <2>2, <1>2 DEF Flag
  <2> QED BY <2>1, <2>2
<1>4. ASSUME NEW c \in Call, FlagLost(c)
      PROVE  RecentInv'
  BY <1>4, <1>2 DEF FlagLost
<1>5. CASE LoseFlags
  <2>1. flags' = 0 /\ raised' = raised
    BY <1>5 DEF LoseFlags, history
  <2> QED BY <2>1
<1>6. CASE Tick
  <2>1. CASE flagsEnd # 0 /\ flagsEnd <= clock + 1
    <3>1. flags' = 0 /\ raised' = raised
      BY <1>6, <2>1 DEF Tick, history
    <3> QED BY <3>1
  <2>2. CASE ~(flagsEnd # 0 /\ flagsEnd <= clock + 1)
    <3>1. flags' = flags /\ raised' = raised /\ flagsEnd' = flagsEnd /\ clock' = clock + 1
      BY <1>6, <2>2 DEF Tick, history
    <3> QED BY <3>1, <2>2, <1>t
  <2> QED BY <2>1, <2>2
<1>7. CASE UNCHANGED vars
  BY <1>7, <1>1 DEF vars, flagKey, history
<1>8. ASSUME NEW c \in Call, NEW rcpt \in Rcpts, Evaluate(c, rcpt) PROVE RecentInv'
  BY <1>8, <1>1 DEF Evaluate, flagKey, history
<1>9. ASSUME NEW c \in Call, NEW ran, NEW done,
             \/ RaiseFlag(c) \/ Count(c) \/ CountLost(c, ran) \/ FailOpen(c)
             \/ Verdict(c, done) \/ Suspend(c, done)
      PROVE  RecentInv'
  BY <1>9, <1>1 DEF RaiseFlag, Count, CountLost, FailOpen, Verdict, Suspend, flagKey, history
<1>10. ASSUME NEW m, LoseRcpt(m) \/ LoseMsg(m) PROVE RecentInv'
  BY <1>10, <1>1 DEF LoseRcpt, LoseMsg, flagKey, history
<1>11. CASE Unsuspend
  BY <1>11, <1>1 DEF Unsuspend, flagKey, history
<1> QED BY <1>3, <1>4, <1>5, <1>6, <1>7, <1>8, <1>9, <1>10, <1>11 DEF Next

LEMMA RecentEnough == TypeOK /\ RecentInv => FlagsAreRecent
<1> SUFFICES ASSUME TypeOK, RecentInv PROVE FlagsAreRecent
  OBVIOUS
<1> DEFINE n == Len(raised)
           Recent == {i \in DOMAIN raised : clock - raised[i] < WindowTicks}
<1>1. n \in Nat /\ DOMAIN raised = 1..n /\ flags \in Nat /\ flags <= n
  BY DEF TypeOK, RecentInv
<1>2. (n - flags + 1)..n \subseteq Recent
  <2> SUFFICES ASSUME NEW i \in (n - flags + 1)..n
               PROVE  i \in DOMAIN raised /\ clock - raised[i] < WindowTicks
    OBVIOUS
  <2>1. i \in DOMAIN raised /\ i > n - flags /\ flags # 0
    BY <1>1
  <2>2. raised[i] \in Nat /\ clock \in Nat /\ flagsEnd \in Nat /\ WindowTicks \in Nat
    <3>1. raised[i] \in Time /\ clock \in Time
      BY <2>1 DEF TypeOK
    <3>2. flagsEnd \in Nat /\ WindowTicks \in Nat
      BY AnomalyAssumption DEF TypeOK
    <3> QED BY <3>1, <3>2 DEF Time
  <2> QED BY <2>1, <2>2 DEF RecentInv
<1>3. IsFiniteSet(Recent)
  <2>1. IsFiniteSet(1..n)
    BY <1>1, FS_Interval
  <2> QED BY <2>1, <1>1, FS_Subset
<1>4. Cardinality((n - flags + 1)..n) = flags
  BY <1>1, FS_Interval
<1>5. Cardinality((n - flags + 1)..n) <= Cardinality(Recent)
  BY <1>2, <1>3, FS_Subset
<1>6. Cardinality(Recent) \in Nat
  BY <1>3, FS_CardinalityType
<1> HIDE DEF Recent
<1>7. Cardinality(Recent) >= flags
  BY <1>1, <1>4, <1>5, <1>6
<1> QED BY <1>7 DEF FlagsAreRecent, Recent

(* A suspension is earned: the flags a call counts were all raised within  *)
(* the last window, because the counter keeps the TTL of its first flag.   *)
THEOREM SuspensionEarned == Spec => []FlagsAreRecent
BY InitTyped, NextTyped, InitRecent, NextRecent, RecentEnough, PTL DEF Spec

-----------------------------------------------------------------------------
(* Flagged messages that will get through when their calls go on: they     *)
(* hold a place below the threshold in the counter that is alive.          *)
PendingLow ==
  {c \in Call : /\ At(c, "risk") /\ call[c].kind = "message" /\ call[c].reasons # {}
                /\ call[c].life = life /\ call[c].count < FlagsToSuspend}

FlaggedInv ==
  /\ passed + Cardinality(PendingLow) < FlagsToSuspend + failedOpen
  /\ flags # 0 => passed + Cardinality(PendingLow) <= flags + failedOpen
  /\ \A c \in Call : call[c] # Idle => call[c].life <= life

LEMMA PendingFinite == IsFiniteSet(PendingLow) /\ Cardinality(PendingLow) \in Nat
BY AnomalyAssumption, FS_Subset, FS_CardinalityType DEF PendingLow

LEMMA PendingFinite2 == IsFiniteSet(PendingLow') /\ Cardinality(PendingLow') \in Nat
<1>1. PendingLow' \subseteq Call
  BY DEF PendingLow
<1> QED BY <1>1, AnomalyAssumption, FS_Subset, FS_CardinalityType

(* A step that adds no pending message, raises no flag and lets at most    *)
(* one message through, by failing.                                        *)
LEMMA FlaggedKept ==
  ASSUME TypeOK, FlaggedInv, PendingLow' \subseteq PendingLow, life' = life,
         \/ passed' = passed /\ failedOpen' = failedOpen
         \/ passed' = passed + 1 /\ failedOpen' = failedOpen + 1,
         flags' \in {0, flags},
         \A c \in Call : call'[c] # Idle => call'[c].life = 0 \/ (call[c] # Idle /\ call'[c].life = call[c].life)
  PROVE  FlaggedInv'
<1>1. Cardinality(PendingLow') <= Cardinality(PendingLow)
  BY PendingFinite, FS_Subset
<1>2. /\ passed \in Nat /\ failedOpen \in Nat /\ flags \in Nat /\ life \in Nat
      /\ FlagsToSuspend \in Nat
  BY AnomalyAssumption DEF TypeOK
<1>3. passed' + Cardinality(PendingLow') < FlagsToSuspend + failedOpen'
  BY <1>1, <1>2, PendingFinite, PendingFinite2 DEF FlaggedInv
<1>4. flags' # 0 => passed' + Cardinality(PendingLow') <= flags' + failedOpen'
  BY <1>1, <1>2, PendingFinite, PendingFinite2 DEF FlaggedInv
<1>5. \A c \in Call : call'[c] # Idle => call'[c].life <= life'
  BY <1>2 DEF FlaggedInv
<1> QED BY <1>3, <1>4, <1>5 DEF FlaggedInv

LEMMA InitFlagged == Init => FlaggedInv
<1> SUFFICES ASSUME Init PROVE FlaggedInv
  OBVIOUS
<1>1. PendingLow = {}
  BY DEF Init, PendingLow, At
<1> QED BY <1>1, FS_EmptySet, AnomalyAssumption DEF Init, FlaggedInv

LEMMA NextFlagged == Mode = "enforce" /\ TypeOK /\ FlaggedInv /\ [Next]_vars => FlaggedInv'
<1> SUFFICES ASSUME Mode = "enforce", TypeOK, FlaggedInv, [Next]_vars PROVE FlaggedInv'
  OBVIOUS
<1>t. /\ passed \in Nat /\ failedOpen \in Nat /\ flags \in Nat /\ life \in Nat /\ FlagsToSuspend \in Nat \ {0}
      /\ call \in [Call -> InFlight \cup {Idle}]
  BY AnomalyAssumption DEF TypeOK
<1>1. ASSUME NEW c \in Call, NEW rcpt \in Rcpts, Evaluate(c, rcpt) PROVE FlaggedInv'
  <2> DEFINE me == [kind |-> "message", rcpt |-> rcpt, at |-> clock, step |-> "count",
                    reasons |-> {}, count |-> 0, life |-> 0]
  <2>1. /\ call' = [call EXCEPT ![c] = me]
        /\ flags' = flags /\ passed' = passed /\ failedOpen' = failedOpen /\ life' = life
    BY <1>1 DEF Evaluate, flagKey, history, through
  <2>2. PendingLow' \subseteq PendingLow
    BY <2>1, <1>t DEF PendingLow, At
  <2> QED BY <2>1, <2>2, <1>t, FlaggedKept
<1>2. ASSUME NEW c \in Call, RaiseFlag(c) PROVE FlaggedInv'
  <2> DEFINE me == [kind |-> "bounce", rcpt |-> 0, at |-> clock, step |-> "flag",
                    reasons |-> {"bounce"}, count |-> 0, life |-> 0]
  <2>1. /\ call' = [call EXCEPT ![c] = me]
        /\ flags' = flags /\ passed' = passed /\ failedOpen' = failedOpen /\ life' = life
    BY <1>2 DEF RaiseFlag, flagKey, history, through
  <2>2. PendingLow' \subseteq PendingLow
    BY <2>1, <1>t DEF PendingLow, At
  <2> QED BY <2>1, <2>2, <1>t, FlaggedKept
<1>3. ASSUME NEW c \in Call, Count(c) PROVE FlaggedInv'
  <2>1. PICK found : call' = [call EXCEPT ![c] = [call[c] EXCEPT !.step = "flag", !.reasons = found]]
    BY <1>3 DEF Count
  <2>2. /\ flags' = flags /\ passed' = passed /\ failedOpen' = failedOpen /\ life' = life
        /\ call[c] \in InFlight /\ call[c] # Idle
    BY <1>3, <1>t DEF Count, flagKey, through, At
  <2> DEFINE me == [call[c] EXCEPT !.step = "flag", !.reasons = found]
  <2>3. me.step = "flag" /\ me.life = call[c].life
    BY <2>2 DEF InFlight
  <2> HIDE DEF me
  <2>4. call' = [call EXCEPT ![c] = me]
    BY <2>1 DEF me
  <2>5. PendingLow' \subseteq PendingLow
    BY <2>2, <2>3, <2>4, <1>t DEF PendingLow, At
  <2> QED BY <2>2, <2>3, <2>4, <2>5, <1>t, FlaggedKept
<1>4. ASSUME NEW c \in Call, Flag(c) PROVE FlaggedInv'
  <2> DEFINE me == [call[c] EXCEPT !.step = "risk", !.count = flags', !.life = life']
  <2>1. call' = [call EXCEPT ![c] = me] /\ call[c] # Idle /\ call[c].step = "flag"
    BY <1>4 DEF Flag, At
  <2>2. /\ me.step = "risk" /\ me.count = flags' /\ me.life = life'
        /\ me.reasons = call[c].reasons
    BY <2>1, <1>t DEF InFlight
  <2> HIDE DEF me
  <2>3. c \notin PendingLow
    BY <2>1 DEF PendingLow, At
  <2>4. CASE call[c].reasons = {}
    <3>1. passed' = passed /\ failedOpen' = failedOpen /\ life' = life /\ flags' = flags
      BY <1>4, <2>4 DEF Flag, flagKey, through
    <3>2. PendingLow' \subseteq PendingLow
      BY <2>1, <2>2, <2>4, <3>1, <1>t DEF PendingLow, At
    <3>3. Cardinality(PendingLow') <= Cardinality(PendingLow)
      BY <3>2, PendingFinite, FS_Subset
    <3>4. \A d \in Call : call'[d] # Idle => call'[d].life <= life'
      BY <2>1, <2>2, <3>1, <1>t DEF FlaggedInv
    <3> QED BY <3>1, <3>3, <3>4, <1>t, PendingFinite, PendingFinite2 DEF FlaggedInv
  <2>5. CASE call[c].reasons # {} /\ flags = 0
    <3>1. passed' = 0 /\ failedOpen' = 0 /\ life' = life + 1 /\ flags' = 1
      BY <1>4, <2>5 DEF Flag, Raise
    <3>2. PendingLow' \subseteq {c}
      <4> SUFFICES ASSUME NEW d \in PendingLow', d # c PROVE FALSE
        OBVIOUS
      <4>1. d \in Call /\ call'[d] = call[d] /\ call[d] # Idle /\ call[d].life = life + 1
        BY <2>1, <3>1, <1>t DEF PendingLow, At
      <4>2. call[d].life \in Nat
        BY <4>1, <1>t DEF InFlight
      <4> QED BY <4>1, <4>2, <1>t DEF FlaggedInv
    <3>3. Cardinality(PendingLow') <= 1 /\ (FlagsToSuspend = 1 => Cardinality(PendingLow') = 0)
      <4>1. Cardinality(PendingLow') <= 1
        <5>1. IsFiniteSet({c}) /\ Cardinality({c}) = 1
          BY FS_Singleton
        <5> QED BY <3>2, <5>1, FS_Subset
      <4>2. ASSUME FlagsToSuspend = 1 PROVE PendingLow' = {}
        BY <3>1, <3>2, <2>1, <2>2, <1>t, <4>2 DEF PendingLow
      <4> QED BY <4>1, <4>2, FS_EmptySet
    <3>4. \A d \in Call : call'[d] # Idle => call'[d].life <= life'
      <4> SUFFICES ASSUME NEW d \in Call, call'[d] # Idle PROVE call'[d].life <= life'
        OBVIOUS
      <4>1. CASE d = c
        BY <4>1, <2>1, <2>2, <3>1, <1>t
      <4>2. CASE d # c
        <5>1. call'[d] = call[d] /\ call[d].life \in Nat /\ call[d].life <= life
          BY <4>2, <2>1, <1>t DEF FlaggedInv, InFlight
        <5> QED BY <5>1, <3>1, <1>t
      <4> QED BY <4>1, <4>2
    <3>5. passed' + Cardinality(PendingLow') < FlagsToSuspend + failedOpen'
      BY <3>1, <3>3, <1>t, PendingFinite2
    <3>6. flags' # 0 => passed' + Cardinality(PendingLow') <= flags' + failedOpen'
      BY <3>1, <3>3, <1>t, PendingFinite2
    <3> QED BY <3>4, <3>5, <3>6 DEF FlaggedInv
  <2>6. CASE call[c].reasons # {} /\ flags # 0
    <3>1. passed' = passed /\ failedOpen' = failedOpen /\ life' = life /\ flags' = flags + 1
      BY <1>4, <2>6 DEF Flag, Raise, through
    <3>2. PendingLow' \subseteq PendingLow \cup {c}
      BY <2>1, <3>1, <1>t DEF PendingLow, At
    <3>3. IsFiniteSet(PendingLow \cup {c}) /\ Cardinality(PendingLow \cup {c}) = Cardinality(PendingLow) + 1
      BY <2>3, PendingFinite, FS_AddElement
    <3>4. Cardinality(PendingLow') <= Cardinality(PendingLow) + 1
      BY <3>2, <3>3, FS_Subset
    <3>5. ASSUME flags + 1 >= FlagsToSuspend PROVE Cardinality(PendingLow') <= Cardinality(PendingLow)
      <4>1. PendingLow' \subseteq PendingLow
        BY <2>1, <2>2, <3>1, <3>2, <3>5, <1>t DEF PendingLow
      <4> QED BY <4>1, PendingFinite, FS_Subset
    <3>6. \A d \in Call : call'[d] # Idle => call'[d].life <= life'
      BY <2>1, <2>2, <3>1, <1>t DEF FlaggedInv
    <3>7. passed' + Cardinality(PendingLow') < FlagsToSuspend + failedOpen'
      BY <2>6, <3>1, <3>4, <3>5, <1>t, PendingFinite, PendingFinite2 DEF FlaggedInv
    <3>8. passed' + Cardinality(PendingLow') <= flags' + failedOpen'
      BY <2>6, <3>1, <3>4, <1>t, PendingFinite, PendingFinite2 DEF FlaggedInv
    <3> QED BY <3>6, <3>7, <3>8 DEF FlaggedInv
  <2> QED BY <2>4, <2>5, <2>6
<1>5. ASSUME NEW c \in Call, NEW stored \in BOOLEAN, Verdict(c, stored) PROVE FlaggedInv'
  <2> DEFINE suspend == call[c].count >= FlagsToSuspend
             lets == ~suspend /\ call[c].kind = "message" /\ call[c].reasons # {} /\ call[c].life = life
             held == [call[c] EXCEPT !.step = "suspend"]
  <2>1. /\ call[c] # Idle /\ call[c].step = "risk" /\ call[c] \in InFlight
        /\ call' = [call EXCEPT ![c] = IF suspend THEN held ELSE Idle]
        /\ passed' = IF lets THEN passed + 1 ELSE passed
        /\ flags' = flags /\ life' = life /\ failedOpen' = failedOpen
    BY <1>5, <1>t DEF Verdict, Return, At, flagKey
  <2>2. held.step = "suspend" /\ held.life = call[c].life /\ call[c].count \in Nat
    BY <2>1 DEF InFlight
  <2> HIDE DEF held
  <2>3. PendingLow' \subseteq PendingLow \ {c}
    BY <2>1, <2>2, <1>t DEF PendingLow, At
  <2>4. \A d \in Call : call'[d] # Idle => call[d] # Idle /\ call'[d].life = call[d].life
    BY <2>1, <2>2, <1>t
  <2>5. CASE lets
    <3>1. c \in PendingLow
      BY <2>1, <2>2, <2>5, <1>t DEF PendingLow, At
    <3>2. Cardinality(PendingLow') <= Cardinality(PendingLow) - 1
      <4>1. /\ IsFiniteSet(PendingLow \ {c})
            /\ Cardinality(PendingLow \ {c}) = Cardinality(PendingLow) - 1
        BY <3>1, PendingFinite, FS_RemoveElement
      <4> QED BY <2>3, <4>1, FS_Subset
    <3>3. passed' = passed + 1
      BY <2>1, <2>5
    <3>4. /\ passed' + Cardinality(PendingLow') < FlagsToSuspend + failedOpen'
          /\ flags' # 0 => passed' + Cardinality(PendingLow') <= flags' + failedOpen'
      BY <2>1, <3>2, <3>3, <1>t, PendingFinite, PendingFinite2 DEF FlaggedInv
    <3> QED BY <3>4, <2>1, <2>4 DEF FlaggedInv
  <2>6. CASE ~lets
    BY <2>1, <2>3, <2>4, <2>6, <1>t, FlaggedKept
  <2> QED BY <2>5, <2>6
<1>6. ASSUME NEW c \in Call, NEW added \in BOOLEAN, Suspend(c, added) PROVE FlaggedInv'
  <2>1. /\ call' = [call EXCEPT ![c] = Idle] /\ flags' = flags /\ life' = life
        /\ passed' = passed /\ failedOpen' = failedOpen
    BY <1>6 DEF Suspend, Return, flagKey, history, through
  <2>2. PendingLow' \subseteq PendingLow
    BY <2>1, <1>t DEF PendingLow, At
  <2> QED BY <2>1, <2>2, <1>t, FlaggedKept
<1>7. ASSUME NEW c \in Call, FailOpen(c) PROVE FlaggedInv'
  <2>1. /\ call' = [call EXCEPT ![c] = Idle] /\ flags' = flags /\ life' = life
        /\ \/ passed' = passed /\ failedOpen' = failedOpen
           \/ passed' = passed + 1 /\ failedOpen' = failedOpen + 1
    BY <1>7 DEF FailOpen, Return, flagKey, through
  <2>2. PendingLow' \subseteq PendingLow
    BY <2>1, <1>t DEF PendingLow, At
  <2> QED BY <2>1, <2>2, <1>t, FlaggedKept
(* A flag that is counted and whose reply is lost takes a place, too.      *)
<1>8. ASSUME NEW c \in Call, FlagLost(c) PROVE FlaggedInv'
  <2>1. call' = call
    BY <1>8 DEF FlagLost
  <2>2. CASE flags = 0
    <3>1. passed' = 0 /\ failedOpen' = 0 /\ life' = life + 1 /\ flags' = 1
      BY <1>8, <2>2 DEF FlagLost, Raise
    <3>2. \A d \in Call : call[d] # Idle => call[d].life \in Nat /\ call[d].life <= life
      BY <1>t DEF FlaggedInv, InFlight
    <3>3. PendingLow' = {}
      BY <2>1, <3>1, <3>2, <1>t DEF PendingLow, At
    <3>4. Cardinality(PendingLow') = 0
      BY <3>3, FS_EmptySet
    <3>5. \A d \in Call : call'[d] # Idle => call'[d].life <= life'
      BY <2>1, <3>1, <3>2, <1>t
    <3> QED BY <3>1, <3>4, <3>5, <1>t DEF FlaggedInv
  <2>3. CASE flags # 0
    <3>1. passed' = passed /\ failedOpen' = failedOpen /\ life' = life /\ flags' = flags + 1
      BY <1>8, <2>3 DEF FlagLost, Raise, through
    <3>2. PendingLow' = PendingLow
      BY <2>1, <3>1 DEF PendingLow, At
    <3> QED BY <2>1, <2>3, <3>1, <3>2, <1>t, PendingFinite DEF FlaggedInv
  <2> QED BY <2>2, <2>3
<1>9. ASSUME NEW c \in Call, NEW ran, CountLost(c, ran) PROVE FlaggedInv'
  <2>1. /\ call' = call /\ flags' = flags /\ life' = life
        /\ passed' = passed /\ failedOpen' = failedOpen
    BY <1>9 DEF CountLost, flagKey, history, through
  <2> QED BY <2>1, <1>t, FlaggedKept DEF PendingLow, At
<1>10. ASSUME NEW m, \/ LoseRcpt(m) \/ LoseMsg(m) \/ LoseFlags
                    \/ Unsuspend \/ Tick \/ UNCHANGED vars
       PROVE  FlaggedInv'
  <2>1. /\ call' = call /\ flags' \in {0, flags} /\ life' = life
        /\ passed' = passed /\ failedOpen' = failedOpen
    BY <1>10 DEF LoseRcpt, LoseMsg, LoseFlags, Unsuspend, Tick, vars, flagKey, history, through
  <2> QED BY <2>1, <1>t, FlaggedKept DEF PendingLow, At
<1> QED BY <1>1, <1>2, <1>3, <1>4, <1>5, <1>6, <1>7, <1>8, <1>9, <1>10 DEF Next

LEMMA FlaggedFew == TypeOK /\ FlaggedInv => FlaggedTrafficBounded
<1> SUFFICES ASSUME TypeOK, FlaggedInv PROVE passed < FlagsToSuspend + failedOpen
  BY DEF FlaggedTrafficBounded
<1>1. passed \in Nat /\ failedOpen \in Nat /\ FlagsToSuspend \in Nat
  BY AnomalyAssumption DEF TypeOK
<1> QED BY <1>1, PendingFinite DEF FlaggedInv

(* In enforce mode fewer than FlagsToSuspend flagged messages get through  *)
(* while the flag counter lives, apart from those let through because      *)
(* Redis failed: however many calls run at once, fail, or are counted      *)
(* twice.                                                                  *)
THEOREM FlaggedTrafficIsBounded == Spec => []FlaggedTrafficBounded
<1>1. CASE Mode = "enforce"
  <2>1. TypeOK /\ FlaggedInv /\ [Next]_vars => FlaggedInv'
    BY <1>1, NextFlagged
  <2> QED BY <2>1, InitTyped, NextTyped, InitFlagged, FlaggedFew, PTL DEF Spec
<1>2. CASE Mode # "enforce"
  <2>1. FlaggedTrafficBounded
    BY <1>2 DEF FlaggedTrafficBounded
  <2> QED BY <2>1, PTL
<1> QED BY <1>1, <1>2

-----------------------------------------------------------------------------
(* The recipient counter of a minute holds at least what was counted       *)
(* quietly, until it expires; by then no call of that minute is left to    *)
(* be counted, for the TTL covers a call's lag.                            *)
QuietInv ==
  /\ \A m \in MinuteStart :
       /\ quiet[m] <= Threshold(m)
       /\ quiet[m] <= rcptMin[m] \/ m + Minute + MaxLag <= clock
       /\ rcptEnd[m] # 0 => m + CounterTtl <= rcptEnd[m]
  /\ \A c \in Call : At(c, "count") => call[c].at <= clock /\ clock <= call[c].at + MaxLag

LEMMA MinuteOfBounds == ASSUME NEW t \in Nat
                        PROVE  /\ MinuteOf(t) \in Int
                               /\ MinuteOf(t) <= t /\ t < MinuteOf(t) + Minute
<1>1. Minute \in Nat \ {0}
  BY AnomalyAssumption
<1>2. t % Minute \in 0..(Minute - 1)
  BY <1>1
<1> QED BY <1>1, <1>2 DEF MinuteOf

LEMMA ThresholdType == ASSUME NEW m PROVE Threshold(m) \in Nat
BY AnomalyAssumption DEF Threshold

(* Nothing is found in a message only while its minute is within bounds.   *)
LEMMA QuietWithin ==
  ASSUME NEW m, NEW rcpt \in Nat, NEW rcptSum \in Nat, NEW msgSum \in Nat,
         Reasons(m, rcpt, rcptSum, msgSum) = {}
  PROVE  rcptSum <= Threshold(m)
<1> SUFFICES ASSUME rcptSum > Threshold(m) PROVE FALSE
  BY ThresholdType
<1>1. CASE m \in OffHours
  BY <1>1 DEF Reasons
<1>2. CASE m \notin OffHours
  BY <1>2 DEF Reasons
<1> QED BY <1>1, <1>2

LEMMA InitQuiet == Init => QuietInv
<1> SUFFICES ASSUME Init PROVE QuietInv
  OBVIOUS
<1>1. \A m \in MinuteStart : quiet[m] = 0 /\ rcptMin[m] = 0 /\ rcptEnd[m] = 0
  BY DEF Init
<1>2. \A c \in Call : ~At(c, "count")
  BY DEF Init, At
<1> QED BY <1>1, <1>2, ThresholdType DEF QuietInv

LEMMA NextQuiet == TypeOK /\ QuietInv /\ [Next]_vars => QuietInv'
<1> SUFFICES ASSUME TypeOK, QuietInv, [Next]_vars PROVE QuietInv'
  OBVIOUS
<1>t. /\ clock \in Nat /\ {Minute, MaxLag, CounterTtl} \subseteq Nat /\ MinuteStart \subseteq Nat
      /\ quiet \in [MinuteStart -> Nat] /\ rcptMin \in [MinuteStart -> Nat]
      /\ rcptEnd \in [MinuteStart -> Nat] /\ call \in [Call -> InFlight \cup {Idle}]
      /\ \A m : Threshold(m) \in Nat
  BY AnomalyAssumption, ThresholdType DEF TypeOK, Time, MinuteStart
(* A step that leaves the counters and the clock alone, and sends at most  *)
(* a new call to be counted now.                                           *)
<1>1. ASSUME quiet' = quiet, rcptMin' = rcptMin, rcptEnd' = rcptEnd, clock' = clock,
             \A c \in Call : At(c, "count")' => \/ At(c, "count") /\ call'[c].at = call[c].at
                                                \/ call'[c].at = clock
      PROVE  QuietInv'
  <2>1. \A m \in MinuteStart :
          /\ quiet'[m] <= Threshold(m)
          /\ quiet'[m] <= rcptMin'[m] \/ m + Minute + MaxLag <= clock'
          /\ rcptEnd'[m] # 0 => m + CounterTtl <= rcptEnd'[m]
    BY <1>1 DEF QuietInv
  <2>2. \A c \in Call : At(c, "count")' => call'[c].at <= clock' /\ clock' <= call'[c].at + MaxLag
    BY <1>1, <1>t DEF QuietInv
  <2> QED BY <2>1, <2>2 DEF QuietInv, Threshold
<1>2. ASSUME NEW c \in Call, NEW rcpt \in Rcpts, Evaluate(c, rcpt) PROVE QuietInv'
  <2> DEFINE me == [kind |-> "message", rcpt |-> rcpt, at |-> clock, step |-> "count",
                    reasons |-> {}, count |-> 0, life |-> 0]
  <2>1. call' = [call EXCEPT ![c] = me] /\ me.at = clock
    BY <1>2 DEF Evaluate
  <2> HIDE DEF me
  <2>2. \A d \in Call : At(d, "count")' => \/ At(d, "count") /\ call'[d].at = call[d].at
                                           \/ call'[d].at = clock
    BY <2>1, <1>t DEF At
  <2> QED BY <1>1, <1>2, <2>2 DEF Evaluate, counters, history
<1>3. ASSUME NEW c \in Call, NEW done,
             \/ RaiseFlag(c) \/ Flag(c) \/ FlagLost(c) \/ FailOpen(c)
             \/ Verdict(c, done) \/ Suspend(c, done)
      PROVE  QuietInv'
  <2>1. \/ call' = call
        \/ \E me : call' = [call EXCEPT ![c] = me] /\ (me = Idle \/ me.step # "count")
    <3>1. CASE RaiseFlag(c)
      <4> DEFINE new == [kind |-> "bounce", rcpt |-> 0, at |-> clock, step |-> "flag",
                         reasons |-> {"bounce"}, count |-> 0, life |-> 0]
      <4>1. call' = [call EXCEPT ![c] = new] /\ new.step # "count"
        BY <3>1 DEF RaiseFlag
      <4> QED BY <4>1
    <3>2. CASE Flag(c)
      <4> DEFINE new == [call[c] EXCEPT !.step = "risk", !.count = flags', !.life = life']
      <4>1. call[c] \in InFlight
        BY <3>2, <1>t DEF Flag, At
      <4>2. call' = [call EXCEPT ![c] = new] /\ new.step # "count"
        BY <3>2, <4>1 DEF Flag, InFlight
      <4> QED BY <4>2
    <3>3. CASE Verdict(c, done)
      <4> DEFINE new == [call[c] EXCEPT !.step = "suspend"]
      <4>1. call[c] \in InFlight
        BY <3>3, <1>t DEF Verdict, At
      <4>2. (call' = [call EXCEPT ![c] = new] \/ call' = [call EXCEPT ![c] = Idle]) /\ new.step # "count"
        BY <3>3, <4>1 DEF Verdict, Return, InFlight
      <4> QED BY <4>2
    <3>4. CASE Suspend(c, done) \/ FailOpen(c)
      BY <3>4 DEF Suspend, FailOpen, Return
    <3>5. CASE FlagLost(c)
      BY <3>5 DEF FlagLost
    <3> QED BY <1>3, <3>1, <3>2, <3>3, <3>4, <3>5
  <2>2. \A d \in Call : At(d, "count")' => \/ At(d, "count") /\ call'[d].at = call[d].at
                                           \/ call'[d].at = clock
    BY <2>1, <1>t DEF At
  <2>3. quiet' = quiet /\ rcptMin' = rcptMin /\ rcptEnd' = rcptEnd /\ clock' = clock
    BY <1>3 DEF RaiseFlag, Flag, FlagLost, FailOpen, Verdict, Suspend, counters, history
  <2> QED BY <1>1, <2>2, <2>3
(* The increments of a message: no more is added quietly than is counted.  *)
<1>4. ASSUME NEW c \in Call, At(c, "count"), NEW ran, Increment(c, ran), clock' = clock,
             \A d \in Call : At(d, "count")' => At(d, "count") /\ call'[d].at = call[d].at,
             LET m == MinuteOf(call[c].at) IN
               \/ quiet' = quiet
               \/ /\ quiet' = [quiet EXCEPT ![m] = quiet[m] + call[c].rcpt]
                  /\ "rcpt" \in ran
                  /\ m \in MinuteStart => rcptMin[m] + call[c].rcpt <= Threshold(m)
      PROVE  QuietInv'
  <2> DEFINE at == call[c].at
             m == MinuteOf(at)
             sum == rcptMin[m] + call[c].rcpt
  <2>1. call[c] \in InFlight /\ call[c].rcpt \in Nat
    BY <1>4, <1>t, RcptType DEF At
  <2>2. at \in Nat /\ at <= clock /\ clock <= at + MaxLag
    BY <1>4, <2>1 DEF QuietInv, InFlight, Time
  <2>3. m \in Int /\ m <= clock /\ clock < m + Minute + MaxLag
    BY <2>2, <1>t, MinuteOfBounds
  <2>4. /\ \/ rcptMin' = [rcptMin EXCEPT ![m] = sum]
           \/ rcptMin' = rcptMin /\ "rcpt" \notin ran
        /\ rcptEnd' = rcptEnd \/ rcptEnd' = [rcptEnd EXCEPT ![m] = clock + CounterTtl]
        /\ \/ quiet' = quiet
           \/ /\ quiet' = [quiet EXCEPT ![m] = quiet[m] + call[c].rcpt]
              /\ "rcpt" \in ran
              /\ m \in MinuteStart => sum <= Threshold(m)
    BY <1>4 DEF Increment
  <2> HIDE DEF m
  <2>5. ASSUME NEW n \in MinuteStart
        PROVE  /\ quiet'[n] <= Threshold(n)
               /\ quiet'[n] <= rcptMin'[n] \/ n + Minute + MaxLag <= clock'
               /\ rcptEnd'[n] # 0 => n + CounterTtl <= rcptEnd'[n]
    <3>1. CASE n # m
      <4>1. quiet'[n] = quiet[n] /\ rcptMin'[n] = rcptMin[n] /\ rcptEnd'[n] = rcptEnd[n]
        BY <2>4, <3>1, <1>t
      <4> QED BY <4>1, <1>4 DEF QuietInv
    <3>2. CASE n = m
      <4>1. quiet[n] <= rcptMin[n] /\ quiet[n] <= Threshold(n)
        BY <2>3, <3>2, <1>t DEF QuietInv
      <4>2. \/ rcptMin'[n] = rcptMin[n] + call[c].rcpt
            \/ rcptMin'[n] = rcptMin[n] /\ "rcpt" \notin ran
        BY <2>4, <3>2, <1>t
      <4>3. \/ quiet'[n] = quiet[n]
            \/ /\ quiet'[n] = quiet[n] + call[c].rcpt /\ "rcpt" \in ran
               /\ rcptMin[n] + call[c].rcpt <= Threshold(n)
        BY <2>4, <3>2, <1>t
      <4>4. rcptEnd'[n] = rcptEnd[n] \/ rcptEnd'[n] = clock + CounterTtl
        BY <2>4, <3>2, <1>t
      <4>5. rcptEnd'[n] # 0 => n + CounterTtl <= rcptEnd'[n]
        BY <4>4, <2>3, <3>2, <1>t DEF QuietInv
      <4>6. quiet[n] \in Nat /\ rcptMin[n] \in Nat /\ Threshold(n) \in Nat
        BY <1>t
      <4>7. quiet'[n] <= Threshold(n) /\ quiet'[n] <= rcptMin'[n]
        BY <4>1, <4>2, <4>3, <4>6, <2>1
      <4> QED BY <4>5, <4>7
    <3> QED BY <3>1, <3>2
  <2>6. \A d \in Call : At(d, "count")' => call'[d].at <= clock' /\ clock' <= call'[d].at + MaxLag
    BY <1>4 DEF QuietInv
  <2> QED BY <2>5, <2>6 DEF QuietInv, Threshold
<1>5. ASSUME NEW c \in Call, Count(c) PROVE QuietInv'
  <2> DEFINE m == MinuteOf(call[c].at)
             sum == rcptMin[m] + call[c].rcpt
             found == Reasons(m, call[c].rcpt, rcptMin'[m], msgMin'[m])
             me == [call[c] EXCEPT !.step = "flag", !.reasons = found]
  <2>1. call[c] \in InFlight /\ call[c] # Idle /\ call[c].rcpt \in Nat
    BY <1>5, <1>t, RcptType DEF Count, At
  <2>2. /\ quiet' = IF found = {} THEN [quiet EXCEPT ![m] = quiet[m] + call[c].rcpt] ELSE quiet
        /\ call' = [call EXCEPT ![c] = me]
    BY <1>5, <1>t DEF Count
  <2>3. me.step = "flag"
    BY <2>1 DEF InFlight
  <2>4. ASSUME found = {}, m \in MinuteStart PROVE sum <= Threshold(m)
    <3>1. /\ rcptMin' = [rcptMin EXCEPT ![m] = sum]
          /\ msgMin' = [msgMin EXCEPT ![m] = msgMin[m] + 1]
      BY <1>5 DEF Count, Increment
    <3> HIDE DEF m
    <3>2. rcptMin[m] \in Nat /\ msgMin[m] \in Nat /\ msgMin \in [MinuteStart -> Nat]
      BY <2>4 DEF TypeOK
    <3>3. rcptMin'[m] = sum /\ sum \in Nat /\ msgMin'[m] \in Nat
      BY <2>1, <2>4, <3>1, <3>2, <1>t
    <3> HIDE DEF sum
    <3> QED BY <3>3, <2>1, <2>4, QuietWithin
  <2> HIDE DEF found, me
  <2>5. \A d \in Call : At(d, "count")' => At(d, "count") /\ call'[d].at = call[d].at
    BY <2>2, <2>3, <1>t DEF At
  <2>6. At(c, "count") /\ Increment(c, {"rcpt", "msg"}) /\ clock' = clock
    BY <1>5 DEF Count
  <2>7. \/ quiet' = quiet
        \/ /\ quiet' = [quiet EXCEPT ![m] = quiet[m] + call[c].rcpt]
           /\ m \in MinuteStart => sum <= Threshold(m)
    BY <2>2, <2>4
  <2> QED BY <1>4, <2>5, <2>6, <2>7
<1>6. ASSUME NEW c \in Call, NEW ran, CountLost(c, ran) PROVE QuietInv'
  <2>1. /\ At(c, "count") /\ Increment(c, ran) /\ clock' = clock
        /\ quiet' = quiet /\ call' = call
    BY <1>6 DEF CountLost, history
  <2> QED BY <2>1, <1>4 DEF At
<1>7. ASSUME NEW m \in MinuteStart, LoseRcpt(m) PROVE QuietInv'
  <2>1. /\ clock' = clock /\ call' = call
        /\ quiet' = [quiet EXCEPT ![m] = 0] /\ rcptMin' = [rcptMin EXCEPT ![m] = 0]
        /\ rcptEnd' = [rcptEnd EXCEPT ![m] = 0]
    BY <1>7 DEF LoseRcpt
  <2>2. ASSUME NEW n \in MinuteStart
        PROVE  /\ quiet'[n] <= Threshold(n)
               /\ quiet'[n] <= rcptMin'[n] \/ n + Minute + MaxLag <= clock'
               /\ rcptEnd'[n] # 0 => n + CounterTtl <= rcptEnd'[n]
    BY <2>1, <1>t DEF QuietInv
  <2> QED BY <2>1, <2>2 DEF QuietInv, Threshold, At
<1>8. CASE Tick
  <2>1. /\ clock' = clock + 1 /\ quiet' = quiet /\ call' = call
        /\ \A c \in Call : At(c, "count") => clock + 1 <= call[c].at + MaxLag
    BY <1>8 DEF Tick, history
  <2>2. ASSUME NEW m \in MinuteStart
        PROVE  /\ quiet'[m] <= Threshold(m)
               /\ quiet'[m] <= rcptMin'[m] \/ m + Minute + MaxLag <= clock'
               /\ rcptEnd'[m] # 0 => m + CounterTtl <= rcptEnd'[m]
    <3> DEFINE gone == rcptEnd[m] # 0 /\ rcptEnd[m] <= clock + 1
    <3>1. /\ rcptMin'[m] = IF gone THEN 0 ELSE rcptMin[m]
          /\ rcptEnd'[m] = IF gone THEN 0 ELSE rcptEnd[m]
      BY <1>8, <2>2 DEF Tick
    <3>2. ASSUME gone PROVE m + Minute + MaxLag <= clock + 1
      BY <2>2, <3>2, <1>t, LagWithinTtl DEF QuietInv
    <3> QED BY <2>1, <2>2, <3>1, <3>2, <1>t DEF QuietInv
  <2>3. \A c \in Call : At(c, "count")' => call'[c].at <= clock' /\ clock' <= call'[c].at + MaxLag
    <3> SUFFICES ASSUME NEW c \in Call, At(c, "count")
                 PROVE  call[c].at <= clock + 1 /\ clock + 1 <= call[c].at + MaxLag
      BY <2>1 DEF At
    <3>1. call[c].at \in Nat
      BY <1>t DEF At, InFlight, Time
    <3> QED BY <3>1, <2>1, <1>t DEF QuietInv
  <2> QED BY <2>2, <2>3 DEF QuietInv, Threshold
<1>9. ASSUME NEW m, LoseMsg(m) \/ LoseFlags \/ Unsuspend \/ UNCHANGED vars PROVE QuietInv'
  <2>1. /\ quiet' = quiet /\ rcptMin' = rcptMin /\ rcptEnd' = rcptEnd
        /\ clock' = clock /\ call' = call
    BY <1>9 DEF LoseMsg, LoseFlags, Unsuspend, vars, counters, history
  <2> QED BY <2>1, <1>1 DEF At
<1> QED BY <1>2, <1>3, <1>5, <1>6, <1>7, <1>8, <1>9 DEF Next

(* Messages in which nothing is found add up to no more than the velocity  *)
(* threshold of their minute, however the calls of it interleave.          *)
THEOREM QuietTrafficIsBounded == Spec => []QuietTrafficBounded
<1>1. QuietInv => QuietTrafficBounded
  BY DEF QuietInv, QuietTrafficBounded
<1> QED BY <1>1, InitTyped, NextTyped, InitQuiet, NextQuiet, PTL DEF Spec
=============================================================================
