------------------------------- MODULE Anomaly -------------------------------
(***************************************************************************)
(* The behavioural engine for one sender: evaluate() and raiseFlag() of    *)
(* anomaly.service.ts with the INCR_TTL script, the part of decide() that  *)
(* acts on the verdict, and record() of the feedback loop that raises      *)
(* bounce flags.  Calls of any replica run between each other's awaits;    *)
(* the per-minute counters, the flag counter and the risk score are Redis  *)
(* keys with a TTL.                                                        *)
(*                                                                         *)
(* Redis may lose a key (eviction, failover) and a reply: the client then  *)
(* sends the command again, or gives up after its retries.  An INCR_TTL or *)
(* GET given up makes decide() let the message through, whatever has been  *)
(* counted of it by then (its catch: "never let an internal error block    *)
(* mail"); record() drops the flag.                                        *)
(*                                                                         *)
(* Time is counted in ticks, Minute of them to a minute.                   *)
(***************************************************************************)
EXTENDS Integers, Sequences, FiniteSets

CONSTANTS
  Call,             \* calls that may be in flight at once
  Idle,             \* call[c] of a free slot
  Minute,           \* ticks of a minute
  CounterTtl,       \* TTL of the per-minute counters (120 s: two minutes)
  Rcpts,            \* recipient counts of a message
  OffHours,         \* minutes (by their start) that are off-hours
  BurstPerMin,      \* ANOMALY_BURST_PER_MIN
  OffhoursPerMin,   \* ANOMALY_OFFHOURS_PER_MIN
  FanoutRcpt,       \* ANOMALY_DISTINCT_RCPT_PER_MIN
  BurstMessages,    \* max(30, ANOMALY_BURST_PER_MIN / 2)
  FlagsToSuspend,   \* ANOMALY_FLAGS_TO_SUSPEND
  WindowTicks,      \* ANOMALY_WINDOW_SEC
  Mode,             \* ANOMALY_MODE: "observe" or "enforce"
  MaxLag,           \* a call's INCRs reach Redis at most this long after `now`
  MaxCalls,         \* bound: calls in a behaviour
  MaxFaults,        \* bound: keys and replies lost and best-effort commands failed
  Horizon           \* bound: the last tick of the model

Time == 0..Horizon
Threshold(m) == IF m \in OffHours THEN OffhoursPerMin ELSE BurstPerMin

ASSUME AnomalyAssumption ==
  /\ {Minute, CounterTtl, WindowTicks, FlagsToSuspend} \subseteq Nat \ {0}
  /\ {BurstPerMin, OffhoursPerMin, FanoutRcpt, BurstMessages} \subseteq Nat
  /\ Rcpts \subseteq Nat \ {0}
  /\ Mode \in {"observe", "enforce"}
  /\ {MaxLag, MaxCalls, MaxFaults, Horizon} \subseteq Nat
  /\ IsFiniteSet(Call)

(* A late INCR still finds the counter of its minute.                      *)
ASSUME LagWithinTtl == Minute + MaxLag <= CounterTtl

Reason == {"velocity", "offhours", "fanout", "bounce"}
Severity(f) == CASE f = "bounce" -> 35 [] f = "offhours" -> 20 [] OTHER -> 25

(* A minute is named by the tick it starts at.                             *)
MinuteOf(t) == t - (t % Minute)
MinuteStart == {t \in Time : t % Minute = 0}

(* A call: a message being evaluated, or a bounce flag being raised; the   *)
(* reasons it has found, the flag count it has read and (history) which    *)
(* life of the flag counter it was read from.                              *)
InFlight == [kind: {"message", "bounce"}, rcpt: Rcpts \cup {0}, at: Time,
             step: {"count", "flag", "risk", "suspend"},
             reasons: SUBSET Reason, count: Nat, life: Nat]

ASSUME IdleAssumption == Idle \notin InFlight

VARIABLES
  clock,     \* Redis' time
  rcptMin,   \* an:rcpt:<sender>:<minute>
  rcptEnd,   \* when it expires, 0: not in Redis
  msgMin,    \* an:msg:<sender>:<minute>
  msgEnd,    \* when it expires, 0: not in Redis
  flags,     \* an:flags:<sender>
  flagsEnd,  \* when it expires, 0: not in Redis
  risk,      \* the sender's score in lb:risk:email
  blocked,   \* the sender is on the blocklist
  call,
  calls,     \* calls so far (bounded by MaxCalls)
  faults,    \* faults of Redis so far (bounded by MaxFaults)
  quiet,     \* history: recipients in whose messages nothing was found, per
             \* minute, since Redis last lost the minute's counter
  raised,    \* history: when flags were raised, oldest first
  life,      \* history: flag counters created so far
  passed,    \* history: flagged messages let through in this life ...
  failedOpen \* history: ... those of them that decide()'s catch let through

vars == <<clock, rcptMin, rcptEnd, msgMin, msgEnd, flags, flagsEnd, risk, blocked,
          call, calls, faults, quiet, raised, life, passed, failedOpen>>
counters == <<rcptMin, rcptEnd, msgMin, msgEnd>>
flagKey == <<flags, flagsEnd>>
through == <<passed, failedOpen>>
history == <<quiet, raised, life, through>>

TypeOK ==
  /\ clock \in Time
  /\ rcptMin \in [MinuteStart -> Nat] /\ rcptEnd \in [MinuteStart -> Nat]
  /\ msgMin \in [MinuteStart -> Nat] /\ msgEnd \in [MinuteStart -> Nat]
  /\ flags \in Nat /\ flagsEnd \in Nat
  /\ risk \in 0..100
  /\ blocked \in BOOLEAN
  /\ call \in [Call -> InFlight \cup {Idle}]
  /\ calls \in 0..MaxCalls /\ faults \in 0..MaxFaults
  /\ quiet \in [MinuteStart -> Nat]
  /\ raised \in Seq(Time)
  /\ life \in Nat /\ passed \in Nat /\ failedOpen \in Nat

Init ==
  /\ clock = 0
  /\ rcptMin = [m \in MinuteStart |-> 0] /\ rcptEnd = [m \in MinuteStart |-> 0]
  /\ msgMin = [m \in MinuteStart |-> 0] /\ msgEnd = [m \in MinuteStart |-> 0]
  /\ flags = 0 /\ flagsEnd = 0
  /\ risk = 0
  /\ blocked = FALSE
  /\ call = [c \in Call |-> Idle]
  /\ calls = 0 /\ faults = 0
  /\ quiet = [m \in MinuteStart |-> 0]
  /\ raised = << >> /\ life = 0 /\ passed = 0 /\ failedOpen = 0

At(c, s) == call[c] # Idle /\ call[c].step = s
Return(c) == call' = [call EXCEPT ![c] = Idle]
Fault == faults < MaxFaults /\ faults' = faults + 1

-----------------------------------------------------------------------------
(* decide() reaches the engine: the sender was not on the blocklist when   *)
(* it looked, and the message passed the quota.                            *)
Evaluate(c, rcpt) ==
  /\ call[c] = Idle
  /\ calls < MaxCalls /\ calls' = calls + 1
  /\ ~blocked
  /\ call' = [call EXCEPT ![c] = [kind |-> "message", rcpt |-> rcpt, at |-> clock,
                                  step |-> "count", reasons |-> {}, count |-> 0, life |-> 0]]
  /\ UNCHANGED <<clock, faults, counters, flagKey, risk, blocked, history>>

(* record() finds the sender's bounce rate too high.                       *)
RaiseFlag(c) ==
  /\ call[c] = Idle
  /\ calls < MaxCalls /\ calls' = calls + 1
  /\ call' = [call EXCEPT ![c] = [kind |-> "bounce", rcpt |-> 0, at |-> clock,
                                  step |-> "flag", reasons |-> {"bounce"}, count |-> 0,
                                  life |-> 0]]
  /\ UNCHANGED <<clock, faults, counters, flagKey, risk, blocked, history>>

(* The reasons evaluate() finds, from what its two increments returned.    *)
Reasons(m, rcpt, rcptSum, msgSum) ==
  {f \in {"velocity", "offhours", "fanout"} :
     \/ f = "offhours" /\ m \in OffHours /\ rcptSum > Threshold(m)
     \/ f = "velocity" /\ ((m \notin OffHours /\ rcptSum > Threshold(m)) \/ msgSum > BurstMessages)
     \/ f = "fanout" /\ rcpt > FanoutRcpt}

(* Mutant: the counters expire when their minute ends.                     *)
IncrementBriefly(c, ran) ==
  LET m == MinuteOf(call[c].at)
      Starts(counter, n) == n \in ran /\ counter[m] = 0
  IN
  /\ rcptMin' = IF "rcpt" \in ran THEN [rcptMin EXCEPT ![m] = @ + call[c].rcpt] ELSE rcptMin
  /\ rcptEnd' = IF Starts(rcptMin, "rcpt") THEN [rcptEnd EXCEPT ![m] = m + Minute] ELSE rcptEnd
  /\ msgMin' = IF "msg" \in ran THEN [msgMin EXCEPT ![m] = @ + 1] ELSE msgMin
  /\ msgEnd' = IF Starts(msgMin, "msg") THEN [msgEnd EXCEPT ![m] = m + Minute] ELSE msgEnd

(* The INCR_TTLs of a message that Redis runs; the first one on a counter  *)
(* gives it its TTL.                                                       *)
Increment(c, ran) ==
  LET m == MinuteOf(call[c].at)
      Starts(counter, n) == n \in ran /\ counter[m] = 0
  IN
  /\ rcptMin' = IF "rcpt" \in ran THEN [rcptMin EXCEPT ![m] = @ + call[c].rcpt] ELSE rcptMin
  /\ rcptEnd' = IF Starts(rcptMin, "rcpt") THEN [rcptEnd EXCEPT ![m] = clock + CounterTtl] ELSE rcptEnd
  /\ msgMin' = IF "msg" \in ran THEN [msgMin EXCEPT ![m] = @ + 1] ELSE msgMin
  /\ msgEnd' = IF Starts(msgMin, "msg") THEN [msgEnd EXCEPT ![m] = clock + CounterTtl] ELSE msgEnd

(* The two are sent together; each test reads one result only.             *)
Count(c) ==
  /\ At(c, "count")
  /\ Increment(c, {"rcpt", "msg"})
  /\ LET m == MinuteOf(call[c].at)
         found == Reasons(m, call[c].rcpt, rcptMin'[m], msgMin'[m])
     IN
     /\ call' = [call EXCEPT ![c].step = "flag", ![c].reasons = found]
     /\ quiet' = IF found = {} THEN [quiet EXCEPT ![m] = @ + call[c].rcpt] ELSE quiet
  /\ UNCHANGED <<clock, calls, faults, flagKey, risk, blocked, raised, life, through>>

(* Either or both run and the replies get lost: they will be sent again,   *)
(* or given up.                                                            *)
CountLost(c, ran) ==
  /\ At(c, "count")
  /\ Fault
  /\ Increment(c, ran)
  /\ UNCHANGED <<clock, calls, flagKey, risk, blocked, call, history>>

(* Mutant: every flag renews the TTL.                                      *)
RaiseRenewing ==
  /\ flags' = flags + 1
  /\ flagsEnd' = clock + WindowTicks
  /\ raised' = Append(raised, clock)
  /\ IF flags = 0 THEN life' = life + 1 /\ passed' = 0 /\ failedOpen' = 0
     ELSE UNCHANGED <<life, through>>

(* INCR_TTL on the flag counter; the TTL is the one it got when the first  *)
(* flag created it.                                                        *)
Raise ==
  /\ flags' = flags + 1
  /\ flagsEnd' = IF flags = 0 THEN clock + WindowTicks ELSE flagsEnd
  /\ raised' = Append(raised, clock)
  /\ IF flags = 0 THEN life' = life + 1 /\ passed' = 0 /\ failedOpen' = 0
     ELSE UNCHANGED <<life, through>>

(* Mutant: the count is read, not returned by the increment.               *)
FlagReadFirst(c) ==
  /\ At(c, "flag")
  /\ IF call[c].reasons = {} THEN UNCHANGED <<flagKey, raised, life, through>> ELSE Raise
  /\ call' = [call EXCEPT ![c].step = "risk", ![c].count = flags, ![c].life = life']
  /\ UNCHANGED <<clock, calls, faults, counters, risk, blocked, quiet>>

(* Without a reason the flag count is read, with one it is incremented.    *)
Flag(c) ==
  /\ At(c, "flag")
  /\ IF call[c].reasons = {} THEN UNCHANGED <<flagKey, raised, life, through>> ELSE Raise
  /\ call' = [call EXCEPT ![c].step = "risk", ![c].count = flags', ![c].life = life']
  /\ UNCHANGED <<clock, calls, faults, counters, risk, blocked, quiet>>

(* The flag is counted and the reply gets lost.                            *)
FlagLost(c) ==
  /\ At(c, "flag") /\ call[c].reasons # {}
  /\ Fault
  /\ Raise
  /\ UNCHANGED <<clock, calls, counters, risk, blocked, call, quiet>>

(* An increment or the read of the flags is given up: evaluate() throws,   *)
(* and decide() lets the message through.                                  *)
FailOpen(c) ==
  /\ At(c, "count") \/ At(c, "flag")
  /\ Return(c)
  /\ IF call[c].kind = "message" /\ call[c].reasons # {}
     THEN passed' = passed + 1 /\ failedOpen' = failedOpen + 1
     ELSE UNCHANGED through
  /\ UNCHANGED <<clock, calls, faults, counters, flagKey, risk, blocked, quiet, raised, life>>

SumOfSeverities(reasons) ==
  LET of(f) == IF f \in reasons THEN Severity(f) ELSE 0
  IN of("velocity") + of("offhours") + of("fanout") + of("bounce")

Capped(n) == IF n > 100 THEN 100 ELSE n

(* score(); Math.round is to the nearest, halves up.                       *)
Score(reasons, count) ==
  Capped(SumOfSeverities(reasons) + (60 * count + FlagsToSuspend) \div (2 * FlagsToSuspend))

(* riskSet(), which ignores its errors, then the verdict and, unless the   *)
(* sender gets suspended, the end of the call.                             *)
Verdict(c, stored) ==
  /\ At(c, "risk")
  /\ IF stored THEN UNCHANGED faults ELSE Fault
  /\ LET me == call[c]
         suspend == Mode = "enforce" /\ me.count >= FlagsToSuspend
     IN
     /\ risk' = IF stored THEN Score(me.reasons, me.count) ELSE risk
     /\ IF suspend THEN call' = [call EXCEPT ![c].step = "suspend"] ELSE Return(c)
     /\ passed' = IF ~suspend /\ me.kind = "message" /\ me.reasons # {} /\ me.life = life
                    THEN passed + 1 ELSE passed
  /\ UNCHANGED <<clock, calls, counters, flagKey, blocked, quiet, raised, life, failedOpen>>

(* SenderControlService.suspend(), which goes on when SADD fails, and the  *)
(* 554.                                                                    *)
Suspend(c, added) ==
  /\ At(c, "suspend")
  /\ IF added THEN blocked' = TRUE /\ UNCHANGED faults ELSE Fault /\ UNCHANGED blocked
  /\ Return(c)
  /\ UNCHANGED <<clock, calls, counters, flagKey, risk, history>>

(* The operator lifts the suspension; the flag counter is left alone.      *)
Unsuspend ==
  /\ blocked
  /\ blocked' = FALSE
  /\ UNCHANGED <<clock, calls, faults, counters, flagKey, risk, call, history>>

(* Redis loses a key before its time.                                      *)
LoseRcpt(m) ==
  /\ rcptEnd[m] # 0 /\ Fault
  /\ rcptMin' = [rcptMin EXCEPT ![m] = 0]
  /\ rcptEnd' = [rcptEnd EXCEPT ![m] = 0]
  /\ quiet' = [quiet EXCEPT ![m] = 0]
  /\ UNCHANGED <<clock, calls, msgMin, msgEnd, flagKey, risk, blocked, call, raised, life, through>>

LoseMsg(m) ==
  /\ msgEnd[m] # 0 /\ Fault
  /\ msgMin' = [msgMin EXCEPT ![m] = 0]
  /\ msgEnd' = [msgEnd EXCEPT ![m] = 0]
  /\ UNCHANGED <<clock, calls, rcptMin, rcptEnd, flagKey, risk, blocked, call, history>>

LoseFlags ==
  /\ flagsEnd # 0 /\ Fault
  /\ flags' = 0 /\ flagsEnd' = 0
  /\ UNCHANGED <<clock, calls, counters, risk, blocked, call, history>>

(* A tick passes; Redis drops what has expired.                            *)
Tick ==
  /\ clock < Horizon
  /\ \A c \in Call : At(c, "count") => clock + 1 <= call[c].at + MaxLag
  /\ clock' = clock + 1
  /\ LET gone(end) == end # 0 /\ end <= clock + 1
         Left(n, end) == [m \in MinuteStart |-> IF gone(end[m]) THEN 0 ELSE n[m]]
     IN
     /\ rcptMin' = Left(rcptMin, rcptEnd) /\ rcptEnd' = Left(rcptEnd, rcptEnd)
     /\ msgMin' = Left(msgMin, msgEnd) /\ msgEnd' = Left(msgEnd, msgEnd)
     /\ flags' = IF gone(flagsEnd) THEN 0 ELSE flags
     /\ flagsEnd' = IF gone(flagsEnd) THEN 0 ELSE flagsEnd
  /\ UNCHANGED <<risk, blocked, call, calls, faults, history>>

Next ==
  \/ \E c \in Call :
       \/ \E rcpt \in Rcpts : Evaluate(c, rcpt)
       \/ RaiseFlag(c)
       \/ Count(c) \/ Flag(c)
       \/ \E done \in BOOLEAN : Verdict(c, done) \/ Suspend(c, done)
       \/ \E ran \in {{"rcpt"}, {"msg"}, {"rcpt", "msg"}} : CountLost(c, ran)
       \/ FlagLost(c) \/ FailOpen(c)
  \/ \E m \in MinuteStart : LoseRcpt(m) \/ LoseMsg(m)
  \/ LoseFlags
  \/ Unsuspend
  \/ Tick

Spec == Init /\ [][Next]_vars

-----------------------------------------------------------------------------
(* However a minute's messages interleave, those in which nothing is found *)
(* add up to no more recipients than the velocity threshold of that        *)
(* minute, as long as Redis keeps the minute's counter.  (A message whose  *)
(* counting fails is let through unexamined.)                              *)
QuietTrafficBounded == \A m \in MinuteStart : quiet[m] <= Threshold(m)

(* In enforce mode, the flagged messages that get through while the flag   *)
(* counter lives are fewer than FlagsToSuspend, not counting those that    *)
(* decide() let through because Redis failed: every increment that Redis   *)
(* ran takes a place of its own, the call that got the threshold's place   *)
(* or a later one is stopped, and one that failed gives no place back.     *)
FlaggedTrafficBounded == Mode = "enforce" => passed < FlagsToSuspend + failedOpen

(* A suspension is earned: the flags that a call counts were all raised    *)
(* within the last window (twice for one message, if its reply was lost).  *)
FlagsAreRecent ==
  Cardinality({i \in DOMAIN raised : clock - raised[i] < WindowTicks}) >= flags
=============================================================================
