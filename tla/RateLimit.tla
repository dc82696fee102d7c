------------------------------ MODULE RateLimit ------------------------------
(***************************************************************************)
(* The multi-window quota check: buckets() of windows.ts, check() of       *)
(* ratelimit.service.ts, rlCheck() of redis.service.ts and the RL_CHECK    *)
(* script, run by concurrent decide() calls of any replica against one     *)
(* Redis.  A call reads its replica's clock when it starts and its script  *)
(* runs later; counters are Redis keys that carry a TTL computed from that *)
(* older reading.  Redis may be unreachable, may lose the reply of a       *)
(* script that ran (ioredis then sends the command again), and may evict a *)
(* counter.                                                                *)
(*                                                                         *)
(* Time is in whole seconds.  A window has one length (the real calendar's *)
(* months differ) and starts at the multiples of it; a bucket is named by  *)
(* the second it starts at, as the code names it by truncated wall clock.  *)
(***************************************************************************)
EXTENDS Integers

CONSTANTS
  Sender, Domain,          \* sender addresses and mail domains
  DomainOf,                \* DomainOf[s]: what follows the '@' of s
  Conn,                    \* check() calls that may be in flight at once
  EmailWindow,             \* windows of the sender scope: m1, h1, d1, mo
  DomainWindow,            \* windows of the domain scope: h1, d1
  Len, Grace,              \* seconds of a window, seconds added to its TTL
  Rcpts,                   \* recipient counts of a message
  CountMode,               \* RATE_COUNT_MODE: "recipients" or "messages"
  Profiles,                \* resolved limits: [email |-> .., domain |-> ..]
  MaxAhead,                \* a replica's clock is at most this far ahead
  MaxLag,                  \* a script runs at most this long after `now`
  MaxResends,              \* bound: times an unanswered command is sent again
  Faults,                  \* which faults happen: "down", "lostReply", "evict"
  Horizon,                 \* bound: the last second of the model
  NoMessage                \* msg[c] while c has no request

Window == EmailWindow \cup DomainWindow
Time == 0..Horizon

ASSUME WindowAssumption ==
  /\ Len \in [Window -> Nat \ {0}]
  /\ Grace \in [Window -> Nat]

ASSUME ClockAssumption ==
  /\ MaxAhead \in Nat /\ MaxLag \in Nat /\ MaxResends \in Nat
  /\ Horizon \in Nat

ASSUME InputAssumption ==
  /\ DomainOf \in [Sender -> Domain]
  /\ Rcpts \subseteq Nat \ {0}
  /\ Profiles \subseteq [email: [EmailWindow -> Nat], domain: [DomainWindow -> Nat]]

(* The grace added to a TTL covers a fast clock plus a late script.        *)
ASSUME GraceCoversSkew == \A w \in Window : MaxAhead + MaxLag <= Grace[w]

(***************************************************************************)
(* Buckets and counter keys.                                               *)
(***************************************************************************)
BucketStart(w, t) == t - (t % Len[w])
(* Mutant: the TTL ends with the bucket.                                   *)
TtlWithoutGrace(w, t) == Len[w] - (t % Len[w])

BucketTtl(w, t) == Len[w] - (t % Len[w]) + Grace[w]

(* A counter key: email:<sender>:<window>:<bucket>, domain:<domain>:...    *)
Key == {k \in [scope: {"email"}, id: Sender, window: EmailWindow, start: Time]
               \cup [scope: {"domain"}, id: Domain, window: DomainWindow, start: Time] :
          k.start % Len[k.window] = 0}

BucketEnd(k) == k.start + Len[k.window]

(* One request: `now` of its replica, and the limits resolve() gave it.    *)
Message == [sender: Sender, rcpt: Rcpts, at: Time, limits: Profiles]

ASSUME NoMessageAssumption == NoMessage \notin Message

LimitOf(m, k) == IF k.scope = "email" THEN m.limits.email[k.window]
                                      ELSE m.limits.domain[k.window]

(* The keys check() enforces: a limit of 0 leaves its window out.          *)
Specs(m) ==
  {k \in Key : /\ k.id = IF k.scope = "email" THEN m.sender ELSE DomainOf[m.sender]
               /\ k.start = BucketStart(k.window, m.at)
               /\ LimitOf(m, k) > 0}

Inc(m) == IF CountMode = "messages" THEN 1 ELSE m.rcpt

(* KEYS and ARGV of the script for one message.                            *)
ChargeOf(m) == [inc |-> Inc(m), limit |-> [k \in Specs(m) |-> LimitOf(m, k)]]

-----------------------------------------------------------------------------
VARIABLES
  clock,     \* Redis' time
  cnt,       \* cnt[k]: value of the key, 0 when Redis does not hold it
  expiry,    \* expiry[k]: when Redis drops the key, 0 for a key without TTL
  msg,       \* msg[c]: the request of a check in flight, or NoMessage
  resent,    \* resent[c]: times its script was sent again
  charged,   \* history: charged[c], the script ran with effect for msg[c]
  tally,     \* history: INCRBYs per key since Redis last lost the key
  passed     \* history: recipients let through per key, since then

vars == <<clock, cnt, expiry, msg, resent, charged, tally, passed>>

Pending(c) == msg[c] # NoMessage

TypeOK ==
  /\ clock \in Time
  /\ cnt \in [Key -> Nat]
  /\ expiry \in [Key -> Nat]
  /\ msg \in [Conn -> Message \cup {NoMessage}]
  /\ resent \in [Conn -> 0..MaxResends]
  /\ charged \in [Conn -> BOOLEAN]
  /\ tally \in [Key -> Nat]
  /\ passed \in [Key -> Nat]

Init ==
  /\ clock = 0
  /\ cnt = [k \in Key |-> 0]
  /\ expiry = [k \in Key |-> 0]
  /\ msg = [c \in Conn |-> NoMessage]
  /\ resent = [c \in Conn |-> 0]
  /\ charged = [c \in Conn |-> FALSE]
  /\ tally = [k \in Key |-> 0]
  /\ passed = [k \in Key |-> 0]

(***************************************************************************)
(* decide() takes `now` from its replica's clock, resolves the limits and  *)
(* hands the script to Redis.                                              *)
(***************************************************************************)
Begin(c, m) ==
  /\ ~Pending(c)
  /\ m.at <= clock + MaxAhead
  /\ clock <= m.at + MaxLag
  /\ msg' = [msg EXCEPT ![c] = m]
  /\ UNCHANGED <<clock, cnt, expiry, resent, charged, tally, passed>>

(* check() returns a verdict: the call has nothing left in flight.         *)
Return(c) ==
  /\ msg' = [msg EXCEPT ![c] = NoMessage]
  /\ resent' = [resent EXCEPT ![c] = 0]
  /\ charged' = [charged EXCEPT ![c] = FALSE]

(* Pass 1 of RL_CHECK: no window would go over.                            *)
Fits(ch) == \A k \in DOMAIN ch.limit : cnt[k] + ch.inc <= ch.limit[k]

Added(f, ch) ==
  [k \in Key |-> IF k \in DOMAIN ch.limit THEN f[k] + ch.inc ELSE f[k]]

(* Mutant: a new key is recognised by the value 1, whatever was added.     *)
ExpiryOnOne(m, ch) ==
  [k \in Key |-> IF k \in DOMAIN ch.limit /\ cnt[k] + ch.inc = 1
                   THEN clock + BucketTtl(k.window, m.at) ELSE expiry[k]]

(* EXPIRE belongs to the increment that created the key.                   *)
ExpiryAfter(m, ch) ==
  [k \in Key |-> IF k \in DOMAIN ch.limit /\ cnt[k] + ch.inc = ch.inc
                   THEN clock + BucketTtl(k.window, m.at) ELSE expiry[k]]

(* Mutant: one pass, which charges every window that still has room.       *)
RunOnePass(m) ==
  LET ch == ChargeOf(m)
      open == [ch EXCEPT !.limit =
                 [k \in {k \in DOMAIN @ : cnt[k] + ch.inc <= @[k]} |-> @[k]]]
  IN
  /\ cnt' = Added(cnt, open)
  /\ expiry' = ExpiryAfter(m, open)
  /\ tally' = Added(tally, open)

(* Pass 2 of RL_CHECK, atomic with pass 1.                                 *)
RunScript(m) ==
  LET ch == ChargeOf(m) IN
  /\ Fits(ch)
  /\ cnt' = Added(cnt, ch)
  /\ expiry' = ExpiryAfter(m, ch)
  /\ tally' = Added(tally, ch)

(* The script runs, every window has room, and the reply arrives.          *)
Allow(c) ==
  /\ Pending(c)
  /\ RunScript(msg[c])
  /\ passed' = Added(passed, ChargeOf(msg[c]))
  /\ Return(c)
  /\ UNCHANGED clock

(* The script runs and some window is full: 451, nothing is incremented.   *)
Defer(c) ==
  /\ Pending(c)
  /\ ~Fits(ChargeOf(msg[c]))
  /\ Return(c)
  /\ UNCHANGED <<clock, cnt, expiry, tally, passed>>

(* The command fails for good: decide() catches and fails open.  Without   *)
(* a key to check rlCheck() does not call Redis at all.                    *)
FailOpen(c) ==
  /\ "down" \in Faults
  /\ Pending(c)
  /\ Specs(msg[c]) # {}
  /\ Return(c)
  /\ UNCHANGED <<clock, cnt, expiry, tally, passed>>

(* The script runs but the connection drops before the reply; ioredis,     *)
(* left at its default of resending unfulfilled commands, sends it again   *)
(* on the next connection.                                                 *)
LoseReply(c) ==
  /\ "lostReply" \in Faults
  /\ Pending(c)
  /\ Specs(msg[c]) # {}
  /\ resent[c] < MaxResends
  /\ resent' = [resent EXCEPT ![c] = @ + 1]
  /\ \/ RunScript(msg[c]) /\ charged' = [charged EXCEPT ![c] = TRUE]
     \/ ~Fits(ChargeOf(msg[c])) /\ UNCHANGED <<cnt, expiry, tally, charged>>
  /\ UNCHANGED <<clock, msg, passed>>

(* Redis runs out of memory (volatile-ttl) or fails over without the key.  *)
Evict(k) ==
  /\ "evict" \in Faults
  /\ cnt[k] > 0
  /\ cnt' = [cnt EXCEPT ![k] = 0]
  /\ expiry' = [expiry EXCEPT ![k] = 0]
  /\ tally' = [tally EXCEPT ![k] = 0]
  /\ passed' = [passed EXCEPT ![k] = 0]
  /\ UNCHANGED <<clock, msg, resent, charged>>

Expired(k, t) == expiry[k] # 0 /\ expiry[k] <= t

(* A second passes; Redis drops the keys whose TTL has run out.            *)
Tick ==
  /\ clock < Horizon
  /\ \A c \in Conn : Pending(c) => clock + 1 <= msg[c].at + MaxLag
  /\ clock' = clock + 1
  /\ cnt' = [k \in Key |-> IF Expired(k, clock + 1) THEN 0 ELSE cnt[k]]
  /\ expiry' = [k \in Key |-> IF Expired(k, clock + 1) THEN 0 ELSE expiry[k]]
  /\ UNCHANGED <<msg, resent, charged, tally, passed>>

Next ==
  \/ \E c \in Conn :
       \/ \E m \in Message : Begin(c, m)
       \/ Allow(c)
       \/ Defer(c)
       \/ FailOpen(c)
       \/ LoseReply(c)
  \/ \E k \in Key : Evict(k)
  \/ Tick

Spec == Init /\ [][Next]_vars

-----------------------------------------------------------------------------
(* A counter that exists has a TTL, has not outlived it, and leaves Redis  *)
(* no later than the bucket's end plus the window's grace plus the delay   *)
(* of the script: the EXPIRE of RL_CHECK is never missed, so buckets of    *)
(* the past do not pile up in Redis.                                       *)
CountersExpire ==
  \A k \in Key : cnt[k] > 0 =>
    /\ clock < expiry[k]
    /\ expiry[k] <= BucketEnd(k) + Grace[k.window] + MaxLag

(* While a request for a bucket may still reach Redis, its counter holds   *)
(* everything charged to it: no TTL computed from a fast clock or a late   *)
(* script drops it early and reopens the window.                           *)
NothingForgotten ==
  \A k \in Key : clock < BucketEnd(k) + MaxLag => cnt[k] = tally[k]

(* Whatever calls interleave, replicas' clocks differ, scripts are delayed *)
(* or sent twice: a message is let through only if, with it, what was let  *)
(* through in each of its buckets since Redis last lost the counter is     *)
(* within the limit that message was checked against.                      *)
QuotaRespected ==
  [][\A k \in Key : passed'[k] > passed[k] =>
       \E c \in Conn : /\ Pending(c) /\ ~Pending(c)'
                       /\ k \in Specs(msg[c])
                       /\ passed'[k] <= LimitOf(msg[c], k)]_vars

(* "Rejected mail is not counted": a request that ends in the 451 of the   *)
(* quota check has left no counter behind (unless a reply was lost).       *)
DeferredNotCounted == [][\A c \in Conn : Defer(c) => ~charged[c]]_vars

(* What the messages there are ask for.                                    *)
Charges == {ChargeOf(m) : m \in Message}

(* The check implements the timeless quota of FixedWindowQuota: clocks,    *)
(* TTLs and the order of keys in a script do not show.                     *)
Q == INSTANCE FixedWindowQuota WITH Charge <- Charges
ImplementsQuota == Q!Spec
=============================================================================
