# Verification of ratelimit-policyd

`ratelimit-policyd` (under `src/policyd`) answers the policy requests of Postfix
for outbound mail. For each message it answers `DUNNO` (go on), `451` (defer) or
`554` (reject). Quotas are counters in Redis; senders, domains and tiers are rows
in MariaDB, cached by every replica; a behavioural engine and a bounce feedback
loop suspend senders that look compromised; a script on every mail host ships the
delivery outcomes of the mail log back. Several replicas run side by side and
share one Redis and one database, and everything fails open: whatever breaks, mail
is let through.

This directory holds TLA+ models of these parts, TLC runs over small instances of
them, and TLAPS proofs for every value of the constants. Paths below are relative
to `src/policyd/src/` unless they start with `src/`.

## 1. Inventory

For each component: the state it keeps, its operations, whom it meets, what is
hard about it, and what makes it correct.

**Quota check** (`policy/ratelimit.service.ts`, `policy/windows.ts`,
`redis/lua-scripts.ts`). State: one Redis counter per scope, identity, window and
bucket, with a TTL. Operation: `check()` builds the buckets of `now`, leaves out
windows whose limit is 0, and runs RL_CHECK, which either increments every counter
or none. Hard: any number of replicas at once; `now` is a replica's clock and is
read before the script runs on Redis' clock; replies get lost and ioredis sends the
script again; Redis evicts or fails over. Correct when no interleaving lets more
through than the limit, a deferred message is not counted, no counter vanishes
while its bucket can still be charged, and every counter expires.

**Decision** (`policy/policy.service.ts`). No state of its own. `decide()` asks the
blocklist, resolves the sender, heals the blocklist if the row is suspended, checks
the recipient cap and the quota, counts the accepted volume, asks the behavioural
engine, and answers; any exception answers `DUNNO`. Hard: every one of these is an
await, and what was read before it may be stale after it.

**Suspension and configuration cache** (`policy/sender-control.service.ts`,
`policy/config-cache.service.ts`). State: the Redis set `blocklist`, the status in
`policy_sender`, and on every replica an LRU of rows (60 s, 100 000 entries) and a
snapshot of tiers and domains. Operations: `suspend()`, `unsuspend()`, `resolve()`
with its lazy creation and warm-up promotion (promises nobody awaits),
`reloadGlobal()` (at start, every 30 s, and on `cfg:reload`). Hard: three copies of
one fact, written one await after another by any replica, each write allowed to
fail. Correct when a suspended row always means a blocked sender, nobody is blocked
without a cause, and replicas converge to the database.

**Limits** (`resolve()`, `domainLimits()`, `fromTier()` of the same service). No state
of their own: a sender's limits come from its row, its domain's row and the tiers, in
that order and then from the default tier and the code. Hard: row and snapshot are of
different times, tiers are deleted and renamed under those who have them, reloads
overlap and a cache fill may bring an old row back. Correct when every limit comes from
the first source that has a value, no limit is lifted by accident, and a replica comes to
serve what the tables say.

**Senders, domains and tiers API** (`admin/*.controller.ts`). Writes rows, calls the
service above, publishes reloads. `PUT` and `POST` on senders may write a status
directly. Deleting a tier takes it from every domain and sender that has it.

**Behavioural engine** (`policy/anomaly.service.ts`). State: two counters per sender
and minute (TTL 120 s), a flag counter per sender (TTL of the window), a risk score.
Operations: `evaluate()` per accepted message, `raiseFlag()` for a bounce rate that is
too high. Hard: evaluations of one sender overlap; the flag count is raised by one
call and acted upon by another; the operator lifts suspensions in between; Redis loses a
reply or a counter, and a command that fails lets the message through. Correct when, as far
as Redis answers, unflagged traffic is bounded per minute and flagged traffic per window,
when a failure gives nothing back, and when old flags do not count.

**Bounce feedback** (`feedback/*`). State: outcome counters per sender or domain in
clock-aligned buckets. `ingest()` classifies and counts events of a batch;
`record()` judges the rate and raises a flag. Hard: outcomes and accepted volume are
counted at different times, in different buckets, by different replicas; one report of
a batch may fail. Correct when no counter is dropped while its bucket is counted in or
read, every report is counted once, and a sender over the threshold is noticed by one
of the calls that counted its bad outcomes.

**Audit log writer** (`policy/event-writer.service.ts`). State: a buffer of at most
5 000 events, and batches on their way to the database. Operations: `push()`, the 2 s
timer, `onModuleDestroy()`. Hard: flushes overlap; the database refuses or hangs; the
process exits while decisions still run. Correct when no event is stored twice, the
newest survive an overflow, and a graceful exit writes what was buffered.

**Policy protocol server** (`policy/policy-tcp.server.ts`, `policy/ip.ts`). State per
connection: an incomplete line, the attributes so far, a size count. Operations: the
allowlist when a peer connects, `data`, the end of `decide()`, the idle timeout, `close()`.
Hard: chunks end anywhere, inside a request or beyond it; a decision may outlive its
connection; Postfix times out, reconnects and asks again; JavaScript shifts modulo 32.
Correct when every decision is made on its own request of a listed peer, what is kept of
unfinished requests is bounded, and every reply is read as the answer to its request.

**Log shipper** (`src/scripts/mail_feedback_shipper.py`). State: an open file and a
position, the queue-id map (50 000 entries), the batch. Operations: `follow()`,
`remember()`, `post()`. Hard: rotation and truncation under its feet, posts that time
out after they were accepted, queue ids that come back, restarts. Correct when an
outcome is counted at most once and charged to the right sender.

**Alerts** (`notify/notify.service.ts`). State: a Redis once-key per sender and kind.
`alert()` claims the key, then posts to Telegram and a webhook. Hard: several replicas
want the same alert, Redis fails, a replica dies between the claim and the posts.
Correct when alerts of one key are an interval apart while Redis answers, and whoever
does not send may rely on somebody who does, or who was lost within the interval.

**Admin console** (`src/policyd/public/app.js`). State: the token, the tab, the view
drawn, two caches, the handle of the polling timer. Operations: navigation, loaders,
tables, forms, login and logout, and `api()`, which ends the session on any 401. Hard:
answers arrive after a change of tab, after a logout, or after the next login. Correct
when there is one timer at most, the app is shown exactly while there is a token, rows
never appear in another tab's view, a logout brings silence, and the dashboard of an
operator who stays is polled.

**Start and shutdown** (`main.ts`, `seed.ts`). State: the signal's listeners that have
run, the hooks each has called. Operations: the two listeners of a signal, Nest's and
`shutdown()`; `tcp.close()`, the destroy hooks, `process.exit()`. Hard: Nest's listener
sends the signal again when it is done, so that `shutdown()` runs twice and the hooks up to
three times; Redis is quit while connections are still served; Postfix keeps its
connections open, and one that asks at least once a minute for ever. Correct when the
process ends once the clients have fallen silent, although none hangs up, cuts nobody
off who waits for an answer, and loses nothing the run that exits had found in the buffer.

Without state worth a model: sign-in (stateless), configuration (constants), metrics
(process counters nobody reads back), module wiring, `dashboard` and `events`
(read-only, except that `top()` resolves senders with all the effects of
`resolve()`), the schedules table (no code reads it), the GCRA script (no caller),
deployment files.

## 2. Modules

| module | models | state and actions |
|---|---|---|
| `FixedWindowQuota` | what the quota check promises | `tally` per key; `Admit` (all windows or none), `Lose` |
| `RateLimit` | `check()`, `buckets()`, `rlCheck()`, RL_CHECK | `cnt`, `expiry` are the Redis keys and their TTLs; `msg` the calls in flight. `Begin` reads the replica's clock, `Allow`/`Defer` are the script with its reply, `LoseReply` a script whose reply is lost and which is sent again, `FailOpen` the catch of `decide()`, `Evict` and `Tick` are Redis |
| `RateLimitProofs` | | theorems about `RateLimit` |
| `Suspension` | blocklist, row, caches, the calls that read and write them | `blocked`, `row`, `enabled`; `cache`, `domain`, `reloads` per replica; `call` (calls in flight, one step per await), `tasks` (promises nobody awaits). One action per awaited operation: `IsSuspended`, `Lookup`, `Read`, `Fill`, `Heal`, `RateCheck`, `Evaluate` of `decide()`; `Sadd`, `Srem`, `Forget`, `Write` of the writers; `LazyCreate`, `Promote`, `Finish`; `ToggleDomain`, `ReloadRead`, `ReloadApply`, `Age`, `PushOut`; `RedisFails`, `ReadFails`, `WriteFails`, `TaskFails`, `Crash` |
| `SuspensionProofs` | | theorems about `Suspension` |
| `Anomaly` | `evaluate()`, `raiseFlag()`, INCR_TTL, their callers | the Redis keys of one sender; `call` with the steps count, flag, risk, suspend. `Evaluate`, `RaiseFlag` begin calls; `Count`, `Flag`, `Verdict`, `Suspend` are their awaited operations; `CountLost`, `FlagLost` a command that runs and whose reply is lost, `FailOpen` one that is given up, so that `decide()` lets the message through; `LoseRcpt`, `LoseMsg`, `LoseFlags`, `Tick` are Redis, `Unsuspend` the operator |
| `AnomalyProofs` | | theorems about `Anomaly` |
| `ConfigCache` | `resolve()`, `domainLimits()`, the snapshot and LRU of one replica; the tiers, domains and senders API; `seed.ts` | tables `tierT`, `domainT`, `senderT`; the replica's `tiers`, `domain`, `lru`, and its unfinished `reloads`, `calls`, `tasks`. One action per endpoint (`CreateTier` to `DeleteSender`), `Seed`, `Elsewhere` (other replicas' writes), `Ripen`; `ReadTiers`, `ReadDomains`, `Reload`, `ReloadFails` of `reloadGlobal()`; `Lookup`, `Read`, `Fill`, `ReadFails` of `getSender()`; `LazyCreate`, `Promote`, `Finish`, `TaskFails`; `Age`, `Forget`, `Crash` |
| `ConfigCacheProofs` | | theorems about `ConfigCache` |
| `EventWriter` | the audit log of one replica | `buf`, `batches`, `table`; `Push`, `Flush`, `Stored`, `Refused`, `Destroy`, `Exit`, `Kill` |
| `Shutdown` | extends it: `main.ts`, the policy connections, the hooks | `conn`, `deciding`, `redis`, `stage` (how far each listener of the signal is). `Connect`, `Ask`, `LookUp`, `Answer`, `HangUp`, `IdleTimeout`; `Signal`, `TcpClosed`, `QuitRedis`, `DestroyEvents`, `SignalAgain`, `Leave` |
| `ShutdownProofs` | | theorems about `EventWriter` and `Shutdown` |
| `Allowlist` | `ipAllowed()` | operators: an address is the set of its one bits |
| `PolicyTcp` | extends it: one smtpd process and the server's side of its connections | client: `peer`, `next`, `sent`, `tries`, `outcome`; server: `buf`, `attrs`, `total`, `deciding`; `ahead`, how many requests the client may have without a reply. `Data` runs the line loop over a chunk (`Fed`, a recursive function); `Stored` is what the server keeps of requests that have not ended |
| `PolicyTcpProofs` | | theorems about `Allowlist` and `PolicyTcp` |
| `Shipper` | mail log, logrotate and the script | `log`, `files`, `path`, `syslog`; `fd`, `pos`, `pc`, `qid_sender`, `batch`, `accepted` |
| `Feedback` | `decide()`'s count of accepted recipients, `ingest()`, `record()`, `classify()`, `fbIncr()`, `fbRates()`, `alert()` | `counter`, `counterEnd`, `once` are Redis keys and their ends; `call` the calls in flight with the steps count, rates, flag, claim, send. `Accept`, `Ingest` begin calls; `Count`, `Judge`, `Flag`, `Claim`, `Send` are their awaited operations; `CountLost` and `ClaimLost` are commands that run and are sent again because their reply was lost; `RedisFails`, `ClaimFails`, `Dies`, `Tick` |
| `FeedbackProofs` | | theorems about `Feedback` and `Shipper` |
| `Console` | `app.js` | `token`, `screen`, `tab`, `view`, `cached`, `dashTimer` and `timers` (the handle, and what the browser runs); `handler`, the code that waits for an answer. `Choose`, `Reload`, `Redraw`, `Save`, `LogIn`, `LogOut`, `Poll` start handlers; `LoggedIn`, `NeedAnswered`, `CardsAnswered`, `TableAnswered`, `Saved` are what runs from one await to the next |
| `ConsoleProofs` | | theorems about `Console` |
| `MC...` | instances for TLC | values of constants, symmetry |

How they meet: `RateLimit`, `Suspension` and `Anomaly` each model the part of
`decide()` that concerns them and leave the other parts as a free choice
(`Suspension.RateCheck` may pass or end a call, `Suspension.Evaluate` may suspend;
`Anomaly.Evaluate` starts where the quota let a message through). The free choice
has more behaviours than the real part, so what holds holds of the composition.
`ConfigCache` and `Suspension` share `resolve()`: the one follows the limits and takes a
status from anywhere, the other follows the status and leaves limits out. `PolicyTcp`
treats `decide()` as something that takes time and ends; `EventWriter` takes events from
anywhere, and `Shutdown` is `EventWriter` composed with the connections that push into it
and the process that ends it, so that every step of `Shutdown` is one of `EventWriter` or
leaves its variables alone (theorem `ShutdownRunsTheLog`). `Shipper` ends where a batch is accepted and `Feedback`
begins there; whether `raiseFlag()` suspends is free in `Feedback.Flag`, `Anomaly` has
the count behind it and `Suspension` the writes that follow. `Console` takes any answer
of the API at any time.

Names starting with another definition's, introduced by a comment "Mutant", are
wrong versions of it, kept beside it to show that the properties notice them; no
behaviour uses them.

### Abstractions

- `RateLimit`: time is whole seconds; a window has one length and buckets start at
  its multiples (months differ in reality; the bucket's name is its start). A limit
  of 0 is "no limit", as in the code.
- `Suspension`: one sender, one domain. Rows are reduced to their status; limits play
  no part. An upsert is atomic or fails (Prisma's on MariaDB is a select and an
  insert, and two at once may fail with a unique violation, which both callers
  catch). `reloads` keeps what an unfinished reload has read, so that reloads may
  overtake each other; where the domain's switch never moves, a reload only empties
  the LRU, which `PushOut` also does.
- `Anomaly`: one sender; off-hours are a set of minutes. A minute is a number: its name in
  the code has unpadded parts (`policy/anomaly.service.ts:38`), which makes 1:11 and 11:1
  the same, but never two minutes within the 120 s of a counter. The two INCR_TTLs of
  `evaluate()` are one step: they are sent together and each test reads one result.
- `ConfigCache`: one domain and one sender of it. Of the limits three are kept, since
  `resolve()` treats the rest like one of them: one only tiers have, one that a sender may
  override, one that a domain may too. A request body is the record of the columns it sets.
  A reload is its two queries and the assignment, and one query that fails ends it. The
  sender's age is whether `WARMUP_DAYS` have passed. Invalidation is `Forget`, at any time,
  and a reload may begin at any time, which covers a `cfg:reload` that is late or lost.
- `EventWriter`: events are numbers; which rows the database dislikes is a free choice.
- `Shutdown`: one signal from outside. The hooks of a round run in any order (Nest's is by
  module distance), and those that only close the admin API, the metrics server and the
  database are left out: they end by themselves, and Prisma connects again by itself when a
  batch comes after its hook. Which decisions push an event is a free choice.
- `Allowlist`: an address is the set of its one bits, whose number is a parameter, as is
  what `<<` takes its shift modulo; `&` is intersection. What `ipv4ToInt()` and `Number()`
  make of a text is part of a peer or a rule.
- `PolicyTcp`: text in units (two for an attribute line, so that a chunk can end in
  it). One client, because connections share nothing in the server.
- `Feedback`: one sender. A bucket is named by the tick it starts at. A replica's clock
  is Redis' plus a skew; a command runs up to `MaxLag` ticks after it was issued. A
  report is the class of its DSN and the word lists that occur in it, which is all
  `classify()` tells apart. Both channels of an alert are one step, since their failures
  are ignored. A process that dies takes one of its calls with it.
- `Console`: rows, forms and figures are reduced to the tab they belong to; filters,
  pages and which of two answers of the same table is newer are left out. A session is a
  token or none: any request may meet a 401 at any time, and a request that carries no
  token always does, unless it is the login.
- `Shipper`: files are sequences of line numbers. The dsn of a line is captured only
  where it directly follows `to=<...>`, which Postfix never writes (see 6).

## 3. Runs

Every run fits in a few minutes. Where `TypeOK` is proved (section 4) the runs leave it
out, but for `Shipper`, whose `ShipperTypeOK` bounds what is kept; they also leave
out `NothingForgotten` of `RateLimit`. Bounds are given with the reason why the
interesting cases fit in them.

**RateLimit** — two concurrent calls of one sender, a minute of two seconds in an
hour of four, horizon 3 s, clocks up to 1 s ahead, scripts up to 1 s late, two
recipients a message (so that a first increment is not 1, which the EXPIRE test of
RL_CHECK turns on), two sets of limits (changed between messages), one resend, Redis
down, replies lost, counters evicted. The horizon holds a minute's boundary, both
orders of clock skew around it and the expiry of a counter created early. Checks
`CountersExpire`, `QuotaRespected`, `ImplementsQuota`.

**SuspensionCause** — one replica, two calls, suspensions, edits, deletions and
promotions of a sender in warm-up, Redis failing and a crash between any two steps:
`BlocksAreJustified`. Two operator calls are enough for a block, its removal
and a decision between them.

**SuspensionAgree** — two replicas, two calls, decisions, dashboard lookups and
suspensions, from a row that is absent, active or in warm-up, without failures:
`AgreeWhenQuiet` and `BlockedBeforeRecorded` in every interleaving with lazy creation.

**SuspensionLive** — one call at a time, all writers but deletion, Redis and database failing
again and again but not for ever, the domain switched on and off, cache entries aging:
`RecordedSuspensionTakesEffect`.

**SuspensionUnsuspend** — expected to fail, see 6.

**Anomaly** — two calls at once, three in all, small and large messages, an ordinary
and an off-hours minute, a flag window of two ticks inside a horizon of three, counters
that live for a minute and a half (no longer than `LagWithinTtl` asks), thresholds of two,
one fault (a key or a reply lost, a best-effort command that fails), and calls that fail
open at any await: enough to reach a threshold by concurrent calls, to cross a minute, to
expire a flag counter and to be lifted and suspended again. Checks
`QuietTrafficBounded`, `FlaggedTrafficBounded`, `FlagsAreRecent`.

**ConfigCache** — three seeded tiers and room for one more; a warm-up sender in a domain
with a tier and an hourly limit, or a sender ready to graduate in a domain without a row;
one edit of the operator (any endpoint: a tier created, renamed or deleted, the warm-up
tier included; a domain created, disabled or deleted; a sender that is deleted or gets a
tier and an hourly limit of 0), one failed
query or restart; two reloads and one cache fill at a time. Two reloads are what
it takes to apply them out of order or to mix their answers, one fill to bring an old row
back after a reload, and one edit makes snapshot, row and cache disagree in every way that
one missed change can. Checks `PrecedenceRespected`, `DefaultStillLimits`,
`EditsTakeEffect`, `WarmupEnds`.

**Shutdown** — a buffer of two, four events, two clients that ask as often as they like,
the three callers of the hooks, refused batches, SIGKILL: the buffer can overflow twice, batches of the timer
and of each caller can be under way together, and a client can ask before, during and after the first round of
hooks. Checks `EachEventOnce`, `KeepsTheNewest`, `GracefulExit`, `ShutdownEnds`.

**PolicyTcp** — five requests of 2, 1, 3, 2 and 1 lines against a limit of two lines
and a blank one: at the limit, below, beyond it, and again after it; every cut into
chunks, two tries, both a client that waits as long as it takes and one that gives
up at any moment, and both one that waits for each reply and one that has two requests
under way, so that a chunk may end one request and begin the next (six units of five are
then kept). The client comes from an IPv4 address of three bits or from another, and
the list is empty, has one rule (the address, prefixes of 0, 1 and 2 bits, one beyond the
width, one that is no number, another text) or two. Checks `BufferingBounded`,
`DecidesOnTheRequest`, `RepliesMatch`, `OnlyListedServed`, `OnlyBigRequestsCutOff`,
`EachGetsItsAnswer`.

**Shipper** — two queue ids and two senders, ids used again, a map of one id, batches of
two, one rotation, truncations at any time, one restart, posts that fail or time out after
they were accepted, three log lines: a mail, another under the same id or under one that
pushes it out of the map, and a delivery, or a mail and two deliveries that fill a batch. The
order in which a larger map forgets is in the theorem. Checks `ShipperTypeOK`,
`AcceptedOnce`, `ChargedToItsSender`, `NothingDropped`, `FollowsThePath`.

**Feedback** — two calls at once, three in all, clocks up to a tick apart, commands up
to a tick late, a bucket of two ticks inside a horizon of three, so that calls begin in
one bucket and count, or judge, in the next, and counters are read beside their end; a
batch with a bounce, and one with a nameless report, a deferral that carries a spam word
and a plain one; one fault (a command that fails, a reply that is lost so that the command
is sent again, or a death); a minimum
sample of two and a threshold of one half, both of which one message of two recipients
and one bounce meet exactly. Checks `NothingForgotten`, `EachReportCounted`, `NoticesBadSenders`, `AlertsSpaced`, `NobodySilenced`.

**Console** — two handlers at once, five clicks, one failed request and any number of
401s: enough for a load that is overtaken by a change of tab, for a logout with a load
pending, and for an old request to be answered in a new session. Checks `OneTimer`,
`ScreenMatchesSession`, `RowsOfTheirTab`, `LoggedOutFallsSilent`, `DashboardPolled`.

Deadlock is checked for PolicyTcp, which ends in `Finished`. Elsewhere the horizon or
a bound on operations ends a behaviour, and deadlock is not an error.

### Fairness

- `Suspension.Fairness`: calls go on (the event loop runs every continuation), timers
  fire, the sender keeps sending; steps that Redis or the database may refuse are
  strongly fair, that is, a server that fails does not fail every time for ever.
- `ConfigCache.Fairness`: the sender keeps sending, cache entries age, the 30 s timer
  starts reloads, queries and promises end. The operator's edits and the failures are
  bounded, so this speaks of what happens once both have stopped.
- `EventWriter.Fairness`: the database answers each batch, well or badly. With a database
  that hangs, the exit waits until SIGKILL.
- `Shutdown.DrainFairness`: in addition decisions end (without Redis they end at once),
  a socket on which nothing comes any more falls idle (`IDLE_TIMEOUT_MS`; whoever waits for
  an answer has given up before), and the promises of a shutdown are kept. No client has to
  hang up, to ask, or to stop asking: that clients fall silent is `ShutdownEnds`' condition
  (`FallsSilent`), since data sets the socket's timer back.
- `PolicyTcp.Fairness`: the client goes on, bytes arrive, `decide()` ends. `decide()`
  has no timeout of its own; ioredis' `maxRetriesPerRequest: 2` bounds its waits.
- `Console.Fairness`: a request is answered, denied or given up by the browser, and an
  interval that is alive fires. Clicks and failures are bounded, 401s are not.
- `Shipper.FairSpec`: the script runs, and a rotation that has begun is completed.

## 4. Proofs

`RateLimitProofs`, for all senders, domains, windows, limits, skews and numbers of
calls. The inductive invariant `IInv` joins five parts: types; `InTime`, a pending
script is not older than `MaxLag` and its clock not further ahead than `MaxAhead`;
`ExpiryBounds`, the TTL of an existing counter ends between the bucket's end plus the
lag and the bucket's end plus grace and lag; `NothingForgotten`; and
`PassedWasCharged`, what was let through is at most what was charged. `ExpiryBounds`
is what makes `NothingForgotten` inductive, and that in turn lets "fits the counter"
mean "fits the tally". Theorems: `TypeCorrect`, `CountersDoExpire`,
`NothingIsForgotten`, `QuotaIsRespected`, `Refinement` (every step of `RateLimit` is a
step of `FixedWindowQuota` or leaves its tally alone), and `DeferredIsNotCounted`: where no
reply is lost, a 451 leaves nothing counted.

Assumption that matters: `GraceCoversSkew`, the grace of a window covers clock skew
plus script delay. In the code the graces are 5 s (m1), 30 s (h1), 60 s (d1) and
300 s (mo), `policy/windows.ts:32-35`. A script that reaches Redis more than 5 s after
`decide()` began, or replicas whose clocks differ by that much, are outside of it, and
then a minute's counter may restart within its minute.

`SuspensionProofs`, for any number of replicas and calls. `TypeCorrect` is proved action
by action. `SuspendBlocksFirst` proves `BlockedBeforeRecorded` where only `suspend()`
writes a status and Redis answers (its assumption `OnlySuspends`), with database
failures, crashes and promotions allowed. `SafeInv` adds `SaddFirst`: a call of
`suspend()` that is past its SADD has a blocked sender; without it the write of the
row would not be known to find the entry there. Two more theorems each say of what the
property depends, since section 6 shows that without it the code does not have it:

- `BlocksHaveCause` (`BlocksAreJustified`): a block has a cause, as long as nobody unsuspends
  (`NobodyLifts`); edits, deletions, promotions, faults and crashes are allowed. `CauseInv`
  follows what may block: while there is no cause, no copy of the row says suspended, no replica
  takes the domain for disabled, and no call is about to suspend.
- `AgreesWhenQuiet` (`AgreeWhenQuiet`): when nothing is in flight, list and row agree, where
  only `suspend()` writes a status, nothing fails or is promoted and the domain stays enabled
  (`Undisturbed`). `Agreement`: no copy of the row is ahead of it, and a block that is not
  recorded yet is in the hands of a `suspend()` that will.

`AnomalyProofs`: `TypeCorrect`, for all thresholds, windows and delays, with the score in
0..100 (`ScoreType`), and the three properties of the run. `SuspensionEarned`
(`FlagsAreRecent`) rests on `RecentInv`: what a counter holds are the last flags raised, none
more than a window before its end. `FlaggedTrafficIsBounded` rests on `FlaggedInv`: what passed
with a flag, together with the messages that will (`PendingLow`, those that were told a
count below the threshold), is below the threshold and at most what the counter holds, not
counting what failed open. It is inductive because each increment that Redis ran took a
place of its own, whoever heard of it: a lost reply, a repetition or a call that fails may
waste places below the threshold and gives none back.
`QuietTrafficIsBounded` rests on `QuietInv`: a minute's counter holds at least what was counted
in messages in which nothing was found, until it expires, and by then no call of that
minute is left to count (`LagWithinTtl`: the TTL of 120 s covers a minute and a command's lag).

`ConsoleProofs`, for any number of handlers, clicks and failures: `TypeCorrect`,
`OneTimerAtMost`, `ScreenIsTheSessions`, `RowsAreTheirTabs`. One lemma per piece of
synchronous code (`StopKeeps`, `StartKeeps`, `SessionKeeps`, `LoadKeeps`,
`ReplaceKeeps`) says what it keeps, and the actions are put together from them. Timer
and screen are inductive with the types; `RowsOfTheirTab` is not, and `InPage` is what it
lacks: a handler that still has its element in the page is after the data of the view
drawn. `LoadKeeps` shows why, since whoever draws a view takes all other elements out.

`ShutdownProofs`, for any buffer, events and clients, however often they ask. `ShutdownRunsTheLog` shows
that `Shutdown` implements `EventWriter`, so what is proved of the log is proved once:
`LogTypeCorrect`, `EventsOnce`, `NewestKept`. None of them is inductive. `LogInv` adds
`Older`, an event that has left the buffer is older than all that are in it (which keeps a
pushed event from being anywhere else); `Apart`, batches share no event with each other
and with what has arrived; and `Covered`, what a caller found in the buffer has arrived or
is in that caller's batch, hence `ExitKeepsTheBuffer`, since a caller exits without a
batch. `ExitIsGraceful` also needs `DrainInv`: a run that is past `tcp.close()` finds no
connection, because the first thing the first run did was to stop the server, and the
second starts after it.

`FeedbackProofs`, for any batches, skews, buckets, thresholds and number of calls.
`TypeCorrect` and `CountersComplete` follow from `CountInv`: a command runs within the lag
and for the bucket its replica's clock showed (`CallsTimely`), and a counter that exists ends
after its bucket's end plus the lag (`CountersKept`), whoever created it. The assumption is
`SlackCoversSkew`. `AlertsAreSpaced` and `NobodyIsSilenced` rest on `AlertInv`: a once-key
lives for one interval from the SET that created it, and whose SET that was has sent the
alert, is about to, died, or had the reply lost and was told by the repetition that
somebody else is first. `BadSendersNoticed` rests on `NoticeInv`: while a bucket is over the threshold,
one of its calls is on the way to judge it or has flagged it. It is inductive because the last of
the concurrent calls reads what all of them counted, and accepting mail only lowers a rate
(`MoreSentIsBetter`).

`ReportsAreCounted` (`EachReportCounted`) compares sums over calls, kinds and buckets. The
prover has no induction over data, but it has that a set of numbers has a least
member (`LeastNat`), and that of the finite sets with a property one has no smaller one in it
(`LeastSubset`). A statement about a recursive function or a sum holds because its
least counterexample would have a smaller one. So `SumExists` shows that the sum of a
finite function is defined, `SumTyped` its type and `SumChanges` what one changed value does to it;
`ReportInv` has the `Balance`, for as long as no replica has died: what was counted and what the
calls have left is what was named, less what failed, plus what ran without an answer. The
assumption is that calls are finitely many (`CallAssumption`).

The second half is about `Shipper`, for any log, sizes, rotations, truncations, failures and
restarts. `ShipperInv` joins the types with `MailsLogged` (a delivery is logged after its mail),
`FilesInOrder` and `ReadsOn`: a file holds lines in the order of writing, and what is still
to be read is newer than everything that was read, whichever file that was in. That is why no
line is shipped twice (`OutcomesCountOnce`) and why a line that was skipped cannot come
between a mail and its delivery later (`OutcomesFindTheirSender`). `Remembered` says of the map
that each entry is the last mail read under its queue id, that entries are in the order of
reading, and that a queue id that this run of the script read and the map has no more is
older than all that it has, QID_MAX of them; `RememberLemma` is one step of the map: at most one entry makes room, and the
others keep their order. `OutcomesAreShipped` (`NothingDropped`) needs all of it, since the map
of 50 000 entries may forget a mail only after that many others.

`PolicyTcpProofs`: `AllowedIsListed`, masks and shifts compare exactly the leading bits, for
every peer, list and width (`MaskLemma`, where the prefix length 0 needs its case of its
own); and with it `OnlyListedAreServed`. The rest is for any requests, sizes, cuts into
chunks, tries and timeouts, and has two invariants. `Ordered` is about any client, however
many requests it sends ahead: buffer and attributes are what the units that have left the
wire make of them (`InOrder`), a decision is about its own request's attributes, and what
is kept exceeds the size count by less than MAX_REQUEST_BYTES, since the chunk that ended a
request, and of which nothing was counted since, was within the bound itself. That gives
`EachDecidedOnItsOwn` and `BuffersAreBounded` (`BufferingBounded`). `Polite` adds
`Conversation` for `ahead = 1`, as Postfix is: only one of text, decision and reply is under
way (`InStep`), and the decision of a live connection is about the request that waits; hence
`RepliesAreTheirs`, `CountIsPerRequest` and the second part of `BufferingBounded`. The line
loop is the recursive function `Fed`, and `FedUnits` shows by a least counterexample that
reading a chunk is reading its units one by one.

`ConfigCacheProofs`, for any tiers, limits, edits, failures and numbers in flight. `ConfigInv`
joins the types with what the unique index and the operator keep: a table of tiers has one
row of a name and, while `KeepsDefault`, the default one; the snapshot and every unfinished
reload hold a table as it was at some time. That makes `getTier()` a function
(`TierByName`), and `LimitIs` and `FirstSource` reduce `resolve()` to the list of sources.
Theorems: `TypeCorrect`, `PrecedenceIsRespected`, `DefaultKeepsLimiting`.

Only model-checked: the liveness properties (`RecordedSuspensionTakesEffect`,
`EachGetsItsAnswer`, `FollowsThePath`, `LoggedOutFallsSilent`, `DashboardPolled`, `ShutdownEnds`,
`EditsTakeEffect`, `WarmupEnds`), since the prover has neither fairness nor ENABLED. Every invariant
and action property of the passing runs is a theorem.

## 5. What a property rests on

- `QuotaRespected` is relative to Redis keeping the counter: after an eviction or a
  failover a bucket starts at 0, and the property bounds what passes per loss.
  Messages let through by fail-open are not counted and not bounded.
- `BlocksAreJustified` takes a suspension as lifted when SREM has run. If SREM fails,
  the sender stays blocked with an active row.
- `PrecedenceRespected` speaks of senders whose row is known and that are not blocked;
  `DefaultStillLimits` of replicas that have loaded the tiers once, while nobody deletes or
  renames the default tier.
- `EditsTakeEffect` is about the time after the last edit and failure. Before it, a replica
  may serve tiers of one moment with domains of another.
- `GracefulExit` covers what the run that exits had found in the buffer; see 6 for the rest.
- `AgreeWhenQuiet` is checked and proved without status edits, promotions and unsuspends;
  see 6 for what these do.
- `QuietTrafficBounded` counts the recipients of messages in which the engine found nothing,
  since Redis last lost that minute's counter (eviction, failover). What passes with a flag
  is `FlaggedTrafficBounded`'s; a message whose counting failed passes unexamined and
  belongs to neither.
- `FlaggedTrafficBounded` does not count the flagged messages that `decide()` let through
  because a Redis command of `evaluate()` failed (`policy/policy.service.ts:192-196`): the one
  that brings the counter to the threshold may be among them, although its flag stands. It
  bounds what passes per life of the flag counter, and a lost counter begins a new life.
- `FlagsAreRecent` counts increments: a flag whose reply was lost is raised again when
  ioredis repeats the command (`redis/redis.service.ts:61`), so that one message may count
  twice towards a suspension.
- `ChargedToItsSender` and `NothingDropped` speak of mails whose qmgr line was read, the
  latter by the same run of the script as the outcome: a restart forgets the map.
- `NothingForgotten` of `Feedback` rests on `SlackCoversSkew`: the 300 s by which a
  counter outlives its bucket cover the replicas' skew and a command's delay.
- `NoticesBadSenders` leaves out buckets of which a bad outcome was counted and never
  judged: Redis failed or the replica died in between, or the bucket ended before its
  counters were read, which the code reads by the clock of that moment.
- `EachReportCounted` takes a report whose command failed as lost, unless the command ran
  before its reply was lost, and counts twice one whose command was sent again.
- `NobodySilenced` names the two ways in which an alert is silenced that nobody sends, for
  one interval each: the replica dies after it claimed the key; or the reply to its SET NX
  is lost, ioredis sends the command again (`redis/redis.service.ts:61`), it answers null,
  and `alert()` takes the caller for a second one and returns (`notify/notify.service.ts:32`).
  It says nothing of the posts' success: their failures are ignored by the code.
- `Feedback` leaves out keys that Redis loses before their time (eviction, failover): a
  counter that is lost starts again at 0, and a once-key that is lost permits another alert.
- `ShutdownEnds` is about clients that fall silent. One that keeps its connection and asks at
  least every 60 s sets the socket's timer back each time (`policy/policy-tcp.server.ts:47`);
  `tcp.close()` then does not end, and neither does the process, until it is killed.
- `RepliesMatch`, `OnlyBigRequestsCutOff`, `EachGetsItsAnswer` and the second part of
  `BufferingBounded` need a client that sends one request at a time, as Postfix does.
  With pipelining, replies come in the order decisions end; `total = 0`
  (`policy/policy-tcp.server.ts:75`) forgets the rest of the chunk, so that nearly twice
  MAX_REQUEST_BYTES may be kept; and a chunk that ends one small request and begins another
  counts whole for the first, which may cut off both.

## 6. Where code and documents disagree

Checked by a run that fails as expected:

- **SuspensionUnsuspend**: a `decide()` that resolved the suspended row before
  `unsuspend()` ran its SREM executes `redis.suspend(email)`
  (`policy/policy.service.ts:84`) after it. The sender stays on the blocklist with an
  active row until somebody unsuspends it again; `policy/sender-control.service.ts:9`
  promises that list, row and cache are kept consistent.

Met while modelling and left outside the runs' bounds:

- A promotion in flight writes `active` over a suspension that came in between
  (`policy/config-cache.service.ts:208`): row active, sender blocked.
- A status edited through `PUT /senders/:email` does not touch the blocklist
  (`admin/senders.controller.ts:94`): set to active, the sender stays blocked.
- After an unsuspend the flag counter stands (`policy/anomaly.service.ts:86`), and the
  next message, flagged or not, suspends the sender again until the counter expires;
  `src/deploy.md:431` says Unsuspend clears a wrong suspension.
- Flags are counted from the first one of a counter's life, so a window tumbles;
  `src/policyd/.env.example:56` says "rolling".
- A script whose reply is lost is sent again (`redis/redis.service.ts:61` leaves
  ioredis' default), so a message may be counted twice, or counted and deferred;
  `redis/lua-scripts.ts:12-13` says a rejected mail is not counted. `QuotaRespected`
  holds with resends; `DeferredNotCounted` is proved without them.
- A sender without a row is served before its domain's row is looked at
  (`policy/config-cache.service.ts:123`), so the first message, and all until the row has been
  created, ignore a disabled domain and its limits; `src/ARCHITECTURE.md:191` says
  `enabled=false` blocks the domain.
- A domain's `perHour` also replaces the tier's where it is larger
  (`policy/config-cache.service.ts:155`); the comment above says "also tighten user". And
  `src/policyd/prisma/schema.prisma:41` says "null = inherit tier", while `domainLimits()`
  takes null for no cap (`:173`).
- During warm-up a sender without a row is limited by the warm-up tier, and from its second
  message on by its domain's tier if that has one (`:149`): the row's status chooses a tier
  only where nobody has one.
- A tier's `enabled` is stored and never read. `DomainDto` has the default `enabled = true`
  (`admin/dto.ts:27`), so a `PUT` that does not name it enables a disabled domain.
- With the database down, an unknown sender gets the warm-up tier; a replica that starts
  then has no tier at all and limits nobody (`fromTier()` answers 0, "no limit").
  `src/ARCHITECTURE.md:239` says "stale cache / default tier".
- A cached warm-up row that is old enough starts a promotion, which writes `active` over
  whatever the row says by then (`:208`): also through the dashboard's list of top senders,
  which resolves each of them (`admin/dashboard.controller.ts:92`), and also for a sender
  that was deleted and created again in between.
- The rounds of destroy hooks do not wait for each other. A run of `shutdown()` whose own
  round is through exits (`main.ts:78`), although a batch that another round or the timer
  has taken is still on its way; that batch is lost if the exit is first. Events
  pushed after the last round has begun stay in the buffer, which nothing flushes any more.
- Nest's hooks quit Redis at the signal (`redis/redis.service.ts:88`), before `tcp.close()`
  has seen the connections end: decisions of that time fail open. `close()` takes until every
  connection has been without data for the idle timeout, 60 s
  (`policy/policy-tcp.server.ts:47`), or for ever while a client keeps asking; Docker sends
  SIGKILL after 10 s, and what is buffered by then is lost.
- In the hour that a change of the clocks repeats, the bucket's name is the same
  (`policy/windows.ts:25`): the second hour begins with the counters of the first, which live
  30 s into it.
- The leaderboard is written with `EXPIRE` of the whole set at every message
  (`redis/redis.service.ts:140`), so members of an earlier bucket stay in it while anybody
  sends.
- The console's loaders draw after an await without asking which tab is chosen by then
  (`src/policyd/public/app.js:374`, `:493`, `:631`): a slow `loadSenders()` replaces the
  Events view, while `:293` promises to "Jump to the Events tab". Rows do stay in the
  view of their own tab (`RowsOfTheirTab`).
- A 401 to a request of an ended session, arriving after the next login, ends that one
  too (`:101`).
- A failed `/domains` request is shown as "No domains" (`:558`).
- Feedback buckets are aligned to the clock (`redis/redis.service.ts:210`);
  `src/policyd/.env.example:71` says "rolling window for the rate". Mail accepted before
  a bucket's end bounces into the next, and bounces are counted per attempt, so `badRate`
  may exceed the 1 that `feedback/feedback.service.ts:26` gives as its bound.
- Accepted volume is counted before the behavioural engine may still reject the message
  (`policy/policy.service.ts:141`): a message answered 554 counts as sent.
- A suspension for bounces is counted twice in the metrics
  (`feedback/feedback.service.ts:91`, `policy/sender-control.service.ts:31`).
- A report whose text is longer than 512 characters makes validation refuse its whole
  batch (`feedback/feedback.controller.ts:12`), which the shipper then drops.
- The shipper opens a rotated log at its end and drops what was added to the old one
  (`src/scripts/mail_feedback_shipper.py:76`); it does not notice a truncation (`:85`);
  its expression never captures the dsn of a Postfix line (`:38`).

## 7. Plan

Left, in this order:

1. The calendar of `buckets()` with months and changes of the clocks, and off-hours.
2. `Shipper` composed with `Feedback`: from the log line to the counter.
3. The leaderboards and the statistics of `RedisService`.
4. GCRA, if it gets a caller.
5. Proofs: that `ConfigCache` and `Suspension` agree on what they share of `resolve()`, and
   the safety parts of the liveness properties.

Not modelled, because nothing else depends on their state or they have none: metrics,
sign-in, module wiring, the schedules table, deployment files, listing and validation in
the API, HTTP and logging.
