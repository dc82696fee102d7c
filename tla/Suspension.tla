------------------------------ MODULE Suspension ------------------------------
(***************************************************************************)
(* How one sender gets blocked and unblocked.  Three places remember it:   *)
(* the Redis blocklist, the sender's row in the database, and on every     *)
(* replica a cached copy of that row.  decide() reads all three            *)
(* (policy.service.ts, config-cache.service.ts), SenderControlService and  *)
(* the admin controllers write them, one awaited operation after another.  *)
(* Each await is a step of its own here, so that calls of any replica      *)
(* interleave between them, and each operation on Redis or on the database *)
(* may fail the way the code around it expects.                            *)
(*                                                                         *)
(* The sender's limits play no part: a quota verdict is a free choice (see *)
(* RateLimit), and so is the anomaly engine's.                             *)
(***************************************************************************)
EXTENDS Naturals

CONSTANTS
  Replica,       \* policyd processes
  Call,          \* calls that may be in flight at once, over all replicas
  NoCall,        \* call[c] of a free slot
  Ops,           \* operations that callers start
  FirstRows,     \* what the sender's row may be at first
  Faults,        \* which faults happen: "redis", "db", "crash"
  MayPromote,    \* warm-up rows may be older than WARMUP_DAYS
  MayDisable,    \* the admin enables and disables the sender's domain; if
                 \* not, a reload only clears the LRU, as PushOut does
  MaxAdmin       \* bound: admin writes in a behaviour

Status == {"active", "warmup", "suspended"}
Operation == {"decide", "top", "suspend", "unsuspend", "update", "create", "remove"}

ASSUME OpsAssumption ==
  Ops \subseteq Operation /\ FirstRows \subseteq Status \cup {"absent"}
ASSUME BoundAssumption ==
  MaxAdmin \in Nat /\ MayPromote \in BOOLEAN /\ MayDisable \in BOOLEAN

(* A row of policy_sender, reduced to its status.                          *)
Row == Status \cup {"absent"}

(* An entry of senderLru; `fresh` while it is younger than SENDER_TTL_MS.  *)
Entry == [row: Row \cup {"none"}, fresh: BOOLEAN]
NoEntry == [row |-> "none", fresh |-> FALSE]

Step == {"blocklist", "lookup", "read", "fill", "heal", "quota", "anomaly",
         "sadd", "srem", "forget", "write"}

(* A call: the replica that runs it, what it does, where it is, and the    *)
(* row it has seen (decide) or the status it was given (update, create).   *)
InFlight == [at: Replica, op: Operation, step: Step, row: Row \cup {"none"}]

ASSUME NoCallAssumption == NoCall \notin InFlight

(* Work that resolve() starts and does not wait for.                       *)
Task == [kind: {"create", "created", "promote", "promoted"}, at: Replica, row: Row \cup {"none"}]

VARIABLES
  blocked,   \* the sender is in the Redis set `blocklist`
  row,       \* its row in policy_sender
  enabled,   \* policy_domain.enabled of its domain
  cache,     \* cache[r]: the senderLru entry of replica r
  domain,    \* domain[r]: `enabled` as replica r has it in memory
  reloads,   \* reloads[r]: what r's unfinished reloadGlobal() calls have read
  call,      \* call[c]: the call in flight
  tasks,     \* background work in flight
  admin,     \* admin writes so far (bounded by MaxAdmin)
  cause      \* history: a suspension not lifted by an unsuspend() since, or
             \* a domain that was disabled

vars == <<blocked, row, enabled, cache, domain, reloads, call, tasks, admin, cause>>

TypeOK ==
  /\ blocked \in BOOLEAN
  /\ row \in Row
  /\ enabled \in BOOLEAN
  /\ cache \in [Replica -> Entry]
  /\ domain \in [Replica -> BOOLEAN]
  /\ reloads \in [Replica -> SUBSET BOOLEAN]
  /\ call \in [Call -> InFlight \cup {NoCall}]
  /\ tasks \subseteq Task
  /\ admin \in 0..MaxAdmin
  /\ cause \in BOOLEAN

Init ==
  /\ blocked = FALSE
  /\ row \in FirstRows
  /\ enabled = TRUE
  /\ cache = [r \in Replica |-> NoEntry]
  /\ domain = [r \in Replica |-> TRUE]
  /\ reloads = [r \in Replica |-> {}]
  /\ call = [c \in Call |-> NoCall]
  /\ tasks = {}
  /\ admin = 0
  /\ cause = FALSE

At(c, s) == call[c] # NoCall /\ call[c].step = s
Goto(c, s) == call' = [call EXCEPT ![c].step = s]
Return(c) == call' = [call EXCEPT ![c] = NoCall]
Put(r, seen) == [cache EXCEPT ![r] = [row |-> seen, fresh |-> TRUE]]
Drop(r) == [cache EXCEPT ![r] = NoEntry]

-----------------------------------------------------------------------------
(***************************************************************************)
(* Requests arrive.                                                        *)
(***************************************************************************)
(* Mutant: suspend() records first.                                        *)
RecordFirst(op) ==
  CASE op = "decide" -> "blocklist"
    [] op = "top" -> "lookup"
    [] op = "unsuspend" -> "srem"
    [] OTHER -> "write"

FirstStep(op) ==
  CASE op = "decide" -> "blocklist"
    [] op = "top" -> "lookup"
    [] op = "suspend" -> "sadd"
    [] op = "unsuspend" -> "srem"
    [] OTHER -> "write"

(* suspend() is called by the admin API and by the bounce-rate loop; what  *)
(* an update or a create writes is the admin's choice ("none": no status). *)
Begin(c, r, op, given) ==
  /\ call[c] = NoCall
  /\ op \in Ops
  /\ given \in IF op \in {"update", "create"} THEN Status \cup {"none"} ELSE {"none"}
  /\ IF op \in {"decide", "top"} THEN UNCHANGED admin
     ELSE admin < MaxAdmin /\ admin' = admin + 1
  /\ call' = [call EXCEPT ![c] =
                [at |-> r, op |-> op, step |-> FirstStep(op), row |-> given]]
  /\ cause' = (cause \/ op = "suspend" \/ given = "suspended")
  /\ UNCHANGED <<blocked, row, enabled, cache, domain, reloads, tasks>>

-----------------------------------------------------------------------------
(***************************************************************************)
(* decide(), up to and including the resolved limits.  The dashboard's     *)
(* top() resolves the limits of a sender too, and does no more.            *)
(***************************************************************************)
IsSuspended(c) ==
  /\ At(c, "blocklist")
  /\ IF blocked THEN Return(c) ELSE Goto(c, "lookup")
  /\ UNCHANGED <<blocked, row, enabled, cache, domain, reloads, tasks, admin, cause>>

(* What resolve() does with the row it got, without another await.         *)
Resolve(c, seen, entries) ==
  LET r == call[c].at
      Resolved(s) == IF call[c].op = "top" THEN Return(c) ELSE Goto(c, s)
  IN
  \/ /\ seen = "absent"
     /\ cache' = [entries EXCEPT ![r] = [row |-> "absent", fresh |-> TRUE]]
     /\ tasks' = tasks \cup {[kind |-> "create", at |-> r, row |-> "none"]}
     /\ Resolved("quota")
  \/ /\ seen = "suspended" \/ (seen \in {"active", "warmup"} /\ ~domain[r])
     /\ cache' = entries
     /\ Resolved("heal")
     /\ UNCHANGED tasks
  \/ /\ seen \in {"active", "warmup"} /\ domain[r]
     /\ cache' = entries
     /\ Resolved("quota")
     /\ \/ UNCHANGED tasks
        \/ /\ seen = "warmup" /\ MayPromote
           /\ tasks' = tasks \cup {[kind |-> "promote", at |-> r, row |-> "none"]}

Lookup(c) ==
  /\ At(c, "lookup")
  /\ LET e == cache[call[c].at] IN
       IF e.fresh THEN Resolve(c, e.row, cache)
       ELSE /\ call' = [call EXCEPT ![c].step = "read", ![c].row = e.row]
            /\ UNCHANGED <<cache, tasks>>
  /\ UNCHANGED <<blocked, row, enabled, domain, reloads, admin, cause>>

(* findUnique() answers; the call runs on with the answer later.           *)
Read(c) ==
  /\ At(c, "read")
  /\ call' = [call EXCEPT ![c].step = "fill", ![c].row = row]
  /\ UNCHANGED <<blocked, row, enabled, cache, domain, reloads, tasks, admin, cause>>

Fill(c) ==
  /\ At(c, "fill")
  /\ Resolve(c, call[c].row, Put(call[c].at, call[c].row))
  /\ UNCHANGED <<blocked, row, enabled, domain, reloads, admin, cause>>

(* The database is down: the stale entry serves, or the sender counts as   *)
(* unknown.                                                                *)
ReadFails(c) ==
  /\ "db" \in Faults
  /\ At(c, "read")
  /\ Resolve(c, IF call[c].row = "none" THEN "absent" ELSE call[c].row, cache)
  /\ UNCHANGED <<blocked, row, enabled, domain, reloads, admin, cause>>

(* Mutant: reject without putting the sender back.                         *)
HealOnlyRejects(c) ==
  /\ At(c, "heal")
  /\ Return(c)
  /\ UNCHANGED <<blocked, row, enabled, cache, domain, reloads, tasks, admin, cause>>

(* A suspended row or a disabled domain: back onto the blocklist, reject.  *)
Heal(c) ==
  /\ At(c, "heal")
  /\ blocked' = TRUE
  /\ Return(c)
  /\ UNCHANGED <<row, enabled, cache, domain, reloads, tasks, admin, cause>>

(* Mutant: a sender over its quota goes onto the blocklist.                *)
QuotaBlocks(c) ==
  /\ At(c, "quota")
  /\ Goto(c, "heal") \/ Goto(c, "anomaly")
  /\ UNCHANGED <<blocked, row, enabled, cache, domain, reloads, tasks, admin, cause>>

(* The recipient cap and the quota: reject or defer, or go on.             *)
RateCheck(c) ==
  /\ At(c, "quota")
  /\ Return(c) \/ Goto(c, "anomaly")
  /\ UNCHANGED <<blocked, row, enabled, cache, domain, reloads, tasks, admin, cause>>

(* evaluate(): let the message through, or suspend its sender first.       *)
Evaluate(c) ==
  /\ At(c, "anomaly")
  /\ \/ Return(c) /\ UNCHANGED cause
     \/ /\ call' = [call EXCEPT ![c].op = "suspend", ![c].step = "sadd", ![c].row = "none"]
        /\ cause' = TRUE
  /\ UNCHANGED <<blocked, row, enabled, cache, domain, reloads, tasks, admin>>

-----------------------------------------------------------------------------
(***************************************************************************)
(* SenderControlService and the writes of the senders API.                 *)
(***************************************************************************)
Sadd(c) ==
  /\ At(c, "sadd")
  /\ blocked' = TRUE
  /\ Goto(c, "forget")
  /\ UNCHANGED <<row, enabled, cache, domain, reloads, tasks, admin, cause>>

(* Calls that suspend the sender, or are about to.                         *)
Suspending(c) ==
  /\ call[c] # NoCall
  /\ \/ call[c].op = "suspend"
     \/ call[c].op \in {"update", "create"} /\ call[c].row = "suspended"

Srem(c) ==
  /\ At(c, "srem")
  /\ blocked' = FALSE
  /\ cause' = (~enabled \/ \E d \in Call : Suspending(d))
  /\ Goto(c, "forget")
  /\ UNCHANGED <<row, enabled, cache, domain, reloads, tasks, admin>>

(* invalidateSender(): before the write in suspend() and unsuspend(),      *)
(* after it in the controller's own writes.                                *)
Forget(c) ==
  /\ At(c, "forget")
  /\ cache' = Drop(call[c].at)
  /\ IF call[c].op \in {"suspend", "unsuspend"} THEN Goto(c, "write") ELSE Return(c)
  /\ UNCHANGED <<blocked, row, enabled, domain, reloads, tasks, admin, cause>>

(* What the write of an operation makes of the row.  An update or delete   *)
(* of a row that is not there is an error and changes nothing.             *)
Written(op, given) ==
  CASE op = "suspend" -> "suspended"
    [] op = "unsuspend" -> IF row = "absent" THEN "absent" ELSE "active"
    [] op = "update" -> IF row = "absent" \/ given = "none" THEN row ELSE given
    [] op = "create" -> IF given # "none" THEN given
                        ELSE IF row = "absent" THEN "active" ELSE row
    [] op = "remove" -> "absent"
    [] OTHER -> row

Write(c) ==
  /\ At(c, "write")
  /\ row' = Written(call[c].op, call[c].row)
  /\ IF \/ call[c].op \in {"suspend", "unsuspend"}
        \/ call[c].op \in {"update", "remove"} /\ row = "absent"
     THEN Return(c) ELSE Goto(c, "forget")
  /\ UNCHANGED <<blocked, enabled, cache, domain, reloads, tasks, admin, cause>>

-----------------------------------------------------------------------------
(***************************************************************************)
(* Background work: lazyCreateSender() and promoteSender().                *)
(***************************************************************************)
Replace(t, kind, seen) ==
  tasks' = (tasks \ {t}) \cup {[kind |-> kind, at |-> t.at, row |-> seen]}

(* Mutant: the upsert updates an existing row as well.                     *)
LazyCreateOverwrites(t) ==
  /\ t \in tasks /\ t.kind = "create"
  /\ row' = "warmup"
  /\ Replace(t, "created", row')
  /\ UNCHANGED <<blocked, enabled, cache, domain, reloads, call, admin, cause>>

LazyCreate(t) ==
  /\ t \in tasks /\ t.kind = "create"
  /\ row' = IF row = "absent" THEN "warmup" ELSE row
  /\ Replace(t, "created", row')
  /\ UNCHANGED <<blocked, enabled, cache, domain, reloads, call, admin, cause>>

Promote(t) ==
  /\ t \in tasks /\ t.kind = "promote"
  /\ IF row = "absent" THEN tasks' = tasks \ {t} /\ UNCHANGED row
     ELSE row' = "active" /\ Replace(t, "promoted", "none")
  /\ UNCHANGED <<blocked, enabled, cache, domain, reloads, call, admin, cause>>

(* The .then() of either.                                                  *)
Finish(t) ==
  /\ t \in tasks /\ t.kind \in {"created", "promoted"}
  /\ cache' = IF t.kind = "created" THEN Put(t.at, t.row) ELSE Drop(t.at)
  /\ tasks' = tasks \ {t}
  /\ UNCHANGED <<blocked, row, enabled, domain, reloads, call, admin, cause>>

TaskFails(t) ==
  /\ "db" \in Faults
  /\ t \in tasks /\ t.kind \in {"create", "promote"}
  /\ tasks' = tasks \ {t}
  /\ UNCHANGED <<blocked, row, enabled, cache, domain, reloads, call, admin, cause>>

-----------------------------------------------------------------------------
(***************************************************************************)
(* The domain's switch and reloadGlobal(), which any replica may start at  *)
(* any time: every 30 s, and whenever an admin write was published.        *)
(***************************************************************************)
ToggleDomain ==
  /\ MayDisable /\ admin < MaxAdmin
  /\ enabled' = ~enabled
  /\ admin' = admin + 1
  /\ cause' = TRUE
  /\ UNCHANGED <<blocked, row, cache, domain, reloads, call, tasks>>

ReloadRead(r) ==
  /\ MayDisable
  /\ enabled \notin reloads[r]
  /\ reloads' = [reloads EXCEPT ![r] = @ \cup {enabled}]
  /\ UNCHANGED <<blocked, row, enabled, cache, domain, call, tasks, admin, cause>>

ReloadApply(r, read) ==
  /\ read \in reloads[r]
  /\ domain' = [domain EXCEPT ![r] = read]
  /\ cache' = Drop(r)
  /\ reloads' = [reloads EXCEPT ![r] = @ \ {read}]
  /\ UNCHANGED <<blocked, row, enabled, call, tasks, admin, cause>>

(* SENDER_TTL_MS passes for an entry.                                      *)
Age(r) ==
  /\ cache[r].fresh
  /\ cache' = [cache EXCEPT ![r].fresh = FALSE]
  /\ UNCHANGED <<blocked, row, enabled, domain, reloads, call, tasks, admin, cause>>

(* SENDER_MAX other senders push the entry out of the LRU.                 *)
PushOut(r) ==
  /\ cache[r] # NoEntry
  /\ cache' = Drop(r)
  /\ UNCHANGED <<blocked, row, enabled, domain, reloads, call, tasks, admin, cause>>

-----------------------------------------------------------------------------
(***************************************************************************)
(* Faults.                                                                 *)
(***************************************************************************)
(* decide() fails open, heal and SenderControlService go on without.       *)
RedisFails(c) ==
  /\ "redis" \in Faults
  /\ \/ \E s \in {"blocklist", "quota", "anomaly", "heal"} : At(c, s) /\ Return(c)
     \/ \E s \in {"sadd", "srem"} : At(c, s) /\ Goto(c, "forget")
  /\ UNCHANGED <<blocked, row, enabled, cache, domain, reloads, tasks, admin, cause>>

WriteFails(c) ==
  /\ "db" \in Faults
  /\ At(c, "write")
  /\ Return(c)
  /\ UNCHANGED <<blocked, row, enabled, cache, domain, reloads, tasks, admin, cause>>

(* A replica dies and comes back; its first reloadGlobal() may fail, and   *)
(* then it knows no domain at all.                                         *)
Crash(r, known) ==
  /\ "crash" \in Faults
  /\ known \in IF "db" \in Faults THEN {enabled, TRUE} ELSE {enabled}
  /\ cache' = Drop(r)
  /\ domain' = [domain EXCEPT ![r] = known]
  /\ reloads' = [reloads EXCEPT ![r] = {}]
  /\ call' = [c \in Call |-> IF call[c] # NoCall /\ call[c].at = r THEN NoCall ELSE call[c]]
  /\ tasks' = {t \in tasks : t.at # r}
  /\ UNCHANGED <<blocked, row, enabled, admin, cause>>

-----------------------------------------------------------------------------
Next ==
  \/ \E c \in Call :
       \/ \E r \in Replica, op \in Operation, given \in Status \cup {"none"} :
            Begin(c, r, op, given)
       \/ IsSuspended(c) \/ Lookup(c) \/ Read(c) \/ Fill(c) \/ ReadFails(c)
       \/ Heal(c) \/ RateCheck(c) \/ Evaluate(c)
       \/ Sadd(c) \/ Srem(c) \/ Forget(c) \/ Write(c)
       \/ RedisFails(c) \/ WriteFails(c)
  \/ \E t \in tasks : LazyCreate(t) \/ Promote(t) \/ Finish(t) \/ TaskFails(t)
  \/ ToggleDomain
  \/ \E r \in Replica :
       \/ ReloadRead(r) \/ Age(r) \/ PushOut(r)
       \/ \E b \in BOOLEAN : ReloadApply(r, b) \/ Crash(r, b)

Spec == Init /\ [][Next]_vars

-----------------------------------------------------------------------------
(***************************************************************************)
(* Safety.                                                                 *)
(***************************************************************************)
Quiet ==
  /\ \A c \in Call : call[c] = NoCall
  /\ tasks = {}
  /\ \A r \in Replica : reloads[r] = {}

(* suspend() blocks first and records later: whatever fails or dies in     *)
(* between, a suspended row means that the sender is already blocked.      *)
(* (Where nothing else writes a status and Redis answers.)                 *)
BlockedBeforeRecorded == row = "suspended" => blocked

(* A sender is not blocked out of the blue: when nothing is in flight, a   *)
(* blocked sender was suspended after the last unsuspend(), or its domain  *)
(* was disabled.                                                           *)
BlocksAreJustified == Quiet /\ blocked => cause

(* "Keeps the Redis blocklist, the DB row and the in-memory cache          *)
(* consistent": when nothing is in flight, blocklist and row agree.        *)
AgreeWhenQuiet == Quiet => (blocked <=> row = "suspended")

(***************************************************************************)
(* Liveness.  The sender keeps sending, calls and timers run, and a server *)
(* that fails does not fail for ever.                                      *)
(***************************************************************************)
Fairness ==
  /\ \A c \in Call :
       /\ WF_vars(\E r \in Replica : Begin(c, r, "decide", "none"))
       /\ SF_vars(IsSuspended(c)) /\ SF_vars(Read(c)) /\ SF_vars(Heal(c))
       /\ WF_vars(Lookup(c)) /\ WF_vars(Fill(c)) /\ WF_vars(RateCheck(c))
       /\ WF_vars(Evaluate(c)) /\ WF_vars(Sadd(c)) /\ WF_vars(Srem(c))
       /\ WF_vars(Forget(c)) /\ WF_vars(Write(c))
  /\ \A r \in Replica :
       /\ WF_vars(Age(r)) /\ WF_vars(ReloadRead(r))
       /\ \A b \in BOOLEAN : WF_vars(ReloadApply(r, b))
  /\ WF_vars(\E t \in tasks : LazyCreate(t) \/ Promote(t))
  /\ WF_vars(\E t \in tasks : Finish(t))

FairSpec == Spec /\ Fairness

(* A suspension that only reached the database (Redis was down, or the     *)
(* status was edited) takes effect: as long as the sender sends, it ends   *)
(* up on the blocklist, unless the suspension is lifted first.             *)
RecordedSuspensionTakesEffect ==
  row = "suspended" ~> (blocked \/ row # "suspended")
=============================================================================
