----------------------------- MODULE ConfigCache -----------------------------
(***************************************************************************)
(* What a sender may send: the tables policy_tier, policy_domain and       *)
(* policy_sender, the API that edits them, and one replica's               *)
(* ConfigCacheService, which resolves a sender's limits from a snapshot of *)
(* tiers and domains and from its LRU of sender rows.  Other replicas      *)
(* appear as writers of the tables.  One domain and one sender of it.      *)
(*                                                                         *)
(* Every query is a step of its own: it is answered with what the tables   *)
(* hold then, and the code behind its await runs later, with that answer.  *)
(* The blocklist, and who writes a status when, are Suspension's subject.  *)
(***************************************************************************)
EXTENDS Integers, FiniteSets, Sequences, TLC

CONSTANTS
  TierId,        \* autoincrement ids, 1..n
  TierName,      \* names a tier may have
  WarmupTier, DefaultTier,  \* WARMUP_TIER, DEFAULT_TIER
  Cap,           \* PER_MESSAGE_RCPT_CAP
  Limit,         \* values of a limit; 0 is "no limit"
  Null,          \* a column without a value
  NoRow,         \* no such row
  TIERS,         \* the tiers of seed.ts
  FirstRows,     \* what the domain's and the sender's row may be at first
  TierEdits, DomainEdits, SenderEdits,  \* request bodies of the admin
  Faults,        \* which faults happen: "db", "crash"
  KeepsDefault,  \* nobody deletes or renames the default tier
  MaxCalls, MaxReloads, MaxTasks,  \* bounds: how many are in flight
  MaxEdits,      \* bound: writes of the admin
  MaxFailures    \* bound: failed queries and restarts

Field == {"perMin", "perHour", "maxRcptMsg"}
DomainField == {"perHour"}             \* what a domain may override
SenderField == {"perMin", "perHour"}   \* what a sender may override

TierRow == [name: TierName, perMin: Limit, perHour: Limit, maxRcptMsg: Limit]
DomainRow == [tierId: TierId \cup {Null}, enabled: BOOLEAN, perHour: Limit \cup {Null}]

(* `ripe` once more than WARMUP_DAYS have passed since firstSeen.          *)
SenderRow == [tierId: TierId \cup {Null}, status: {"active", "warmup", "suspended"},
              ripe: BOOLEAN, perMin: Limit \cup {Null}, perHour: Limit \cup {Null}]

ASSUME ConfigAssumption ==
  /\ TierId = 1..Cardinality(TierId) /\ Cardinality(TierId) \in Nat
  /\ {WarmupTier, DefaultTier} \subseteq TierName
  /\ Limit \subseteq Nat /\ 0 \in Limit /\ Cap \in Nat /\ Null \notin Limit \cup TierId \cup {Cap}
  /\ NoRow \notin TierRow \cup DomainRow \cup SenderRow
  /\ FirstRows \subseteq (DomainRow \cup {NoRow}) \X (SenderRow \cup {NoRow})
  /\ {MaxCalls, MaxReloads, MaxTasks, MaxEdits, MaxFailures} \subseteq Nat

(* The seed names each tier once, the default among them; class-validator  *)
(* lets no request through that would not make a row.                      *)
ASSUME SeedAssumption ==
  /\ TIERS \in Seq(TierRow) /\ Len(TIERS) \in TierId
  /\ \A i, j \in DOMAIN TIERS : TIERS[i].name = TIERS[j].name => i = j
  /\ \E i \in DOMAIN TIERS : TIERS[i].name = DefaultTier
ASSUME EditAssumption ==
  /\ TierEdits \subseteq TierRow
  /\ \A dto \in DomainEdits, row \in DomainRow : dto @@ row \in DomainRow
  /\ \A dto \in SenderEdits, row \in SenderRow : dto @@ row \in SenderRow

-----------------------------------------------------------------------------
(***************************************************************************)
(* resolve() and domainLimits(), from a sender's row (NoRow: not known), a *)
(* domain's row and a table of tiers.                                      *)
(***************************************************************************)
Named(ts, name) == {i \in TierId : ts[i] # NoRow /\ ts[i].name = name}

GetTier(ts, name) ==
  IF Named(ts, name) = {} THEN NoRow ELSE ts[CHOOSE i \in Named(ts, name) : TRUE]

BuiltIn == [f \in Field |-> IF f = "maxRcptMsg" THEN Cap ELSE 0]

(* Mutant: no fall back on the default tier.                               *)
FromTierOnly(ts, name) ==
  LET t == GetTier(ts, name) IN [f \in Field |-> IF t = NoRow THEN BuiltIn[f] ELSE t[f]]

FromTier(ts, name) ==
  LET t == IF GetTier(ts, name) # NoRow THEN GetTier(ts, name) ELSE GetTier(ts, DefaultTier)
  IN [f \in Field |-> IF t = NoRow THEN BuiltIn[f] ELSE t[f]]

(* `row.tierId && tiersById.get(row.tierId)?.name`, for either row.        *)
Assigned(row, ts) == row # NoRow /\ row.tierId # Null /\ ts[row.tierId] # NoRow

StatusOf(s) == IF s.status = "warmup" /\ s.ripe THEN "active" ELSE s.status

BaseTier(s, d, ts) ==
  CASE Assigned(s, ts) -> ts[s.tierId].name
    [] ~Assigned(s, ts) /\ Assigned(d, ts) -> ts[d.tierId].name
    [] OTHER -> IF StatusOf(s) = "warmup" THEN WarmupTier ELSE DefaultTier

Overridden(lim, row, fields) ==
  [f \in Field |-> IF row # NoRow /\ f \in fields /\ row[f] # Null THEN row[f] ELSE lim[f]]

Blocked(s, d) == s.status = "suspended" \/ (d # NoRow /\ ~d.enabled)

(* Mutant: the domain's limits are applied last.                           *)
LimitsDomainLast(s, d, ts) ==
  Overridden(Overridden(FromTier(ts, BaseTier(s, d, ts)), s, SenderField), d, DomainField)

Limits(s, d, ts) ==
  Overridden(Overridden(FromTier(ts, BaseTier(s, d, ts)), d, DomainField), s, SenderField)

Resolve(s, d, ts) ==
  IF s = NoRow THEN [status |-> "warmup", lim |-> FromTier(ts, WarmupTier)]
  ELSE IF Blocked(s, d) THEN [status |-> "suspended", lim |-> FromTier(ts, DefaultTier)]
  ELSE [status |-> StatusOf(s), lim |-> Limits(s, d, ts)]

(* domainLimits(): the caps of the domain scope; 0 is "no cap".            *)
DomainLimits(d) == Overridden([f \in Field |-> 0], d, DomainField)

(* Mutant: senders with a tier of their own stay in warm-up.               *)
GraduatesWithoutTier(s, d) ==
  s # NoRow /\ ~Blocked(s, d) /\ s.status = "warmup" /\ s.ripe /\ s.tierId = Null

(* resolve() of a warm-up row that is old enough starts a promotion.       *)
Graduates(s, d) == s # NoRow /\ ~Blocked(s, d) /\ s.status = "warmup" /\ s.ripe

-----------------------------------------------------------------------------
VARIABLES
  tierT, domainT, senderT,  \* the tables
  nextId,    \* autoincrement of policy_tier
  tiers,     \* the replica: tiersById, tiersByName
  domain,    \* its entry of `domains`
  lru,       \* its entry of senderLru
  phase,     \* "starting": before onModuleInit() is through; "empty": its
             \* reload failed and none has succeeded since; "loaded"
  reloads,   \* what unfinished reloadGlobal() calls have read so far
  calls,     \* getSender() calls at findUnique(): the hit, then the answer
  tasks,     \* upserts and promotions that nobody awaits
  edits,     \* writes of the admin so far
  failures   \* failed queries and restarts so far

tables == <<tierT, domainT, senderT, nextId>>
snapshot == <<tiers, domain, phase, reloads>>
bounds == <<edits, failures>>
vars == <<tables, snapshot, lru, calls, tasks, bounds>>

Tiers == [TierId -> TierRow \cup {NoRow}]
NoTiers == [i \in TierId |-> NoRow]

(* `fresh` while younger than SENDER_TTL_MS.  A fresh entry may be NoRow,  *)
(* "known-absent"; a stale one that is NoRow is as good as none.           *)
Entry == [row: SenderRow \cup {NoRow}, fresh: BOOLEAN]
NoEntry == [row |-> NoRow, fresh |-> FALSE]

(* The answers of the two queries, << >> while there is none.              *)
NotLoading == [tiers |-> << >>, domain |-> << >>]

TypeOK ==
  /\ tierT \in Tiers /\ domainT \in DomainRow \cup {NoRow} /\ senderT \in SenderRow \cup {NoRow}
  /\ nextId \in Nat
  /\ tiers \in Tiers /\ domain \in DomainRow \cup {NoRow}
  /\ lru \in Entry /\ phase \in {"starting", "empty", "loaded"}
  /\ reloads \subseteq [tiers: Seq(Tiers), domain: Seq(DomainRow \cup {NoRow})]
  /\ calls \subseteq [row: SenderRow \cup {NoRow}, answered: BOOLEAN]
  /\ tasks \subseteq [kind: {"create", "created", "promote", "promoted"}, row: SenderRow \cup {NoRow}]
  /\ edits \in 0..MaxEdits /\ failures \in 0..MaxFailures

Init ==
  /\ tierT = [i \in TierId |-> IF i \in DOMAIN TIERS THEN TIERS[i] ELSE NoRow]
  /\ nextId = Len(TIERS) + 1
  /\ \E rows \in FirstRows : domainT = rows[1] /\ senderT = rows[2]
  /\ tiers = NoTiers /\ domain = NoRow /\ lru = NoEntry
  /\ phase = "starting" /\ reloads = {} /\ calls = {} /\ tasks = {}
  /\ edits = 0 /\ failures = 0

Edited == edits < MaxEdits /\ edits' = edits + 1 /\ UNCHANGED failures
Failed == failures < MaxFailures /\ failures' = failures + 1 /\ UNCHANGED edits

-----------------------------------------------------------------------------
(***************************************************************************)
(* The admin's writes, through any replica.  Each publishes a reload       *)
(* (a sender's deletion does not), which may be lost or late.  Foreign     *)
(* keys refuse a tier that does not exist, a unique index a name in use.   *)
(***************************************************************************)
Exists(ref) == ref \in {Null} \cup {i \in TierId : tierT[i] # NoRow}
Kept(i) == KeepsDefault /\ tierT[i].name = DefaultTier

CreateTier(dto) ==
  /\ Edited /\ nextId \in TierId
  /\ Named(tierT, dto.name) = {}
  /\ tierT' = [tierT EXCEPT ![nextId] = dto]
  /\ nextId' = nextId + 1
  /\ UNCHANGED <<domainT, senderT, snapshot, lru, calls, tasks>>

UpdateTier(i, dto) ==
  /\ Edited /\ tierT[i] # NoRow
  /\ Named(tierT, dto.name) \subseteq {i}
  /\ Kept(i) => dto.name = DefaultTier
  /\ tierT' = [tierT EXCEPT ![i] = dto]
  /\ UNCHANGED <<domainT, senderT, nextId, snapshot, lru, calls, tasks>>

(* onDelete: SetNull, of domains and of senders.                           *)
Unassigned(row, i) == IF row # NoRow /\ row.tierId = i THEN [row EXCEPT !.tierId = Null] ELSE row

DeleteTier(i) ==
  /\ Edited /\ tierT[i] # NoRow /\ ~Kept(i)
  /\ tierT' = [tierT EXCEPT ![i] = NoRow]
  /\ domainT' = Unassigned(domainT, i) /\ senderT' = Unassigned(senderT, i)
  /\ UNCHANGED <<nextId, snapshot, lru, calls, tasks>>

(* An edit names the columns it sets; the others keep their values, or get *)
(* the schema's defaults.  `enabled` of a domain is always set: DomainDto. *)
WriteDomain(row) ==
  /\ Edited /\ row # domainT
  /\ row # NoRow => Exists(row.tierId)
  /\ domainT' = row
  /\ UNCHANGED <<tierT, senderT, nextId, snapshot, lru, calls, tasks>>

NewDomain == [tierId |-> Null, enabled |-> TRUE, perHour |-> Null]
CreateDomain(dto) == domainT = NoRow /\ WriteDomain(dto @@ NewDomain)
UpdateDomain(dto) == domainT # NoRow /\ WriteDomain(dto @@ domainT)
DeleteDomain == domainT # NoRow /\ WriteDomain(NoRow)

(* The controller then drops its replica's entry: see Forget.              *)
WriteSender(row) ==
  /\ Edited /\ row # senderT
  /\ row # NoRow => Exists(row.tierId)
  /\ senderT' = row
  /\ UNCHANGED <<tierT, domainT, nextId, snapshot, lru, calls, tasks>>

NewSender == [tierId |-> Null, status |-> "warmup", ripe |-> FALSE, perMin |-> Null, perHour |-> Null]
CreateSender(dto) ==
  WriteSender(IF senderT # NoRow THEN dto @@ senderT
              ELSE dto @@ [NewSender EXCEPT !.status = "active"])
UpdateSender(dto) == senderT # NoRow /\ WriteSender(dto @@ senderT)
DeleteSender == senderT # NoRow /\ WriteSender(NoRow)

(* seed.ts, when any container starts: what is missing, and no more.       *)
Seed(t) ==
  /\ nextId \in TierId /\ Named(tierT, t.name) = {}
  /\ tierT' = [tierT EXCEPT ![nextId] = t]
  /\ nextId' = nextId + 1
  /\ UNCHANGED <<domainT, senderT, snapshot, lru, calls, tasks, bounds>>

(* The sender writes mail through another replica as well.                 *)
Elsewhere ==
  /\ \/ senderT = NoRow /\ senderT' = NewSender
     \/ senderT # NoRow /\ Graduates(senderT, domainT) /\ senderT' = [senderT EXCEPT !.status = "active"]
  /\ UNCHANGED <<tierT, domainT, nextId, snapshot, lru, calls, tasks, bounds>>

(* WARMUP_DAYS pass for the row and for every copy of it.                  *)
Aged(row) == IF row = NoRow THEN NoRow ELSE [row EXCEPT !.ripe = TRUE]

Ripen ==
  /\ senderT # NoRow /\ ~senderT.ripe
  /\ senderT' = Aged(senderT)
  /\ lru' = [lru EXCEPT !.row = Aged(@)]
  /\ calls' = {[c EXCEPT !.row = Aged(@)] : c \in calls}
  /\ tasks' = {[t EXCEPT !.row = Aged(@)] : t \in tasks}
  /\ UNCHANGED <<tierT, domainT, nextId, snapshot, bounds>>

-----------------------------------------------------------------------------
(***************************************************************************)
(* reloadGlobal(): at the start, every 30 s, and on cfg:reload.  Its two   *)
(* queries are sent together and answered in either order.                 *)
(***************************************************************************)
Loading == reloads \cup {NotLoading}

Reading(x, read) ==
  /\ reloads' = (reloads \ {x}) \cup {read}
  /\ Cardinality(reloads') <= MaxReloads
  /\ UNCHANGED <<tables, tiers, domain, phase, lru, calls, tasks, bounds>>

ReadTiers(x) == x.tiers = << >> /\ Reading(x, [x EXCEPT !.tiers = <<tierT>>])
ReadDomains(x) == x.domain = << >> /\ Reading(x, [x EXCEPT !.domain = <<domainT>>])

(* Mutant: the maps are added to, and keep what was deleted.               *)
ReloadAdds(x) ==
  /\ x.tiers # << >> /\ x.domain # << >>
  /\ tiers' = [i \in TierId |-> IF x.tiers[1][i] # NoRow THEN x.tiers[1][i] ELSE tiers[i]]
  /\ domain' = IF x.domain[1] # NoRow THEN x.domain[1] ELSE domain
  /\ lru' = NoEntry /\ phase' = "loaded"
  /\ reloads' = reloads \ {x}
  /\ UNCHANGED <<tables, calls, tasks, bounds>>

Reload(x) ==
  /\ x.tiers # << >> /\ x.domain # << >>
  /\ tiers' = x.tiers[1] /\ domain' = x.domain[1]
  /\ lru' = NoEntry /\ phase' = "loaded"
  /\ reloads' = reloads \ {x}
  /\ UNCHANGED <<tables, calls, tasks, bounds>>

ReloadFails(x) ==
  /\ "db" \in Faults /\ Failed
  /\ reloads' = reloads \ {x}
  /\ phase' = IF phase = "starting" THEN "empty" ELSE phase
  /\ UNCHANGED <<tables, tiers, domain, lru, calls, tasks>>

-----------------------------------------------------------------------------
(***************************************************************************)
(* resolve(), whoever calls it: decide() or the dashboard.                 *)
(***************************************************************************)
(* After getSender(), which leaves the cache at `entry`: a sender without  *)
(* a row becomes known-absent and is created, a ripe one promoted.         *)
Resolved(row, entry) ==
  /\ lru' = IF row = NoRow THEN [row |-> NoRow, fresh |-> TRUE] ELSE entry
  /\ tasks' = tasks \cup
       (IF row = NoRow THEN {[kind |-> "create", row |-> NoRow]}
        ELSE IF Graduates(row, domain) THEN {[kind |-> "promote", row |-> NoRow]} ELSE {})
  /\ Cardinality(tasks') <= MaxTasks

Lookup ==
  /\ phase # "starting"
  /\ \/ lru.fresh /\ Resolved(lru.row, lru) /\ UNCHANGED calls
     \/ /\ ~lru.fresh
        /\ calls' = calls \cup {[row |-> lru.row, answered |-> FALSE]}
        /\ Cardinality(calls') <= MaxCalls
        /\ UNCHANGED <<lru, tasks>>
  /\ UNCHANGED <<tables, snapshot, bounds>>

Read(c) ==
  /\ ~c.answered
  /\ calls' = (calls \ {c}) \cup {[row |-> senderT, answered |-> TRUE]}
  /\ UNCHANGED <<tables, snapshot, lru, tasks, bounds>>

Fill(c) ==
  /\ c.answered
  /\ Resolved(c.row, [row |-> c.row, fresh |-> TRUE])
  /\ calls' = calls \ {c}
  /\ UNCHANGED <<tables, snapshot, bounds>>

(* "fall back to stale entry if any, else treat as absent"                 *)
ReadFails(c) ==
  /\ "db" \in Faults /\ Failed
  /\ ~c.answered
  /\ Resolved(c.row, lru)
  /\ calls' = calls \ {c}
  /\ UNCHANGED <<tables, snapshot>>

Becomes(t, kind, row) == tasks' = (tasks \ {t}) \cup {[kind |-> kind, row |-> row]}

LazyCreate(t) ==
  /\ t.kind = "create"
  /\ senderT' = IF senderT = NoRow THEN NewSender ELSE senderT
  /\ Becomes(t, "created", senderT')
  /\ UNCHANGED <<tierT, domainT, nextId, snapshot, lru, calls, bounds>>

Promote(t) ==
  /\ t.kind = "promote"
  /\ IF senderT = NoRow THEN tasks' = tasks \ {t} /\ UNCHANGED senderT
     ELSE senderT' = [senderT EXCEPT !.status = "active"] /\ Becomes(t, "promoted", NoRow)
  /\ UNCHANGED <<tierT, domainT, nextId, snapshot, lru, calls, bounds>>

(* The .then() of either.                                                  *)
Finish(t) ==
  /\ \/ t.kind = "created" /\ lru' = [row |-> t.row, fresh |-> TRUE]
     \/ t.kind = "promoted" /\ lru' = NoEntry
  /\ tasks' = tasks \ {t}
  /\ UNCHANGED <<tables, snapshot, calls, bounds>>

TaskFails(t) ==
  /\ "db" \in Faults /\ Failed
  /\ t.kind \in {"create", "promote"}
  /\ tasks' = tasks \ {t}
  /\ UNCHANGED <<tables, snapshot, lru, calls>>

(* SENDER_TTL_MS passes.                                                   *)
Age ==
  /\ lru.fresh
  /\ lru' = [lru EXCEPT !.fresh = FALSE]
  /\ UNCHANGED <<tables, snapshot, calls, tasks, bounds>>

(* invalidateSender(), or SENDER_MAX other senders push the entry out.     *)
Forget ==
  /\ lru # NoEntry
  /\ lru' = NoEntry
  /\ UNCHANGED <<tables, snapshot, calls, tasks, bounds>>

Crash ==
  /\ "crash" \in Faults /\ Failed /\ phase # "starting"
  /\ tiers' = NoTiers /\ domain' = NoRow /\ lru' = NoEntry
  /\ phase' = "starting" /\ reloads' = {} /\ calls' = {} /\ tasks' = {}
  /\ UNCHANGED tables

Next ==
  \/ \E dto \in TierEdits : CreateTier(dto) \/ \E i \in TierId : UpdateTier(i, dto)
  \/ \E i \in TierId : DeleteTier(i)
  \/ \E dto \in DomainEdits : CreateDomain(dto) \/ UpdateDomain(dto)
  \/ \E dto \in SenderEdits : CreateSender(dto) \/ UpdateSender(dto)
  \/ DeleteDomain \/ DeleteSender
  \/ \E i \in DOMAIN TIERS : Seed(TIERS[i])
  \/ Elsewhere \/ Ripen
  \/ \E x \in Loading : ReadTiers(x) \/ ReadDomains(x) \/ Reload(x) \/ ReloadFails(x)
  \/ Lookup \/ \E c \in calls : Read(c) \/ Fill(c) \/ ReadFails(c)
  \/ \E t \in tasks : LazyCreate(t) \/ Promote(t) \/ Finish(t) \/ TaskFails(t)
  \/ Age \/ Forget \/ Crash

Spec == Init /\ [][Next]_vars

(* The sender keeps sending, timers fire, and queries end.                 *)
Fairness ==
  /\ WF_vars(Lookup) /\ WF_vars(Age)
  /\ WF_vars(\E c \in calls : Read(c)) /\ WF_vars(\E c \in calls : Fill(c))
  /\ WF_vars(\E t \in tasks : LazyCreate(t) \/ Promote(t)) /\ WF_vars(\E t \in tasks : Finish(t))
  /\ WF_vars(\E x \in Loading : ReadTiers(x)) /\ WF_vars(\E x \in Loading : ReadDomains(x))
  /\ WF_vars(\E x \in reloads : Reload(x))

FairSpec == Spec /\ Fairness

-----------------------------------------------------------------------------
(* The rows that resolve() may be given next, whatever the database does.  *)
Usable == {lru.row} \cup {c.row : c \in calls}

(* Where a limit may come from, the first of them first; Null where there  *)
(* is nothing.  Each row is looked at by itself.                           *)
Sources(f, s, d, ts) ==
  LET of(row, fields) == IF row # NoRow /\ f \in fields THEN row[f] ELSE Null
      tierOf(row) == IF row # NoRow /\ row.tierId # Null THEN ts[row.tierId] ELSE NoRow
      byStatus == IF StatusOf(s) = "warmup" THEN WarmupTier ELSE DefaultTier
  IN <<of(s, SenderField), of(d, DomainField), of(tierOf(s), Field), of(tierOf(d), Field),
       of(GetTier(ts, byStatus), Field), of(GetTier(ts, DefaultTier), Field), BuiltIn[f]>>

(* "Resolution precedence: sender override > domain override > tier >      *)
(* built-in default": each limit of a known sender that is not blocked     *)
(* comes from the first source that has a value, also when snapshot and    *)
(* rows are of different times and name tiers that are gone.               *)
PrecedenceRespected ==
  \A s \in Usable \ {NoRow}, f \in Field : ~Blocked(s, domain) =>
    LET from == Sources(f, s, domain, tiers) IN
    \E k \in 1..7 : /\ Resolve(s, domain, tiers).lim[f] = from[k] /\ from[k] # Null
                    /\ \A j \in 1..(k - 1) : from[j] = Null

(* While there is a default tier, nobody ends up without a limit by        *)
(* accident: a limit of 0 is one that a tier, the domain or the sender     *)
(* states, whatever was deleted or read at different times.                *)
DefaultStillLimits ==
  KeepsDefault /\ phase = "loaded" =>
    \A s \in Usable, f \in Field :
      Resolve(s, domain, tiers).lim[f] = 0 =>
        \/ \E i \in TierId : tiers[i] # NoRow /\ tiers[i][f] = 0
        \/ f \in DomainField /\ domain # NoRow /\ domain[f] = 0
        \/ f \in SenderField /\ s # NoRow /\ s[f] = 0

(* Reloads overlap and mix rows of different times, fills arrive after the *)
(* invalidation, invalidations are lost: once the admin stops and failures *)
(* do, the replica comes to serve, for good, what the tables say.          *)
EditsTakeEffect ==
  <>[](/\ lru.fresh => Resolve(lru.row, domain, tiers) = Resolve(senderT, domainT, tierT)
       /\ DomainLimits(domain) = DomainLimits(domainT))

(* A sender that keeps sending graduates from warm-up once it is old       *)
(* enough, unless its domain is disabled.                                  *)
InWarmup == senderT # NoRow /\ senderT.status = "warmup" /\ senderT.ripe
WarmupEnds == InWarmup ~> (~InWarmup \/ (domainT # NoRow /\ ~domainT.enabled))
=============================================================================
