-------------------------- MODULE ConfigCacheProofs --------------------------
(***************************************************************************)
(* Theorems about ConfigCache, for any tiers, limits, edits and failures.  *)
(***************************************************************************)
EXTENDS ConfigCache, SequenceTheorems, TLAPS

(* A table of tiers: one of a name, and the default among them as long as  *)
(* the admin keeps it.                                                     *)
Unique(ts) ==
  \A i, j \in TierId : ts[i] # NoRow /\ ts[j] # NoRow /\ ts[i].name = ts[j].name => i = j
HasDefault(ts) == KeepsDefault => \E i \in TierId : ts[i] # NoRow /\ ts[i].name = DefaultTier
Good(ts) == ts \in Tiers /\ Unique(ts) /\ HasDefault(ts)

TablesOK ==
  /\ Good(tierT) /\ nextId \in Nat /\ \A i \in TierId : i >= nextId => tierT[i] = NoRow
  /\ domainT \in DomainRow \cup {NoRow} /\ senderT \in SenderRow \cup {NoRow}

(* A snapshot is a table as it was at some time, or empty.                 *)
SnapshotOK ==
  /\ tiers \in Tiers /\ Unique(tiers) /\ domain \in DomainRow \cup {NoRow}
  /\ phase \in {"starting", "empty", "loaded"}
  /\ phase = "loaded" => Good(tiers)
  /\ reloads \subseteq [tiers: Seq(Tiers), domain: Seq(DomainRow \cup {NoRow})]
  /\ \A x \in reloads : x.tiers # << >> => Good(x.tiers[1])

SenderOrNone == SenderRow \cup {NoRow}
Task == [kind: {"create", "created", "promote", "promoted"}, row: SenderOrNone]
CacheOK ==
  /\ lru \in Entry
  /\ calls \subseteq [row: SenderOrNone, answered: BOOLEAN]
  /\ tasks \subseteq Task
BoundsOK == edits \in 0..MaxEdits /\ failures \in 0..MaxFailures

ConfigInv == TablesOK /\ SnapshotOK /\ CacheOK /\ BoundsOK

-----------------------------------------------------------------------------
LEMMA TierIds == \A i \in TierId : i \in Nat /\ i >= 1
BY ConfigAssumption

LEMMA Rows ==
  /\ NewDomain \in DomainRow /\ NewSender \in SenderRow
  /\ [NewSender EXCEPT !.status = "active"] \in SenderRow
  /\ NoRow \notin TierRow /\ NoRow \notin DomainRow /\ NoRow \notin SenderRow
BY ConfigAssumption DEF NewDomain, NewSender, DomainRow, SenderRow

LEMMA Counted ==
  ASSUME BoundsOK, Edited \/ Failed
  PROVE  BoundsOK'
BY ConfigAssumption DEF BoundsOK, Edited, Failed

(* A tier is added under a name and an id that are free.                   *)
LEMMA TierAdded ==
  ASSUME TablesOK, NEW dto \in TierRow, nextId \in TierId, Named(tierT, dto.name) = {},
         tierT' = [tierT EXCEPT ![nextId] = dto], nextId' = nextId + 1,
         UNCHANGED <<domainT, senderT>>
  PROVE  TablesOK'
<1>1. /\ tierT \in Tiers /\ tierT' \in Tiers /\ tierT'[nextId] = dto
      /\ tierT[nextId] = NoRow /\ dto # NoRow
      /\ \A i \in TierId \ {nextId} : tierT'[i] = tierT[i]
  BY TierIds, Rows DEF TablesOK, Good, Tiers
<1>2. \A i \in TierId : tierT[i] # NoRow => tierT[i].name # dto.name
  BY DEF Named
<1>3. Unique(tierT')
  BY <1>1, <1>2 DEF TablesOK, Good, Unique
<1>4. HasDefault(tierT')
  BY <1>1 DEF TablesOK, Good, HasDefault
<1>5. nextId' \in Nat /\ \A i \in TierId : i >= nextId' => tierT'[i] = NoRow
  <2>1. ASSUME NEW i \in TierId, i >= nextId + 1 PROVE i # nextId /\ tierT[i] = NoRow
    BY <2>1, TierIds DEF TablesOK
  <2> QED
    BY <1>1, <2>1 DEF TablesOK
<1> QED
  BY <1>1, <1>3, <1>4, <1>5 DEF TablesOK, Good

LEMMA TierChanged ==
  ASSUME TablesOK, NEW i \in TierId, NEW dto \in TierRow, UpdateTier(i, dto)
  PROVE  TablesOK'
<1>1. /\ tierT \in Tiers /\ tierT' \in Tiers /\ tierT'[i] = dto /\ tierT[i] # NoRow /\ dto # NoRow
      /\ \A j \in TierId \ {i} : tierT'[j] = tierT[j]
      /\ Named(tierT, dto.name) \subseteq {i} /\ (Kept(i) => dto.name = DefaultTier)
      /\ UNCHANGED <<domainT, senderT, nextId>>
  BY Rows DEF TablesOK, Good, Tiers, UpdateTier
<1>2. Unique(tierT')
  BY <1>1 DEF TablesOK, Good, Unique, Named
<1>3. HasDefault(tierT')
  BY <1>1 DEF TablesOK, Good, HasDefault, Kept
<1> QED
  BY <1>1, <1>2, <1>3 DEF TablesOK, Good

LEMMA TierDropped ==
  ASSUME TablesOK, NEW i \in TierId, DeleteTier(i)
  PROVE  TablesOK'
<1>1. /\ tierT \in Tiers /\ tierT' \in Tiers /\ tierT'[i] = NoRow /\ tierT[i] # NoRow /\ ~Kept(i)
      /\ \A j \in TierId \ {i} : tierT'[j] = tierT[j]
      /\ UNCHANGED nextId
  BY DEF TablesOK, Good, Tiers, DeleteTier
<1>2. Unique(tierT') /\ HasDefault(tierT')
  BY <1>1 DEF TablesOK, Good, Unique, HasDefault, Kept
<1>3. domainT' \in DomainRow \cup {NoRow} /\ senderT' \in SenderRow \cup {NoRow}
  BY DEF TablesOK, DeleteTier, Unassigned, DomainRow, SenderRow
<1> QED
  BY <1>1, <1>2, <1>3 DEF TablesOK, Good

LEMMA RowWritten ==
  ASSUME TablesOK, NEW row,
         \/ row \in DomainRow \cup {NoRow} /\ WriteDomain(row)
         \/ row \in SenderRow \cup {NoRow} /\ WriteSender(row)
  PROVE  TablesOK'
BY DEF TablesOK, WriteDomain, WriteSender

LEMMA AdminKeeps ==
  ASSUME ConfigInv,
         \/ \E dto \in TierEdits : CreateTier(dto) \/ \E i \in TierId : UpdateTier(i, dto)
         \/ \E i \in TierId : DeleteTier(i)
         \/ \E dto \in DomainEdits : CreateDomain(dto) \/ UpdateDomain(dto)
         \/ \E dto \in SenderEdits : CreateSender(dto) \/ UpdateSender(dto)
         \/ DeleteDomain \/ DeleteSender
  PROVE  ConfigInv'
<1>1. Edited /\ UNCHANGED <<snapshot, lru, calls, tasks>>
  BY DEF CreateTier, UpdateTier, DeleteTier, CreateDomain, UpdateDomain, CreateSender,
     UpdateSender, DeleteDomain, DeleteSender, WriteDomain, WriteSender
<1>2. TablesOK
  BY DEF ConfigInv
<1>3. ASSUME NEW dto \in TierEdits, CreateTier(dto) PROVE TablesOK'
  BY <1>2, <1>3, EditAssumption, TierAdded DEF CreateTier
<1>4. ASSUME NEW dto \in TierEdits, NEW i \in TierId, UpdateTier(i, dto) PROVE TablesOK'
  BY <1>2, <1>4, EditAssumption, TierChanged
<1>5. ASSUME NEW i \in TierId, DeleteTier(i) PROVE TablesOK'
  BY <1>2, <1>5, TierDropped
<1>6. ASSUME NEW dto \in DomainEdits, CreateDomain(dto) PROVE TablesOK'
  BY <1>2, <1>6, EditAssumption, Rows, RowWritten DEF CreateDomain
<1>7. ASSUME NEW dto \in DomainEdits, UpdateDomain(dto) PROVE TablesOK'
  BY <1>2, <1>7, EditAssumption, RowWritten DEF UpdateDomain, TablesOK
<1>8. ASSUME NEW dto \in SenderEdits, CreateSender(dto) PROVE TablesOK'
  <2>1. CASE senderT # NoRow
    BY <1>2, <1>8, <2>1, EditAssumption, RowWritten DEF CreateSender, TablesOK
  <2>2. CASE senderT = NoRow
    BY <1>2, <1>8, <2>2, EditAssumption, Rows, RowWritten DEF CreateSender
  <2> QED
    BY <2>1, <2>2
<1>9. ASSUME NEW dto \in SenderEdits, UpdateSender(dto) PROVE TablesOK'
  <2>1. senderT \in SenderRow /\ WriteSender(dto @@ senderT)
    BY <1>2, <1>9 DEF UpdateSender, TablesOK
  <2>2. dto @@ senderT \in SenderRow
    BY <1>9, <2>1, EditAssumption
  <2> QED
    BY <1>2, <2>1, <2>2, RowWritten
<1>10. ASSUME DeleteDomain \/ DeleteSender PROVE TablesOK'
  BY <1>2, <1>10 DEF DeleteDomain, DeleteSender, WriteDomain, WriteSender, TablesOK
<1>11. TablesOK'
  <2>1. CASE \E dto \in TierEdits : CreateTier(dto) \/ \E i \in TierId : UpdateTier(i, dto)
    BY <1>3, <1>4, <2>1
  <2>2. CASE \E i \in TierId : DeleteTier(i)
    BY <1>5, <2>2
  <2>3. CASE \E dto \in DomainEdits : CreateDomain(dto) \/ UpdateDomain(dto)
    BY <1>6, <1>7, <2>3
  <2>4. CASE \E dto \in SenderEdits : CreateSender(dto) \/ UpdateSender(dto)
    BY <1>8, <1>9, <2>4
  <2> QED
    BY <1>10, <2>1, <2>2, <2>3, <2>4
<1> QED
  BY <1>1, <1>11, Counted
     DEF ConfigInv, SnapshotOK, CacheOK, snapshot, Good, HasDefault, Unique

(* What other containers and the passing of time do.                       *)
LEMMA OthersKeep ==
  ASSUME ConfigInv, (\E i \in DOMAIN TIERS : Seed(TIERS[i])) \/ Elsewhere \/ Ripen
  PROVE  ConfigInv'
<1>1. UNCHANGED <<snapshot, bounds>>
  BY DEF Seed, Elsewhere, Ripen
<1>2. TablesOK /\ CacheOK
  BY DEF ConfigInv
<1>3. SnapshotOK' /\ BoundsOK'
  BY <1>1 DEF ConfigInv, SnapshotOK, BoundsOK, snapshot, bounds, Good, HasDefault, Unique
<1>4. ASSUME NEW i \in DOMAIN TIERS, Seed(TIERS[i]) PROVE TablesOK' /\ CacheOK'
  <2>1. TIERS[i] \in TierRow
    BY SeedAssumption
  <2>2. UNCHANGED <<lru, calls, tasks>>
    BY <1>4 DEF Seed
  <2> QED
    BY <1>2, <1>4, <2>1, <2>2, TierAdded DEF Seed, CacheOK
<1>5. ASSUME Elsewhere PROVE TablesOK' /\ CacheOK'
  <2>1. senderT' \in SenderRow
    BY <1>2, <1>5, Rows DEF Elsewhere, TablesOK, SenderRow
  <2> QED
    BY <1>2, <1>5, <2>1 DEF Elsewhere, TablesOK, CacheOK
<1>6. ASSUME Ripen PROVE TablesOK' /\ CacheOK'
  <2>1. \A row \in SenderOrNone : Aged(row) \in SenderOrNone
    BY DEF Aged, SenderOrNone, SenderRow
  <2>2. senderT' \in SenderOrNone /\ lru'.row \in SenderOrNone /\ lru' \in Entry
    BY <1>2, <1>6, <2>1 DEF Ripen, TablesOK, CacheOK, Entry, SenderOrNone
  <2>3. calls' \subseteq [row: SenderOrNone, answered: BOOLEAN]
    <3>1. ASSUME NEW c \in calls
          PROVE  [c EXCEPT !.row = Aged(@)] \in [row: SenderOrNone, answered: BOOLEAN]
      <4>1. c \in [row: SenderOrNone, answered: BOOLEAN]
        BY <1>2, <3>1 DEF CacheOK
      <4> QED
        BY <2>1, <4>1
    <3> QED
      BY <1>6, <3>1 DEF Ripen
  <2>4. tasks' \subseteq Task
    <3>1. ASSUME NEW t \in tasks PROVE [t EXCEPT !.row = Aged(@)] \in Task
      <4>1. t \in Task
        BY <1>2, <3>1 DEF CacheOK
      <4> QED
        BY <2>1, <4>1 DEF Task
    <3> QED
      BY <1>6, <3>1 DEF Ripen
  <2> QED
    BY <1>2, <1>6, <2>2, <2>3, <2>4 DEF Ripen, TablesOK, CacheOK, SenderOrNone
<1> QED
  BY <1>3, <1>4, <1>5, <1>6 DEF ConfigInv

(* A reload reads the tables as they are, and installs what it has read.   *)
LEMMA ReloadKeeps ==
  ASSUME ConfigInv, NEW x \in Loading,
         ReadTiers(x) \/ ReadDomains(x) \/ Reload(x) \/ ReloadFails(x)
  PROVE  ConfigInv'
<1> DEFINE Answers == [tiers: Seq(Tiers), domain: Seq(DomainRow \cup {NoRow})]
<1>1. /\ TablesOK /\ SnapshotOK /\ CacheOK /\ BoundsOK
      /\ x \in Answers /\ (x.tiers # << >> => Good(x.tiers[1]))
  <2>1. CASE x \in reloads
    BY <2>1 DEF ConfigInv, SnapshotOK
  <2>2. CASE x = NotLoading
    <3>1. << >> \in Seq(Tiers) /\ << >> \in Seq(DomainRow \cup {NoRow})
      BY EmptySeq
    <3>2. NotLoading \in Answers /\ NotLoading.tiers = << >>
      BY <3>1 DEF NotLoading
    <3> QED
      BY <2>2, <3>2 DEF ConfigInv
  <2> QED
    BY <2>1, <2>2 DEF Loading
<1>2. UNCHANGED tables /\ TablesOK'
  <2>1. UNCHANGED tables
    BY DEF ReadTiers, ReadDomains, Reading, Reload, ReloadFails
  <2> QED
    BY <1>1, <2>1 DEF TablesOK, tables, Good, HasDefault, Unique
<1>3. ASSUME NEW read, Reading(x, read), read \in Answers, read.tiers # << >> => Good(read.tiers[1])
      PROVE  ConfigInv'
  <2>1. reloads' \subseteq Answers /\ \A y \in reloads' : y.tiers # << >> => Good(y.tiers[1])
    BY <1>1, <1>3 DEF Reading, SnapshotOK
  <2>2. SnapshotOK'
    BY <1>1, <1>3, <2>1 DEF Reading, SnapshotOK, Good, HasDefault, Unique
  <2>3. CacheOK' /\ BoundsOK'
    BY <1>1, <1>3 DEF Reading, CacheOK, BoundsOK, bounds
  <2> QED
    BY <1>2, <2>2, <2>3 DEF ConfigInv
<1>4. CASE ReadTiers(x)
  <2> DEFINE read == [x EXCEPT !.tiers = <<tierT>>]
  <2>1. <<tierT>> \in Seq(Tiers) /\ <<tierT>>[1] = tierT /\ Good(tierT)
    BY <1>1 DEF TablesOK, Good
  <2>2. read \in Answers /\ read.tiers = <<tierT>> /\ Reading(x, read)
    BY <1>1, <1>4, <2>1 DEF ReadTiers
  <2> HIDE DEF read
  <2> QED
    BY <1>3, <2>1, <2>2
<1>5. CASE ReadDomains(x)
  <2> DEFINE read == [x EXCEPT !.domain = <<domainT>>]
  <2>1. <<domainT>> \in Seq(DomainRow \cup {NoRow})
    BY <1>1 DEF TablesOK
  <2>2. read \in Answers /\ read.tiers = x.tiers /\ Reading(x, read)
    BY <1>1, <1>5, <2>1 DEF ReadDomains
  <2> HIDE DEF read
  <2> QED
    BY <1>1, <1>3, <2>2
<1>6. CASE Reload(x)
  <2>1. /\ Good(x.tiers[1]) /\ x.domain[1] \in DomainRow \cup {NoRow}
        /\ tiers' = x.tiers[1] /\ domain' = x.domain[1] /\ lru' = NoEntry /\ phase' = "loaded"
        /\ reloads' = reloads \ {x} /\ UNCHANGED <<calls, tasks, bounds>>
    BY <1>1, <1>6 DEF Reload
  <2>2. SnapshotOK'
    BY <1>1, <2>1 DEF SnapshotOK, Good, HasDefault, Unique
  <2>3. CacheOK' /\ BoundsOK'
    BY <1>1, <2>1 DEF CacheOK, BoundsOK, bounds, Entry, NoEntry, SenderOrNone
  <2> QED
    BY <1>2, <2>2, <2>3 DEF ConfigInv
<1>7. CASE ReloadFails(x)
  <2>1. /\ Failed /\ reloads' = reloads \ {x}
        /\ phase' = (IF phase = "starting" THEN "empty" ELSE phase)
        /\ UNCHANGED <<tiers, domain, lru, calls, tasks>>
    BY <1>7 DEF ReloadFails
  <2>2. SnapshotOK'
    BY <1>1, <2>1 DEF SnapshotOK, Good, HasDefault, Unique
  <2>3. CacheOK' /\ BoundsOK'
    BY <1>1, <2>1, Counted DEF CacheOK
  <2> QED
    BY <1>2, <2>2, <2>3 DEF ConfigInv
<1> QED
  BY <1>4, <1>5, <1>6, <1>7

(* resolve(), and the writes it leaves to promises.                        *)
LEMMA ResolvedKeeps ==
  ASSUME CacheOK, NEW row \in SenderOrNone, NEW entry \in Entry, Resolved(row, entry)
  PROVE  lru' \in Entry /\ tasks' \subseteq Task
BY DEF CacheOK, Resolved, Entry, Task, SenderOrNone

LEMMA LookupKeeps ==
  ASSUME ConfigInv, Lookup \/ \E c \in calls : Read(c) \/ Fill(c) \/ ReadFails(c)
  PROVE  ConfigInv'
<1>1. TablesOK /\ SnapshotOK /\ CacheOK /\ BoundsOK /\ UNCHANGED <<tables, snapshot>>
  BY DEF ConfigInv, Lookup, Read, Fill, ReadFails
<1>2. TablesOK' /\ SnapshotOK'
  BY <1>1 DEF TablesOK, SnapshotOK, tables, snapshot, Good, HasDefault, Unique
<1>3. lru.row \in SenderOrNone /\ lru \in Entry
  BY <1>1 DEF CacheOK, Entry, SenderOrNone
<1>4. CASE Lookup
  <2>1. UNCHANGED bounds
    BY <1>4 DEF Lookup
  <2>2. ASSUME Resolved(lru.row, lru), UNCHANGED calls PROVE CacheOK'
    BY <1>1, <1>3, <2>2, ResolvedKeeps DEF CacheOK
  <2>3. ASSUME calls' = calls \cup {[row |-> lru.row, answered |-> FALSE]}, UNCHANGED <<lru, tasks>>
        PROVE  CacheOK'
    <3>1. [row |-> lru.row, answered |-> FALSE] \in [row: SenderOrNone, answered: BOOLEAN]
      BY <1>3
    <3> QED
      BY <1>1, <2>3, <3>1 DEF CacheOK
  <2>4. CacheOK'
    BY <1>4, <2>2, <2>3 DEF Lookup
  <2> QED
    BY <1>1, <1>2, <2>1, <2>4 DEF ConfigInv, BoundsOK, bounds
<1>5. ASSUME NEW c \in calls, Read(c) PROVE ConfigInv'
  <2>1. /\ calls' = (calls \ {c}) \cup {[row |-> senderT, answered |-> TRUE]}
        /\ UNCHANGED <<lru, tasks, bounds>> /\ senderT \in SenderOrNone
    BY <1>1, <1>5 DEF Read, TablesOK, SenderOrNone
  <2>2. [row |-> senderT, answered |-> TRUE] \in [row: SenderOrNone, answered: BOOLEAN]
    BY <2>1
  <2>3. CacheOK'
    BY <1>1, <2>1, <2>2 DEF CacheOK
  <2> QED
    BY <1>1, <1>2, <2>1, <2>3 DEF ConfigInv, BoundsOK, bounds
<1>6. ASSUME NEW c \in calls, Fill(c) \/ ReadFails(c) PROVE ConfigInv'
  <2>1. c.row \in SenderOrNone /\ calls' = calls \ {c}
    BY <1>1, <1>6 DEF CacheOK, Fill, ReadFails
  <2>2. [row |-> c.row, fresh |-> TRUE] \in Entry
    BY <2>1 DEF Entry, SenderOrNone
  <2>3. Resolved(c.row, [row |-> c.row, fresh |-> TRUE]) \/ Resolved(c.row, lru)
    BY <1>6 DEF Fill, ReadFails
  <2>4. lru' \in Entry /\ tasks' \subseteq Task
    BY <1>1, <1>3, <2>1, <2>2, <2>3, ResolvedKeeps
  <2>5. BoundsOK'
    BY <1>1, <1>6, Counted DEF Fill, ReadFails, BoundsOK, bounds
  <2> QED
    BY <1>1, <1>2, <2>1, <2>4, <2>5 DEF ConfigInv, CacheOK
<1> QED
  BY <1>4, <1>5, <1>6

LEMMA TaskKeeps ==
  ASSUME ConfigInv, NEW t \in tasks, LazyCreate(t) \/ Promote(t) \/ Finish(t) \/ TaskFails(t)
  PROVE  ConfigInv'
<1>1. /\ TablesOK /\ SnapshotOK /\ CacheOK /\ BoundsOK
      /\ UNCHANGED <<tierT, domainT, nextId, snapshot, calls>> /\ t \in Task
  BY DEF ConfigInv, CacheOK, LazyCreate, Promote, Finish, TaskFails, tables
<1>2. SnapshotOK'
  BY <1>1 DEF SnapshotOK, snapshot, Good, HasDefault, Unique
<1>3. BoundsOK'
  BY <1>1, Counted DEF BoundsOK, bounds, LazyCreate, Promote, Finish, TaskFails
<1>4. senderT' \in SenderOrNone
  BY <1>1, Rows DEF TablesOK, LazyCreate, Promote, Finish, TaskFails, tables, SenderOrNone, SenderRow
<1>5. TablesOK'
  BY <1>1, <1>4 DEF TablesOK, SenderOrNone, Good, HasDefault, Unique
<1>6. tasks' \subseteq Task
  <2>1. CASE LazyCreate(t)
    BY <1>1, <1>4, <2>1 DEF CacheOK, LazyCreate, Becomes, Task
  <2>2. CASE Promote(t)
    BY <1>1, <2>2 DEF CacheOK, Promote, Becomes, Task, SenderOrNone
  <2>3. CASE Finish(t) \/ TaskFails(t)
    BY <1>1, <2>3 DEF CacheOK, Finish, TaskFails
  <2> QED
    BY <2>1, <2>2, <2>3
<1>7. lru' \in Entry
  <2>1. CASE LazyCreate(t) \/ Promote(t) \/ TaskFails(t)
    BY <1>1, <2>1 DEF CacheOK, LazyCreate, Promote, TaskFails
  <2>2. CASE Finish(t)
    <3>1. t.row \in SenderOrNone
      BY <1>1 DEF Task
    <3>2. NoEntry \in Entry /\ [row |-> t.row, fresh |-> TRUE] \in Entry
      BY <3>1 DEF Entry, NoEntry, SenderOrNone
    <3> QED
      BY <2>2, <3>2 DEF Finish
  <2> QED
    BY <2>1, <2>2
<1> QED
  BY <1>1, <1>2, <1>3, <1>5, <1>6, <1>7 DEF ConfigInv, CacheOK

LEMMA CacheLossKeeps ==
  ASSUME ConfigInv, Age \/ Forget \/ Crash
  PROVE  ConfigInv'
<1>1. TablesOK /\ SnapshotOK /\ CacheOK /\ BoundsOK /\ UNCHANGED tables
  BY DEF ConfigInv, Age, Forget, Crash
<1>2. TablesOK'
  BY <1>1 DEF TablesOK, tables, Good, HasDefault, Unique
<1>3. CASE Age \/ Forget
  <2>0. lru \in Entry /\ NoEntry \in Entry
    BY <1>1 DEF CacheOK, Entry, NoEntry
  <2>1. UNCHANGED <<snapshot, calls, tasks, bounds>> /\ lru' \in Entry
    BY <1>3, <2>0 DEF Age, Forget, Entry
  <2> QED
    BY <1>1, <1>2, <2>1 DEF ConfigInv, SnapshotOK, CacheOK, BoundsOK, snapshot, bounds, Good,
       HasDefault, Unique
<1>4. CASE Crash
  <2>1. SnapshotOK'
    BY <1>4 DEF Crash, SnapshotOK, NoTiers, Tiers, Unique, Good
  <2>2. CacheOK' /\ BoundsOK'
    BY <1>1, <1>4, Counted DEF Crash, CacheOK, Entry, NoEntry
  <2> QED
    BY <1>2, <2>1, <2>2 DEF ConfigInv
<1> QED
  BY <1>3, <1>4

LEMMA ConfigInductive == Spec => []ConfigInv
<1>1. Init => ConfigInv
  <2>1. SUFFICES ASSUME Init PROVE ConfigInv
    OBVIOUS
  <2>2. /\ tierT = [i \in TierId |-> IF i \in DOMAIN TIERS THEN TIERS[i] ELSE NoRow]
        /\ nextId = Len(TIERS) + 1 /\ TIERS \in Seq(TierRow) /\ Len(TIERS) \in TierId
        /\ DOMAIN TIERS = 1..Len(TIERS) /\ \A i \in DOMAIN TIERS : TIERS[i] \in TierRow
    BY <2>1, SeedAssumption DEF Init
  <2>3. Len(TIERS) \in Nat /\ DOMAIN TIERS \subseteq TierId
    BY <2>2, ConfigAssumption
  <2>4. tierT \in Tiers /\ Unique(tierT)
    BY <2>2, SeedAssumption DEF Tiers, Unique
  <2>5. HasDefault(tierT)
    <3>1. PICK i \in DOMAIN TIERS : TIERS[i].name = DefaultTier
      BY SeedAssumption
    <3>2. i \in TierId /\ tierT[i] = TIERS[i] /\ TIERS[i] # NoRow
      BY <2>2, <2>3, Rows
    <3> QED
      BY <3>1, <3>2 DEF HasDefault
  <2>6. nextId \in Nat /\ \A i \in TierId : i >= nextId => tierT[i] = NoRow
    BY <2>2, <2>3, TierIds
  <2>7. domainT \in DomainRow \cup {NoRow} /\ senderT \in SenderRow \cup {NoRow}
    BY <2>1, ConfigAssumption DEF Init
  <2>8. SnapshotOK
    BY <2>1 DEF Init, SnapshotOK, NoTiers, Tiers, Unique, Good
  <2>9. CacheOK /\ BoundsOK
    BY <2>1, ConfigAssumption DEF Init, CacheOK, BoundsOK, NoEntry, Entry
  <2> QED
    BY <2>4, <2>5, <2>6, <2>7, <2>8, <2>9 DEF ConfigInv, TablesOK, Good
<1>2. ConfigInv /\ [Next]_vars => ConfigInv'
  <2> SUFFICES ASSUME ConfigInv, [Next]_vars PROVE ConfigInv'
    OBVIOUS
  <2>1. CASE UNCHANGED vars
    BY <2>1 DEF ConfigInv, TablesOK, SnapshotOK, CacheOK, BoundsOK, vars, tables, snapshot, bounds,
       Good, HasDefault, Unique
  <2>2. CASE Next
    BY <2>2, AdminKeeps, OthersKeep, ReloadKeeps, LookupKeeps, TaskKeeps, CacheLossKeeps DEF Next
  <2> QED
    BY <2>1, <2>2
<1> QED
  BY <1>1, <1>2, PTL DEF Spec

(* The type invariant.                                                     *)
THEOREM TypeCorrect == Spec => []TypeOK
<1>1. ConfigInv => TypeOK
  BY DEF ConfigInv, TablesOK, SnapshotOK, CacheOK, BoundsOK, Good, Task, SenderOrNone, TypeOK
<1> QED
  BY <1>1, ConfigInductive, PTL

-----------------------------------------------------------------------------
(* Names are unique: a tier that is found by its name is the one.          *)
LEMMA TierByName ==
  ASSUME NEW ts \in Tiers, Unique(ts), NEW i \in TierId, ts[i] # NoRow
  PROVE  GetTier(ts, ts[i].name) = ts[i]
<1>1. Named(ts, ts[i].name) = {i}
  BY DEF Named, Unique
<1> QED
  BY <1>1 DEF GetTier

LEMMA TierFound ==
  ASSUME NEW ts \in Tiers, NEW name
  PROVE  GetTier(ts, name) # NoRow => \E i \in TierId : ts[i] # NoRow /\ GetTier(ts, name) = ts[i]
<1>1. CASE Named(ts, name) = {}
  BY <1>1 DEF GetTier
<1>2. CASE Named(ts, name) # {}
  <2>1. PICK i \in Named(ts, name) : GetTier(ts, name) = ts[i]
    BY <1>2 DEF GetTier
  <2> QED
    BY <2>1 DEF Named
<1> QED
  BY <1>1, <1>2

(* Values that are there are limits.                                       *)
LEMMA Values ==
  ASSUME NEW f \in Field
  PROVE  /\ \A t \in TierRow : t[f] \in Limit /\ t[f] # Null
         /\ BuiltIn[f] # Null
         /\ \A d \in DomainRow : f \in DomainField => d[f] = Null \/ d[f] \in Limit
         /\ \A s \in SenderRow : f \in SenderField => s[f] = Null \/ s[f] \in Limit
BY ConfigAssumption DEF Field, TierRow, BuiltIn, DomainRow, DomainField, SenderRow, SenderField

(* What of a row counts for a limit, and the tier it names.                *)
Own(f, row, fields) == IF row # NoRow /\ f \in fields THEN row[f] ELSE Null
TierOf(row, ts) == IF row # NoRow /\ row.tierId # Null THEN ts[row.tierId] ELSE NoRow

(* The base tier is the sender's, or the domain's, or the status decides.  *)
LEMMA BaseLimits ==
  ASSUME NEW ts \in Tiers, Unique(ts), NEW s \in SenderRow, NEW d \in DomainRow \cup {NoRow},
         NEW f \in Field
  PROVE  LET a == TierOf(s, ts)
             b == TierOf(d, ts)
             c == GetTier(ts, IF StatusOf(s) = "warmup" THEN WarmupTier ELSE DefaultTier)
             e == GetTier(ts, DefaultTier)
         IN FromTier(ts, BaseTier(s, d, ts))[f] =
              IF a # NoRow THEN a[f] ELSE IF b # NoRow THEN b[f]
              ELSE IF c # NoRow THEN c[f] ELSE IF e # NoRow THEN e[f] ELSE BuiltIn[f]
<1>1. /\ TierOf(s, ts) # NoRow <=> Assigned(s, ts)
      /\ TierOf(d, ts) # NoRow <=> Assigned(d, ts)
  BY DEF TierOf, Assigned
<1>2. ASSUME NEW row, row \in SenderRow \/ row \in DomainRow, row # NoRow, Assigned(row, ts)
      PROVE  GetTier(ts, ts[row.tierId].name) = TierOf(row, ts)
  <2>1. row.tierId \in TierId /\ ts[row.tierId] # NoRow /\ TierOf(row, ts) = ts[row.tierId]
    BY <1>2 DEF Assigned, TierOf, SenderRow, DomainRow
  <2> QED
    BY <2>1, TierByName
<1>3. s # NoRow
  BY Rows
<1>4. CASE Assigned(s, ts)
  <2>1. BaseTier(s, d, ts) = ts[s.tierId].name
    BY <1>4 DEF BaseTier
  <2>2. GetTier(ts, BaseTier(s, d, ts)) = TierOf(s, ts)
    BY <1>2, <1>3, <1>4, <2>1
  <2> QED
    BY <1>1, <1>4, <2>2 DEF FromTier
<1>5. CASE ~Assigned(s, ts) /\ Assigned(d, ts)
  <2>1. BaseTier(s, d, ts) = ts[d.tierId].name
    BY <1>5 DEF BaseTier
  <2>2. d # NoRow /\ d \in DomainRow
    BY <1>5 DEF Assigned
  <2>3. GetTier(ts, BaseTier(s, d, ts)) = TierOf(d, ts)
    BY <1>2, <1>5, <2>1, <2>2
  <2> QED
    BY <1>1, <1>5, <2>3 DEF FromTier
<1>6. CASE ~Assigned(s, ts) /\ ~Assigned(d, ts)
  <2>1. BaseTier(s, d, ts) = IF StatusOf(s) = "warmup" THEN WarmupTier ELSE DefaultTier
    BY <1>6 DEF BaseTier
  <2> QED
    BY <1>1, <1>6, <2>1 DEF FromTier
<1> QED
  BY <1>4, <1>5, <1>6

LEMMA LimitIs ==
  ASSUME NEW ts, NEW s \in SenderRow, NEW d \in DomainRow \cup {NoRow}, NEW f \in Field,
         ~Blocked(s, d)
  PROVE  Resolve(s, d, ts).lim[f] =
           IF Own(f, s, SenderField) # Null THEN Own(f, s, SenderField)
           ELSE IF Own(f, d, DomainField) # Null THEN Own(f, d, DomainField)
           ELSE FromTier(ts, BaseTier(s, d, ts))[f]
BY Rows DEF Resolve, Limits, Overridden, Own

(* Every limit comes from the first source that has it.                    *)
LEMMA FirstSource ==
  ASSUME NEW ts \in Tiers, Unique(ts), NEW s \in SenderRow, NEW d \in DomainRow \cup {NoRow},
         NEW f \in Field, ~Blocked(s, d)
  PROVE  LET from == Sources(f, s, d, ts) IN
         \E k \in 1..7 : /\ Resolve(s, d, ts).lim[f] = from[k] /\ from[k] # Null
                         /\ \A j \in 1..(k - 1) : from[j] = Null
<1> DEFINE from == Sources(f, s, d, ts)
           lim == Resolve(s, d, ts).lim[f]
           a == TierOf(s, ts)
           b == TierOf(d, ts)
           c == GetTier(ts, IF StatusOf(s) = "warmup" THEN WarmupTier ELSE DefaultTier)
           e == GetTier(ts, DefaultTier)
<1>1. /\ from[1] = Own(f, s, SenderField) /\ from[2] = Own(f, d, DomainField)
      /\ from[3] = (IF a # NoRow THEN a[f] ELSE Null)
      /\ from[4] = (IF b # NoRow THEN b[f] ELSE Null)
      /\ from[5] = (IF c # NoRow THEN c[f] ELSE Null)
      /\ from[6] = (IF e # NoRow THEN e[f] ELSE Null)
      /\ from[7] = BuiltIn[f]
  BY DEF Sources, Own, TierOf
<1>2. /\ a # NoRow => a[f] # Null
      /\ b # NoRow => b[f] # Null
      /\ c # NoRow => c[f] # Null
      /\ e # NoRow => e[f] # Null
      /\ BuiltIn[f] # Null
  <2>1. \A i \in TierId : ts[i] # NoRow => ts[i][f] # Null
    BY Values DEF Tiers
  <2>2. a # NoRow => \E i \in TierId : a = ts[i]
    BY DEF TierOf, SenderRow
  <2>3. b # NoRow => \E i \in TierId : b = ts[i]
    BY DEF TierOf, DomainRow
  <2>4. /\ c # NoRow => \E i \in TierId : ts[i] # NoRow /\ c = ts[i]
        /\ e # NoRow => \E i \in TierId : ts[i] # NoRow /\ e = ts[i]
    BY TierFound
  <2> HIDE DEF a, b, c, e
  <2> QED
    BY <2>1, <2>2, <2>3, <2>4, Values
<1>3. lim = IF from[1] # Null THEN from[1] ELSE IF from[2] # Null THEN from[2]
            ELSE IF a # NoRow THEN a[f] ELSE IF b # NoRow THEN b[f]
            ELSE IF c # NoRow THEN c[f] ELSE IF e # NoRow THEN e[f] ELSE BuiltIn[f]
  BY <1>1, BaseLimits, LimitIs
<1> HIDE DEF from, lim, a, b, c, e
<1>4. lim = IF from[1] # Null THEN from[1] ELSE IF from[2] # Null THEN from[2]
            ELSE IF from[3] # Null THEN from[3] ELSE IF from[4] # Null THEN from[4]
            ELSE IF from[5] # Null THEN from[5] ELSE IF from[6] # Null THEN from[6] ELSE from[7]
  BY <1>1, <1>2, <1>3
<1>5. from[7] # Null
  BY <1>1, <1>2
<1>6. \E k \in 1..7 : lim = from[k] /\ from[k] # Null /\ \A j \in 1..(k - 1) : from[j] = Null
  <2>1. CASE from[1] # Null
    BY <1>4, <2>1
  <2>2. CASE from[1] = Null /\ from[2] # Null
    BY <1>4, <2>2
  <2>3. CASE from[1] = Null /\ from[2] = Null /\ from[3] # Null
    BY <1>4, <2>3
  <2>4. CASE from[1] = Null /\ from[2] = Null /\ from[3] = Null /\ from[4] # Null
    BY <1>4, <2>4
  <2>5. CASE /\ from[1] = Null /\ from[2] = Null /\ from[3] = Null /\ from[4] = Null
             /\ from[5] # Null
    BY <1>4, <2>5
  <2>6. CASE /\ from[1] = Null /\ from[2] = Null /\ from[3] = Null /\ from[4] = Null
             /\ from[5] = Null /\ from[6] # Null
    BY <1>4, <2>6
  <2>7. CASE /\ from[1] = Null /\ from[2] = Null /\ from[3] = Null /\ from[4] = Null
             /\ from[5] = Null /\ from[6] = Null
    BY <1>4, <1>5, <2>7
  <2> QED
    BY <2>1, <2>2, <2>3, <2>4, <2>5, <2>6, <2>7
<1> QED
  BY <1>6 DEF from, lim

LEMMA UsableRows == ConfigInv => Usable \subseteq SenderRow \cup {NoRow}
BY DEF ConfigInv, CacheOK, Usable, Entry, SenderOrNone

(* "Resolution precedence: sender override > domain override > tier >      *)
(* built-in default", in every state, for every tier and override, and     *)
(* also when snapshot and rows are of different times.                     *)
THEOREM PrecedenceIsRespected == Spec => []PrecedenceRespected
<1>1. ConfigInv => PrecedenceRespected
  <2> SUFFICES ASSUME ConfigInv, NEW s \in Usable \ {NoRow}, NEW f \in Field, ~Blocked(s, domain)
               PROVE  LET from == Sources(f, s, domain, tiers) IN
                      \E k \in 1..7 : /\ Resolve(s, domain, tiers).lim[f] = from[k] /\ from[k] # Null
                                      /\ \A j \in 1..(k - 1) : from[j] = Null
    BY DEF PrecedenceRespected
  <2>1. s \in SenderRow /\ tiers \in Tiers /\ Unique(tiers) /\ domain \in DomainRow \cup {NoRow}
    BY UsableRows DEF ConfigInv, SnapshotOK
  <2> QED
    BY <2>1, FirstSource
<1> QED
  BY <1>1, ConfigInductive, PTL

(* While there is a default tier, a limit is lifted only where a tier, the *)
(* domain or the sender says so: a tier that is not found never does it.   *)
THEOREM DefaultKeepsLimiting == Spec => []DefaultStillLimits
<1>1. ConfigInv => DefaultStillLimits
  <2> SUFFICES ASSUME ConfigInv, KeepsDefault, phase = "loaded", NEW s \in Usable, NEW f \in Field,
                      Resolve(s, domain, tiers).lim[f] = 0
               PROVE  \/ \E i \in TierId : tiers[i] # NoRow /\ tiers[i][f] = 0
                      \/ f \in DomainField /\ domain # NoRow /\ domain[f] = 0
                      \/ f \in SenderField /\ s # NoRow /\ s[f] = 0
    BY DEF DefaultStillLimits
  <2>1. /\ s \in SenderRow \cup {NoRow} /\ tiers \in Tiers /\ Unique(tiers) /\ HasDefault(tiers)
        /\ domain \in DomainRow \cup {NoRow}
    BY UsableRows DEF ConfigInv, SnapshotOK, Good
  <2>2. ASSUME NEW name
        PROVE  \E i \in TierId : tiers[i] # NoRow /\ FromTier(tiers, name)[f] = tiers[i][f]
    <3>1. GetTier(tiers, DefaultTier) # NoRow
      <4>1. PICK i \in TierId : tiers[i] # NoRow /\ tiers[i].name = DefaultTier
        BY <2>1 DEF HasDefault
      <4> QED
        BY <2>1, <4>1, TierByName
    <3>2. \A n : GetTier(tiers, n) # NoRow =>
                   \E i \in TierId : tiers[i] # NoRow /\ GetTier(tiers, n) = tiers[i]
      BY <2>1, TierFound
    <3>3. CASE GetTier(tiers, name) # NoRow
      BY <3>2, <3>3 DEF FromTier
    <3>4. CASE GetTier(tiers, name) = NoRow
      BY <3>1, <3>2, <3>4 DEF FromTier
    <3> QED
      BY <3>3, <3>4
  <2>3. CASE s = NoRow \/ Blocked(s, domain)
    <3>1. \E name \in {WarmupTier, DefaultTier} :
            Resolve(s, domain, tiers).lim[f] = FromTier(tiers, name)[f]
      BY <2>3 DEF Resolve
    <3> QED
      BY <2>2, <3>1
  <2>4. CASE s # NoRow /\ ~Blocked(s, domain)
    <3>1. s \in SenderRow
      BY <2>1, <2>4
    <3>2. \/ Own(f, s, SenderField) # Null /\ Own(f, s, SenderField) = 0
          \/ Own(f, domain, DomainField) # Null /\ Own(f, domain, DomainField) = 0
          \/ FromTier(tiers, BaseTier(s, domain, tiers))[f] = 0
      BY <2>1, <2>4, <3>1, LimitIs
    <3> QED
      BY <2>2, <3>2 DEF Own
  <2> QED
    BY <2>3, <2>4
<1> QED
  BY <1>1, ConfigInductive, PTL
=============================================================================
