------------------------------- MODULE Shipper -------------------------------
(***************************************************************************)
(* scripts/mail_feedback_shipper.py: it follows the mail log, keeps which  *)
(* sender a queue id belongs to, and posts delivery outcomes in batches,   *)
(* while Postfix writes on, the log is rotated or truncated, posts fail,   *)
(* and the script is killed and started again.                             *)
(*                                                                         *)
(* Log lines are numbered as they are written; a file is the sequence of   *)
(* the numbers in it, and a read position counts lines.                    *)
(***************************************************************************)
EXTENDS Naturals, Sequences, SequencesExt, FiniteSets

CONSTANTS
  Qid, Sender,
  Null,           \* the empty envelope sender: from=<>
  Dsn,            \* dsn= values
  None,           \* no value: not captured, or not that kind of line
  DsnNextToTo,    \* "dsn=" directly follows "to=<...>" in a line (Postfix: no)
  BATCH_MAX, QID_MAX,
  QidReuse,       \* a queue id may be used for another mail later
  PostFails,      \* a post may be lost, or time out after it was accepted
  Truncates,      \* the log may be truncated (copytruncate)
  MaxLines, MaxRotations, MaxKills   \* bounds

ASSUME ShipperAssumption ==
  /\ {BATCH_MAX, QID_MAX} \subseteq Nat \ {0}
  /\ {MaxLines, MaxRotations, MaxKills} \subseteq Nat
  /\ {QidReuse, PostFails, Truncates, DsnNextToTo} \subseteq BOOLEAN
  /\ Null \notin Sender /\ None \notin Dsn \cup Sender \cup {Null}

(* qmgr's "from=<...>" (dsn is None) or a delivery's "to=<...> status=...";*)
(* `of` is the sender of the mail, which a delivery line does not show.    *)
Line == [qid: Qid, of: Sender \cup {Null}, dsn: Dsn \cup {None}]
IsDelivery(l) == l.dsn # None

Event == [line: Nat, sender: Sender, dsn: Dsn \cup {None}]

VARIABLES
  log,        \* every line ever written
  files,      \* the log files so far, each a sequence of line numbers
  path,       \* the file that MAIL_LOG names, 0: there is none
  syslog,     \* the file the logger writes to: the old one until it reopens
  fd, pos,    \* the file the script has open (0: none) and how far it has read
  pc,         \* "open", "read", "sleep" (0.2 s, then stat) or "post"
  qid_sender, \* the OrderedDict, oldest first: sequence of [qid, sender]
  batch,
  accepted,   \* the events policyd has taken, in that order
  seen,       \* history: the lines that were read
  failed,     \* history: the lines in batches that were posted in vain
  former,     \* history: the lines that earlier runs of the script read
  kills

shipperVars == <<log, files, path, syslog, fd, pos, pc, qid_sender, batch, accepted, seen, failed, former, kills>>
world == <<log, files, path, syslog>>

ShipperTypeOK ==
  /\ log \in Seq(Line) /\ Len(log) <= MaxLines
  /\ files \in Seq(Seq(1..MaxLines))
  /\ path \in 0..Len(files) /\ syslog \in 1..Len(files)
  /\ fd \in 0..Len(files) /\ pos \in 0..MaxLines
  /\ pc \in {"open", "read", "sleep", "post"}
  /\ qid_sender \in Seq([qid: Qid, sender: Sender \cup {Null}]) /\ Len(qid_sender) <= QID_MAX
  /\ batch \in Seq(Event) /\ Len(batch) <= BATCH_MAX
  /\ (pc = "read" => Len(batch) < BATCH_MAX)
  /\ accepted \in Seq(Event)
  /\ seen \subseteq 1..MaxLines /\ failed \subseteq seen /\ former \subseteq seen
  /\ kills \in 0..MaxKills

ShipperInit ==
  /\ log = << >> /\ files = <<<< >>>> /\ path = 1 /\ syslog = 1
  /\ fd = 1 /\ pos = 0 /\ pc = "read"
  /\ qid_sender = << >> /\ batch = << >>
  /\ accepted = << >> /\ seen = {} /\ failed = {} /\ former = {} /\ kills = 0

-----------------------------------------------------------------------------
(***************************************************************************)
(* Postfix, the logger and logrotate.                                      *)
(***************************************************************************)
Owners(q) == {i \in DOMAIN log : log[i].qid = q /\ ~IsDelivery(log[i])}

(* qmgr logs a mail when it takes it up, and again for every retry; a      *)
(* delivery is logged after that.                                          *)
Logs(l) ==
  /\ Len(log) < MaxLines
  /\ IF IsDelivery(l)
       THEN \E i \in Owners(l.qid) : (\A j \in Owners(l.qid) : j <= i) /\ log[i].of = l.of
       ELSE QidReuse \/ \A i \in Owners(l.qid) : log[i].of = l.of
  /\ log' = Append(log, l)
  /\ files' = [files EXCEPT ![syslog] = Append(@, Len(log) + 1)]
  /\ UNCHANGED <<path, syslog, fd, pos, pc, qid_sender, batch, accepted, seen, failed, former, kills>>

Rename ==
  /\ path # 0 /\ syslog = path /\ Len(files) <= MaxRotations
  /\ path' = 0
  /\ UNCHANGED <<log, files, syslog, fd, pos, pc, qid_sender, batch, accepted, seen, failed, former, kills>>

Create ==
  /\ path = 0
  /\ files' = Append(files, << >>)
  /\ path' = Len(files) + 1
  /\ UNCHANGED <<log, syslog, fd, pos, pc, qid_sender, batch, accepted, seen, failed, former, kills>>

Reopen ==
  /\ path # 0 /\ syslog # path
  /\ syslog' = path
  /\ UNCHANGED <<log, files, path, fd, pos, pc, qid_sender, batch, accepted, seen, failed, former, kills>>

Truncate ==
  /\ Truncates /\ path # 0 /\ files[path] # << >>
  /\ files' = [files EXCEPT ![path] = << >>]
  /\ UNCHANGED <<log, path, syslog, fd, pos, pc, qid_sender, batch, accepted, seen, failed, former, kills>>

-----------------------------------------------------------------------------
(***************************************************************************)
(* follow().                                                               *)
(***************************************************************************)
(* open() and seek to the end.                                             *)
Open ==
  /\ pc = "open" /\ path # 0
  /\ fd' = path /\ pos' = Len(files[path])
  /\ pc' = "read"
  /\ UNCHANGED <<world, qid_sender, batch, accepted, seen, failed, former, kills>>

EndOfFile ==
  /\ pc = "read" /\ pos >= Len(files[fd])
  /\ pc' = "sleep"
  /\ UNCHANGED <<world, fd, pos, qid_sender, batch, accepted, seen, failed, former, kills>>

(* Mutant: it is enough that the path exists.                              *)
StatExists ==
  /\ pc = "sleep"
  /\ IF path = 0 THEN pc' = "open" /\ fd' = 0 ELSE pc' = "read" /\ UNCHANGED fd
  /\ UNCHANGED <<world, pos, qid_sender, batch, accepted, seen, failed, former, kills>>

(* os.stat(): another inode, or no file at all.                            *)
Stat ==
  /\ pc = "sleep"
  /\ IF path # fd THEN pc' = "open" /\ fd' = 0 ELSE pc' = "read" /\ UNCHANGED fd
  /\ UNCHANGED <<world, pos, qid_sender, batch, accepted, seen, failed, former, kills>>

-----------------------------------------------------------------------------
(***************************************************************************)
(* main(): one line.                                                       *)
(***************************************************************************)
Newest(s, n) == IF Len(s) <= n THEN s ELSE SubSeq(s, Len(s) - n + 1, Len(s))
Without(q) ==
  IF \E n \in DOMAIN qid_sender : qid_sender[n].qid = q
  THEN RemoveAt(qid_sender, CHOOSE n \in DOMAIN qid_sender : qid_sender[n].qid = q)
  ELSE qid_sender

(* Mutants: off by one; the first sender of a queue id stays.              *)
RememberTooFew(q, s) ==
  Newest(Append(Without(q), [qid |-> q, sender |-> s]), QID_MAX - 1)
RememberFirst(q, s) ==
  IF \E e \in Range(qid_sender) : e.qid = q THEN qid_sender
  ELSE Newest(Append(qid_sender, [qid |-> q, sender |-> s]), QID_MAX)

Remember(q, s) == Newest(Append(Without(q), [qid |-> q, sender |-> s]), QID_MAX)

(* RE_DELIV: its lazy ".*?" matches nothing before the optional dsn group, *)
(* so that the group captures only a dsn that follows "to=<...>" at once.  *)
Captured(dsn) == IF DsnNextToTo THEN dsn ELSE None

(* The batch with the event of delivery line i, if its sender is known.    *)
Collected(i) ==
  LET known == {e.sender : e \in {e \in Range(qid_sender) : e.qid = log[i].qid}} \ {Null}
  IN IF known = {} THEN batch
     ELSE Append(batch, [line |-> i, sender |-> CHOOSE s \in known : TRUE,
                         dsn |-> Captured(log[i].dsn)])

(* Mutant: only a batch beyond BATCH_MAX is posted at once.                *)
FlushesLate(b, due) == Len(b) > BATCH_MAX \/ (b # << >> /\ due)

(* `due`: FLUSH_SECS have passed since the last flush.                     *)
Flushes(b, due) == Len(b) >= BATCH_MAX \/ (b # << >> /\ due)

(* readline() and the body of the loop.                                    *)
ReadLine(due) ==
  /\ pc = "read" /\ pos < Len(files[fd])
  /\ pos' = pos + 1
  /\ LET i == files[fd][pos + 1] IN
     /\ seen' = seen \cup {i}
     /\ IF IsDelivery(log[i])
        THEN batch' = Collected(i) /\ UNCHANGED qid_sender
        ELSE qid_sender' = Remember(log[i].qid, log[i].of) /\ UNCHANGED batch
  /\ pc' = IF Flushes(batch', due) THEN "post" ELSE "read"
  /\ UNCHANGED <<world, fd, accepted, failed, former, kills>>

(* POST /api/feedback: all of the batch is taken, or none of it.           *)
Posted(arrives) ==
  IF arrives THEN accepted' = accepted \o batch /\ UNCHANGED failed
  ELSE failed' = failed \cup {e.line : e \in Range(batch)} /\ UNCHANGED accepted

(* Mutant: a batch whose post raised is kept for the next one.             *)
PostAgain(arrives, answered) ==
  /\ pc = "post"
  /\ Posted(arrives)
  /\ batch' = IF answered THEN << >> ELSE batch
  /\ pc' = "read"
  /\ UNCHANGED <<world, fd, pos, qid_sender, seen, former, kills>>

(* post(): whatever becomes of it, the batch is gone.                      *)
Post(arrives, answered) ==
  /\ pc = "post"
  /\ Posted(arrives)
  /\ batch' = << >>
  /\ pc' = "read"
  /\ UNCHANGED <<world, fd, pos, qid_sender, seen, former, kills>>

(* Killed and started again; a post under way may have arrived.            *)
Kill ==
  /\ kills < MaxKills
  /\ kills' = kills + 1
  /\ \E arrives \in {FALSE, pc = "post"} : Posted(arrives)
  /\ pc' = "open" /\ fd' = 0 /\ pos' = 0
  /\ qid_sender' = << >> /\ batch' = << >>
  /\ former' = seen
  /\ UNCHANGED <<world, seen>>

Shipping ==
  \/ Open \/ EndOfFile \/ Stat
  \/ \E due \in BOOLEAN : ReadLine(due)
  \/ \E arrives, answered \in {TRUE, ~PostFails} : (answered => arrives) /\ Post(arrives, answered)

ShipperNext ==
  \/ \E l \in Line : Logs(l)
  \/ Rename \/ Create \/ Reopen \/ Truncate
  \/ Shipping
  \/ Kill

ShipperSpec == ShipperInit /\ [][ShipperNext]_shipperVars

(* The script runs, and a rotation that was begun comes to its end.        *)
ShipperFairSpec == ShipperSpec /\ WF_shipperVars(Shipping) /\ WF_shipperVars(Create) /\ WF_shipperVars(Reopen)

-----------------------------------------------------------------------------
(* A delivery counts once at most: posts that time out, restarts and       *)
(* rotations never make policyd take the same line twice.                  *)
AcceptedOnce ==
  LET all == accepted \o batch
  IN \A i, j \in DOMAIN all : all[i].line = all[j].line => i = j

(* The mail a delivery line belongs to: the last one its queue id named.   *)
MailOf(i) == Max({j \in 1..i : log[j].qid = log[i].qid /\ ~IsDelivery(log[j])})

(* An outcome is charged to the sender of its own mail, whenever the line  *)
(* that names it was read: also when the queue id has been used for other  *)
(* mail before, when lines around a rotation are missed, and after a       *)
(* restart that has lost what was remembered.                              *)
ChargedToItsSender ==
  \A e \in Range(accepted \o batch) :
    MailOf(e.line) \in seen => e.sender = log[e.line].of

(* The queue ids remembered between a mail's line and its delivery i.      *)
Between(i) ==
  {log[j].qid : j \in {k \in seen : MailOf(i) < k /\ k < i /\ ~IsDelivery(log[k])}}

(* Batches and the bounded map drop nothing they need not: as long as the  *)
(* script runs on, an outcome that it read, of a mail whose sender it read *)
(* and not followed by those of QID_MAX other queue ids, is accepted or in *)
(* the batch, unless its post failed.                                      *)
NothingDropped ==
  \A i \in seen \ (failed \cup former) :
    /\ IsDelivery(log[i]) /\ log[i].of # Null
    /\ MailOf(i) \in seen \ former /\ Cardinality(Between(i)) < QID_MAX
    => \E e \in Range(accepted \o batch) : e.line = i

(* "Tail -F": after a rotation the script goes over to the new file.       *)
FollowsThePath == (path # fd) ~> (path = fd)
=============================================================================
