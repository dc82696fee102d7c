----------------------------- MODULE EventWriter -----------------------------
(***************************************************************************)
(* The audit log of one replica: event-writer.service.ts, from its         *)
(* creation to process.exit() in main.ts.  decide() and the feedback loop  *)
(* push events into a bounded buffer; a timer, and onModuleDestroy(), hand *)
(* the whole buffer to createMany(), which is awaited by nobody while the  *)
(* timer goes on: several batches may be on their way to the database, and *)
(* they end in any order.  Who calls onModuleDestroy(), and when, is       *)
(* module Shutdown's.                                                      *)
(*                                                                         *)
(* Events are numbered in the order they are pushed.                       *)
(***************************************************************************)
EXTENDS Naturals, Sequences, SequencesExt

CONSTANTS
  MAX,          \* what the buffer holds at most
  MaxEvents,    \* bound: events pushed
  Caller,       \* the callers of onModuleDestroy(), each once
  DbFails       \* createMany() may be refused

ASSUME EventWriterAssumption ==
  /\ MAX \in Nat \ {0} /\ MaxEvents \in Nat /\ DbFails \in BOOLEAN
  /\ "timer" \notin Caller /\ "nobody" \notin Caller

VARIABLES
  buf,       \* this.buf
  batches,   \* createMany() calls on their way: what is written, and who
             \* took it: a caller waits for its own batch, the timer for none
  table,     \* the rows of policy_event, by id
  pushed,    \* history: events pushed so far
  refused,   \* history: events of the batches the database refused
  parting,   \* history: what the buffer held at each onModuleDestroy()
  destroyed, \* the callers that have called it; after the first, no timer
  leaver,    \* the caller that called process.exit()
  phase      \* "up", "exited" (process.exit) or "killed"

vars == <<buf, batches, table, pushed, refused, parting, destroyed, leaver, phase>>

Event == 1..MaxEvents
Batch == [rows: Seq(Event), by: Caller \cup {"timer"}]

TypeOK ==
  /\ buf \in Seq(Event) /\ Len(buf) <= MAX
  /\ batches \subseteq Batch
  /\ table \in Seq(Event)
  /\ pushed \in 0..MaxEvents
  /\ refused \subseteq Event
  /\ parting \in [Caller -> SUBSET Event]
  /\ destroyed \subseteq Caller
  /\ leaver \in Caller \cup {"nobody"}
  /\ phase \in {"up", "exited", "killed"}

Init ==
  /\ buf = << >>
  /\ batches = {}
  /\ table = << >>
  /\ pushed = 0
  /\ refused = {}
  /\ parting = [c \in Caller |-> {}]
  /\ destroyed = {}
  /\ leaver = "nobody"
  /\ phase = "up"

(* Mutant: it is the new event that goes.                                  *)
PushDropsNewest == IF Len(buf) >= MAX THEN buf ELSE Append(buf, pushed + 1)

(* push(): what the buffer becomes.                                        *)
Pushed ==
  IF Len(buf) >= MAX THEN Append(Tail(buf), pushed + 1) ELSE Append(buf, pushed + 1)

Push ==
  /\ phase = "up" /\ pushed < MaxEvents
  /\ buf' = Pushed
  /\ pushed' = pushed + 1
  /\ UNCHANGED <<batches, table, refused, parting, destroyed, leaver, phase>>

(* Mutant: the buffer is not replaced.                                     *)
TakeCopy(by) ==
  /\ batches' = batches \cup {[rows |-> buf, by |-> by]}
  /\ UNCHANGED buf

(* flush(), up to its await: the buffer is replaced before the write.      *)
Take(by) ==
  /\ batches' = batches \cup {[rows |-> buf, by |-> by]}
  /\ buf' = << >>

(* The 2 s timer.                                                          *)
Flush ==
  /\ phase = "up" /\ destroyed = {} /\ buf # << >>
  /\ Take("timer")
  /\ UNCHANGED <<table, pushed, refused, parting, destroyed, leaver, phase>>

(* createMany() ends: one INSERT, all of its rows or none.                 *)
Stored(b) ==
  /\ b \in batches
  /\ table' = table \o b.rows
  /\ batches' = batches \ {b}
  /\ UNCHANGED <<buf, pushed, refused, parting, destroyed, leaver, phase>>

Refused(b) ==
  /\ DbFails
  /\ b \in batches
  /\ refused' = refused \cup Range(b.rows)
  /\ batches' = batches \ {b}
  /\ UNCHANGED <<buf, table, pushed, parting, destroyed, leaver, phase>>

(* onModuleDestroy(), up to its await.  Events may still be pushed.        *)
Destroy(c) ==
  /\ phase = "up" /\ c \notin destroyed
  /\ destroyed' = destroyed \cup {c}
  /\ parting' = [parting EXCEPT ![c] = Range(buf)]
  /\ IF buf = << >> THEN UNCHANGED <<buf, batches>> ELSE Take(c)
  /\ UNCHANGED <<table, pushed, refused, leaver, phase>>

(* The caller's onModuleDestroy() has returned.                            *)
Returned(c) == c \in destroyed /\ \A b \in batches : b.by # c

(* process.exit(0): batches of the timer and of other callers are cut off. *)
Exit(c) ==
  /\ phase = "up" /\ Returned(c)
  /\ phase' = "exited" /\ leaver' = c
  /\ batches' = {} /\ buf' = << >>
  /\ UNCHANGED <<table, pushed, refused, parting, destroyed>>

Kill ==
  /\ phase = "up"
  /\ phase' = "killed"
  /\ batches' = {} /\ buf' = << >>
  /\ UNCHANGED <<table, pushed, refused, parting, destroyed, leaver>>

Next ==
  \/ Push \/ Flush \/ Kill
  \/ \E c \in Caller : Destroy(c) \/ Exit(c)
  \/ \E b \in batches : Stored(b) \/ Refused(b)

Spec == Init /\ [][Next]_vars

(* The database answers.                                                   *)
Fairness ==
  \A e \in Event : WF_vars(\E b \in batches : e \in Range(b.rows) /\ (Stored(b) \/ Refused(b)))

-----------------------------------------------------------------------------
(* Where an event is, counting every copy of it.                           *)
Sent == {b.rows : b \in batches}
Held(e) == e \in Range(buf) \/ \E rows \in Sent : e \in Range(rows)

(* Overlapping flushes, overflow and a shutdown never write an event       *)
(* twice: no event is in the table twice, and none that is there or was    *)
(* refused is still on its way.                                            *)
EachEventOnce ==
  /\ \A i, j \in DOMAIN table : table[i] = table[j] => i = j
  /\ \A e \in Range(table) \cup refused : ~Held(e)
  /\ \A a, b \in batches \cup {[rows |-> buf, by |-> "timer"]} :
       a # b => Range(a.rows) \cap Range(b.rows) = {}

(* "On overflow the oldest entries are dropped": the buffer always holds   *)
(* the last events pushed, without a gap, and never more than MAX.         *)
KeepsTheNewest ==
  phase = "up" =>
    /\ Len(buf) <= MAX
    /\ buf = [i \in 1..Len(buf) |-> pushed - Len(buf) + i]

(* A graceful exit leaves nothing behind of what the buffer held when the  *)
(* caller that exits destroyed the module, unless the database refused it. *)
ExitKeepsTheBuffer == phase = "exited" => parting[leaver] \subseteq Range(table) \cup refused
=============================================================================
