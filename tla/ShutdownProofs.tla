---------------------------- MODULE ShutdownProofs ----------------------------
(***************************************************************************)
(* Proofs about the event log and about a replica that stops, for any      *)
(* buffer, any number of events, clients and requests.                     *)
(***************************************************************************)
EXTENDS Shutdown, SequenceTheorems, TLAPS

(* An event that is no longer in the buffer is older than all that are.    *)
Gone == Range(table) \cup refused \cup UNION {Range(b.rows) : b \in batches}
Older == \A e \in Gone : e <= pushed - Len(buf)

Stopped == phase # "up" => buf = << >> /\ batches = {}
Newest == KeepsTheNewest /\ Len(buf) <= pushed /\ Stopped

(* No two batches, and no batch and what has arrived, share an event; and  *)
(* none has one twice.                                                     *)
Distinct(s) == \A i, j \in DOMAIN s : s[i] = s[j] => i = j
Apart ==
  /\ \A a, b \in batches : a # b => Range(a.rows) \cap Range(b.rows) = {}
  /\ \A b \in batches : Range(b.rows) \cap (Range(table) \cup refused) = {}
  /\ Distinct(table) /\ \A b \in batches : Distinct(b.rows)

(* What a caller found in the buffer has arrived, or is in its batch.      *)
Of(c) == {b \in batches : b.by = c}
Covered ==
  phase = "up" => \A c \in destroyed :
    parting[c] \subseteq Range(table) \cup refused \cup UNION {Range(b.rows) : b \in Of(c)}

LogInv == TypeOK /\ Newest /\ Older /\ Apart /\ Covered /\ ExitKeepsTheBuffer

-----------------------------------------------------------------------------
LEMMA DistinctConcat ==
  ASSUME NEW S, NEW s \in Seq(S), NEW t \in Seq(S),
         Distinct(s), Distinct(t), Range(s) \cap Range(t) = {}
  PROVE  Distinct(s \o t)
<1> DEFINE u == s \o t
<1>1. /\ u \in Seq(S) /\ Len(u) = Len(s) + Len(t)
      /\ \A i \in 1..Len(s) : u[i] = s[i]
      /\ \A i \in 1..Len(t) : u[Len(s) + i] = t[i]
  BY ConcatProperties
<1> HIDE DEF u
<1>2. SUFFICES ASSUME NEW i \in 1..Len(u), NEW j \in 1..Len(u), u[i] = u[j] PROVE i = j
  BY <1>1 DEF Distinct, u
<1>3. ASSUME NEW k \in 1..Len(u), k > Len(s)
      PROVE  k - Len(s) \in 1..Len(t) /\ u[k] = t[k - Len(s)]
  <2>1. k - Len(s) \in 1..Len(t) /\ k = Len(s) + (k - Len(s))
    BY <1>1, <1>3
  <2> QED
    BY <1>1, <2>1
<1>4. CASE i <= Len(s) /\ j <= Len(s)
  BY <1>1, <1>2, <1>4 DEF Distinct
<1>5. CASE i > Len(s) /\ j > Len(s)
  <2>1. i - Len(s) = j - Len(s)
    BY <1>2, <1>3, <1>5 DEF Distinct
  <2> QED
    BY <1>1, <2>1
<1>6. CASE i <= Len(s) /\ j > Len(s)
  <2>1. u[i] = s[i] /\ i \in DOMAIN s
    BY <1>1, <1>6
  <2>2. u[j] = t[j - Len(s)] /\ j - Len(s) \in DOMAIN t
    BY <1>3, <1>6
  <2> QED
    BY <1>2, <2>1, <2>2 DEF Range
<1>7. CASE i > Len(s) /\ j <= Len(s)
  <2>1. u[j] = s[j] /\ j \in DOMAIN s
    BY <1>1, <1>7
  <2>2. u[i] = t[i - Len(s)] /\ i - Len(s) \in DOMAIN t
    BY <1>3, <1>7
  <2> QED
    BY <1>2, <2>1, <2>2 DEF Range
<1> QED
  BY <1>1, <1>4, <1>5, <1>6, <1>7

(* Events are numbers.                                                     *)
LEMMA EventsAreNumbers ==
  ASSUME TypeOK
  PROVE  Gone \subseteq Nat /\ Range(buf) \subseteq Nat
<1>1. Range(buf) \subseteq Event /\ Range(table) \subseteq Event /\ refused \subseteq Event
  BY RangeOfSeq DEF TypeOK
<1>2. ASSUME NEW b \in batches PROVE Range(b.rows) \subseteq Event
  <2>1. b.rows \in Seq(Event)
    BY <1>2 DEF TypeOK, Batch
  <2> QED
    BY <2>1, RangeOfSeq
<1>3. Gone \subseteq Event
  BY <1>1, <1>2 DEF Gone
<1>4. Event \subseteq Nat
  BY EventWriterAssumption DEF Event
<1> QED
  BY <1>1, <1>3, <1>4

(* The events in the buffer, by Newest.                                    *)
LEMMA InBuffer ==
  ASSUME TypeOK, Newest
  PROVE  /\ Distinct(buf)
         /\ \A e \in Range(buf) : pushed - Len(buf) < e /\ e <= pushed
<1>1. CASE phase = "up"
  BY <1>1 DEF TypeOK, Newest, KeepsTheNewest, Distinct, Range
<1>2. CASE phase # "up"
  BY <1>2 DEF Newest, Stopped, Distinct, Range
<1> QED
  BY <1>1, <1>2

LEMMA BufferAfterPush ==
  ASSUME TypeOK, Newest, Push
  PROVE  TypeOK' /\ Newest' /\ Len(buf') <= Len(buf) + 1 /\ pushed' - Len(buf') >= pushed - Len(buf)
<1>1. pushed + 1 \in Event /\ buf \in Seq(Event) /\ Len(buf) \in Nat /\ pushed \in Nat
  BY EventWriterAssumption DEF Push, TypeOK, Event
<1>2. phase = "up" /\ phase' = "up"
  BY DEF Push
<1>3. /\ buf = [i \in 1..Len(buf) |-> pushed - Len(buf) + i]
      /\ Len(buf) <= MAX /\ Len(buf) <= pushed
  BY <1>2 DEF Newest, KeepsTheNewest
<1>4. CASE Len(buf) >= MAX
  <2>1. buf # << >> /\ buf' = Append(Tail(buf), pushed + 1)
    BY <1>4, <1>1, EventWriterAssumption DEF Push, Pushed
  <2>2. /\ Tail(buf) \in Seq(Event) /\ Len(Tail(buf)) = Len(buf) - 1
        /\ \A i \in 1..Len(Tail(buf)) : Tail(buf)[i] = buf[i + 1]
    BY <1>1, <2>1, HeadTailProperties
  <2>3. /\ buf' \in Seq(Event) /\ Len(buf') = Len(buf)
        /\ \A i \in 1..Len(buf) - 1 : buf'[i] = buf[i + 1]
        /\ buf'[Len(buf)] = pushed + 1
    BY <1>1, <2>1, <2>2, AppendProperties
  <2>4. \A i \in 1..Len(buf') : buf'[i] = pushed' - Len(buf') + i
    <3>1. ASSUME NEW i \in 1..Len(buf'), i # Len(buf)
          PROVE  buf'[i] = pushed' - Len(buf') + i
      <4>1. i \in 1..Len(buf) - 1 /\ i + 1 \in 1..Len(buf)
        BY <1>1, <2>3, <3>1
      <4>2. buf[i + 1] = pushed - Len(buf) + (i + 1)
        BY <1>3, <4>1
      <4> QED
        BY <1>1, <2>3, <4>1, <4>2 DEF Push
    <3>2. buf'[Len(buf)] = pushed' - Len(buf') + Len(buf)
      BY <1>1, <2>3 DEF Push
    <3> QED
      BY <3>1, <3>2
  <2>5. buf' = [i \in 1..Len(buf') |-> pushed' - Len(buf') + i]
    BY <2>3, <2>4
  <2> QED
    BY <1>1, <1>2, <1>3, <2>3, <2>5 DEF Push, TypeOK, Newest, KeepsTheNewest, Stopped, Batch, Event
<1>5. CASE Len(buf) < MAX
  <2>1. buf' = Append(buf, pushed + 1)
    BY <1>5, <1>1, EventWriterAssumption DEF Push, Pushed
  <2>2. /\ buf' \in Seq(Event) /\ Len(buf') = Len(buf) + 1
        /\ \A i \in 1..Len(buf) : buf'[i] = buf[i]
        /\ buf'[Len(buf) + 1] = pushed + 1
    BY <1>1, <2>1, AppendProperties
  <2>3. \A i \in 1..Len(buf') : buf'[i] = pushed' - Len(buf') + i
    BY <1>1, <1>3, <2>2 DEF Push
  <2>4. buf' = [i \in 1..Len(buf') |-> pushed' - Len(buf') + i]
    BY <2>2, <2>3
  <2>5. Len(buf') <= MAX
    BY <1>1, <1>5, <2>2, EventWriterAssumption
  <2> QED
    BY <1>1, <1>2, <1>3, <2>2, <2>4, <2>5 DEF Push, TypeOK, Newest, KeepsTheNewest, Stopped, Batch, Event
<1> QED
  BY <1>1, <1>4, <1>5, EventWriterAssumption

(* A batch is taken: by the timer, or by a caller.                         *)
LEMMA TakeKeeps ==
  ASSUME TypeOK, Newest, Older, Apart, phase = "up",
         NEW by \in Caller \cup {"timer"}, Take(by),
         UNCHANGED <<table, pushed, refused, leaver, phase>>
  PROVE  Newest' /\ Older' /\ Apart' /\ buf' \in Seq(Event) /\ Len(buf') <= MAX /\ batches' \subseteq Batch
<1> DEFINE new == [rows |-> buf, by |-> by]
<1>1. /\ batches' = batches \cup {new} /\ buf' = << >> /\ Len(buf') = 0
      /\ new \in Batch /\ buf \in Seq(Event) /\ Len(buf) \in Nat /\ pushed \in Nat
      /\ new.rows = buf
  BY EventWriterAssumption DEF Take, TypeOK, Batch
<1> HIDE DEF new
<1>2. /\ Distinct(buf)
      /\ \A e \in Range(buf) : pushed - Len(buf) < e /\ e <= pushed
  BY InBuffer
<1>3. \A e \in Gone : e \in Nat /\ e <= pushed - Len(buf)
  BY EventsAreNumbers DEF Older
<1>4. \A e \in Range(buf) : e \in Nat
  BY EventsAreNumbers
<1>5. Gone \cap Range(buf) = {}
  BY <1>1, <1>2, <1>3, <1>4
<1>6. Newest'
  BY <1>1, EventWriterAssumption DEF Newest, KeepsTheNewest, Stopped
<1>7. Gone' = Gone \cup Range(buf)
  BY <1>1 DEF Gone
<1>8. Older'
  BY <1>1, <1>2, <1>3, <1>4, <1>7 DEF Older
<1>9. Apart'
  <2>1. ASSUME NEW a \in batches', NEW b \in batches', a # b
        PROVE  Range(a.rows) \cap Range(b.rows) = {}
    <3>1. \A c \in batches : Range(c.rows) \cap Range(new.rows) = {}
      BY <1>1, <1>5 DEF Gone
    <3> QED
      BY <1>1, <2>1, <3>1 DEF Apart
  <2>2. \A b \in batches' : Range(b.rows) \cap (Range(table') \cup refused') = {}
    BY <1>1, <1>5 DEF Apart, Gone
  <2>3. Distinct(table') /\ \A b \in batches' : Distinct(b.rows)
    BY <1>1, <1>2 DEF Apart
  <2> QED
    BY <2>1, <2>2, <2>3 DEF Apart
<1> QED
  BY <1>1, <1>6, <1>8, <1>9, EventWriterAssumption DEF TypeOK

(* A batch ends, stored or refused: it moves from one part of Gone to      *)
(* another.                                                                *)
LEMMA StoredKeeps ==
  ASSUME LogInv, NEW b \in batches, Stored(b)
  PROVE  LogInv'
<1>1. /\ b \in Batch /\ b.rows \in Seq(Event) /\ table \in Seq(Event) /\ phase = "up"
      /\ batches' = batches \ {b} /\ table' = table \o b.rows
      /\ UNCHANGED <<buf, pushed, refused, parting, destroyed, leaver, phase>>
  BY DEF LogInv, TypeOK, Batch, Stored, Newest, Stopped
<1>2. table' \in Seq(Event) /\ Range(table') = Range(table) \cup Range(b.rows)
  BY <1>1, ConcatProperties, RangeConcatenation
<1>3. TypeOK'
  BY <1>1, <1>2 DEF LogInv, TypeOK, Batch, Event
<1>4. Newest'
  BY <1>1 DEF LogInv, Newest, KeepsTheNewest, Stopped
<1>5. Gone' \subseteq Gone
  BY <1>1, <1>2 DEF Gone
<1>6. Older'
  BY <1>1, <1>5 DEF LogInv, Older
<1>7. Apart'
  <2>1. Distinct(table')
    BY <1>1, DistinctConcat DEF LogInv, Apart
  <2> QED
    BY <1>1, <1>2, <2>1 DEF LogInv, Apart
<1>8. Covered'
  BY <1>1, <1>2 DEF LogInv, Covered, Of
<1>9. ExitKeepsTheBuffer'
  BY <1>1 DEF ExitKeepsTheBuffer
<1> QED
  BY <1>3, <1>4, <1>6, <1>7, <1>8, <1>9 DEF LogInv

LEMMA RefusedKeeps ==
  ASSUME LogInv, NEW b \in batches, Refused(b)
  PROVE  LogInv'
<1>1. /\ b \in Batch /\ b.rows \in Seq(Event) /\ phase = "up"
      /\ batches' = batches \ {b} /\ refused' = refused \cup Range(b.rows)
      /\ UNCHANGED <<buf, table, pushed, parting, destroyed, leaver, phase>>
  BY DEF LogInv, TypeOK, Batch, Refused, Newest, Stopped
<1>2. TypeOK'
  BY <1>1, RangeOfSeq DEF LogInv, TypeOK
<1>3. Newest'
  BY <1>1 DEF LogInv, Newest, KeepsTheNewest, Stopped
<1>4. Gone' \subseteq Gone
  BY <1>1 DEF Gone
<1>5. Older'
  BY <1>1, <1>4 DEF LogInv, Older
<1>6. Apart'
  BY <1>1 DEF LogInv, Apart
<1>7. Covered'
  BY <1>1 DEF LogInv, Covered, Of
<1>8. ExitKeepsTheBuffer'
  BY <1>1 DEF ExitKeepsTheBuffer
<1> QED
  BY <1>2, <1>3, <1>5, <1>6, <1>7, <1>8 DEF LogInv

LEMMA PushKeeps ==
  ASSUME LogInv, Push
  PROVE  LogInv'
<1>1. /\ phase = "up"
      /\ UNCHANGED <<batches, table, refused, parting, destroyed, leaver, phase>>
  BY DEF Push
<1>2. /\ TypeOK' /\ Newest'
      /\ pushed' - Len(buf') >= pushed - Len(buf)
  BY BufferAfterPush DEF LogInv
<1>3. /\ pushed \in Nat /\ pushed' \in Nat
      /\ Len(buf) \in Nat /\ Len(buf') \in Nat
  BY <1>2, EventWriterAssumption DEF LogInv, TypeOK
<1>4. \A e \in Gone : e \in Nat
  BY EventsAreNumbers DEF LogInv
<1>5. Gone' = Gone
  BY <1>1 DEF Gone
<1>6. Older'
  BY <1>2, <1>3, <1>4, <1>5 DEF LogInv, Older
<1>7. Apart' /\ Covered' /\ ExitKeepsTheBuffer'
  BY <1>1 DEF LogInv, Apart, Covered, Of, ExitKeepsTheBuffer
<1> QED
  BY <1>2, <1>6, <1>7 DEF LogInv

LEMMA FlushKeeps ==
  ASSUME LogInv, Flush
  PROVE  LogInv'
<1>1. /\ phase = "up" /\ Take("timer")
      /\ UNCHANGED <<table, pushed, refused, parting, destroyed, leaver, phase>>
  BY DEF Flush
<1>2. /\ Newest' /\ Older' /\ Apart'
      /\ buf' \in Seq(Event) /\ Len(buf') <= MAX /\ batches' \subseteq Batch
  BY <1>1, TakeKeeps DEF LogInv
<1>3. TypeOK'
  BY <1>1, <1>2 DEF LogInv, TypeOK
<1>4. batches \subseteq batches'
  BY <1>1 DEF Take
<1>5. Covered' /\ ExitKeepsTheBuffer'
  BY <1>1, <1>4 DEF LogInv, Covered, Of, ExitKeepsTheBuffer
<1> QED
  BY <1>2, <1>3, <1>5 DEF LogInv

LEMMA DestroyKeeps ==
  ASSUME LogInv, NEW c \in Caller, Destroy(c)
  PROVE  LogInv'
<1>1. /\ phase = "up" /\ c \notin destroyed
      /\ destroyed' = destroyed \cup {c}
      /\ parting' = [parting EXCEPT ![c] = Range(buf)]
      /\ UNCHANGED <<table, pushed, refused, leaver, phase>>
      /\ parting \in [Caller -> SUBSET Event] /\ destroyed \subseteq Caller
      /\ buf \in Seq(Event)
  BY DEF Destroy, LogInv, TypeOK
<1>2. /\ Range(buf) \subseteq Event
      /\ parting'[c] = Range(buf) /\ \A d \in Caller \ {c} : parting'[d] = parting[d]
      /\ parting' \in [Caller -> SUBSET Event]
  BY <1>1, RangeOfSeq
<1>3. ASSUME \A d \in destroyed : Of(d) \subseteq Of(d)',
             Range(buf) \subseteq UNION {Range(b.rows) : b \in Of(c)'}
      PROVE  Covered'
  BY <1>1, <1>2, <1>3 DEF LogInv, Covered
<1>4. CASE buf = << >>
  <2>1. UNCHANGED <<buf, batches>>
    BY <1>4 DEF Destroy
  <2>2. TypeOK' /\ Newest' /\ Older' /\ Apart'
    BY <1>1, <1>2, <2>1
       DEF LogInv, TypeOK, Newest, KeepsTheNewest, Stopped, Older, Gone, Apart
  <2>3. Range(buf) = {} /\ \A d \in destroyed : Of(d)' = Of(d)
    BY <1>4, <2>1 DEF Of, Range
  <2>4. Covered' /\ ExitKeepsTheBuffer'
    BY <1>1, <1>3, <2>3 DEF ExitKeepsTheBuffer
  <2> QED
    BY <2>2, <2>4 DEF LogInv
<1>5. CASE buf # << >>
  <2>1. Take(c)
    BY <1>5 DEF Destroy
  <2>2. /\ Newest' /\ Older' /\ Apart'
        /\ buf' \in Seq(Event) /\ Len(buf') <= MAX /\ batches' \subseteq Batch
    BY <1>1, <2>1, TakeKeeps DEF LogInv
  <2>3. TypeOK'
    BY <1>1, <1>2, <2>2 DEF LogInv, TypeOK
  <2>4. [rows |-> buf, by |-> c] \in Of(c)' /\ \A d \in destroyed : Of(d) \subseteq Of(d)'
    BY <2>1 DEF Take, Of
  <2>5. Covered' /\ ExitKeepsTheBuffer'
    BY <1>1, <1>3, <2>4 DEF ExitKeepsTheBuffer
  <2> QED
    BY <2>2, <2>3, <2>5 DEF LogInv
<1> QED
  BY <1>4, <1>5

(* The process ends; in an exit, the caller's own batch has arrived.       *)
LEMMA EndKeeps ==
  ASSUME LogInv, Kill \/ \E c \in Caller : Exit(c)
  PROVE  LogInv'
<1>1. /\ phase = "up" /\ phase' \in {"exited", "killed"}
      /\ batches' = {} /\ buf' = << >> /\ Len(buf') = 0
      /\ UNCHANGED <<table, pushed, refused, parting, destroyed>>
      /\ leaver' \in Caller \cup {"nobody"}
  BY DEF Kill, Exit, LogInv, TypeOK
<1>2. TypeOK'
  BY <1>1, EventWriterAssumption DEF LogInv, TypeOK
<1>3. Newest'
  BY <1>1, <1>2, EventWriterAssumption DEF Newest, KeepsTheNewest, Stopped, TypeOK
<1>4. Older'
  <2>1. Gone' \subseteq Gone
    BY <1>1 DEF Gone
  <2>2. \A e \in Gone : e \in Nat /\ e <= pushed
    <3>1. \A e \in Gone : e \in Nat
      BY EventsAreNumbers DEF LogInv
    <3>2. pushed \in Nat /\ Len(buf) \in Nat
      BY EventWriterAssumption DEF LogInv, TypeOK
    <3> QED
      BY <3>1, <3>2 DEF LogInv, Older
  <2> QED
    BY <1>1, <2>1, <2>2, EventWriterAssumption DEF Older, LogInv, TypeOK
<1>5. Apart' /\ Covered'
  BY <1>1 DEF LogInv, Apart, Covered
<1>6. ExitKeepsTheBuffer'
  <2>1. CASE Kill
    BY <2>1 DEF Kill, ExitKeepsTheBuffer
  <2>2. ASSUME NEW c \in Caller, Exit(c) PROVE ExitKeepsTheBuffer'
    <3>1. leaver' = c /\ c \in destroyed /\ Of(c) = {}
      BY <2>2 DEF Exit, Returned, Of
    <3> QED
      BY <1>1, <3>1 DEF LogInv, Covered, ExitKeepsTheBuffer
  <2> QED
    BY <2>1, <2>2
<1> QED
  BY <1>2, <1>3, <1>4, <1>5, <1>6 DEF LogInv

LEMMA LogInductive == Spec => []LogInv
<1>1. Init => LogInv
  <2>1. SUFFICES ASSUME Init PROVE LogInv
    OBVIOUS
  <2>2. /\ buf = << >> /\ Len(buf) = 0 /\ table = << >> /\ batches = {} /\ pushed = 0
        /\ refused = {} /\ destroyed = {} /\ phase = "up" /\ leaver = "nobody"
        /\ Range(table) = {}
    BY <2>1 DEF Init, Range
  <2>3. TypeOK
    BY <2>1, <2>2, EventWriterAssumption DEF Init, TypeOK
  <2>4. Newest /\ Older /\ Apart /\ Covered /\ ExitKeepsTheBuffer
    BY <2>2, EventWriterAssumption
       DEF Newest, KeepsTheNewest, Stopped, Older, Gone, Apart, Distinct, Covered, ExitKeepsTheBuffer
  <2> QED
    BY <2>3, <2>4 DEF LogInv
<1>2. LogInv /\ [Next]_vars => LogInv'
  <2> SUFFICES ASSUME LogInv, [Next]_vars PROVE LogInv'
    OBVIOUS
  <2>1. CASE Push
    BY <2>1, PushKeeps
  <2>2. CASE Flush
    BY <2>2, FlushKeeps
  <2>3. CASE Kill \/ \E c \in Caller : Exit(c)
    BY <2>3, EndKeeps
  <2>4. ASSUME NEW c \in Caller, Destroy(c) PROVE LogInv'
    BY <2>4, DestroyKeeps
  <2>5. ASSUME NEW b \in batches, Stored(b) PROVE LogInv'
    BY <2>5, StoredKeeps
  <2>6. ASSUME NEW b \in batches, Refused(b) PROVE LogInv'
    BY <2>6, RefusedKeeps
  <2>7. CASE UNCHANGED vars
    BY <2>7 DEF vars, LogInv, TypeOK, Newest, KeepsTheNewest, Stopped, Older, Gone,
       Apart, Covered, Of, ExitKeepsTheBuffer
  <2> QED
    BY <2>1, <2>2, <2>3, <2>4, <2>5, <2>6, <2>7 DEF Next
<1> QED
  BY <1>1, <1>2, PTL DEF Spec

LEMMA OnceFromInv ==
  ASSUME LogInv
  PROVE  EachEventOnce
<1> DEFINE now == [rows |-> buf, by |-> "timer"]
<1>1. pushed \in Nat /\ Len(buf) \in Nat /\ Range(buf) \subseteq Nat
  BY EventsAreNumbers, EventWriterAssumption DEF LogInv, TypeOK
<1>2. Gone \subseteq Nat
  BY EventsAreNumbers DEF LogInv
<1>3. Gone \cap Range(buf) = {}
  BY <1>1, <1>2, InBuffer DEF LogInv, Older
<1>4. now.rows = buf
  OBVIOUS
<1> HIDE DEF now
<1>5. \A e \in Range(table) \cup refused : ~Held(e)
  BY <1>3 DEF LogInv, Apart, Gone, Held, Sent
<1>6. ASSUME NEW a \in batches \cup {now}, NEW b \in batches \cup {now}, a # b
      PROVE  Range(a.rows) \cap Range(b.rows) = {}
  <2>1. \A x \in batches : Range(x.rows) \cap Range(now.rows) = {}
    BY <1>3, <1>4 DEF Gone
  <2> QED
    BY <1>6, <2>1 DEF LogInv, Apart
<1> QED
  BY <1>5, <1>6 DEF EachEventOnce, LogInv, Apart, Distinct, now

-----------------------------------------------------------------------------
(* main.ts's shutdown uses the event log as its module allows: whatever    *)
(* signals, connections and hooks do, the log takes a step of its own      *)
(* specification, or none.                                                 *)
THEOREM ShutdownRunsTheLog == DrainSpec => Spec
<1>1. DrainInit => Init
  BY DEF DrainInit
<1>2. [DrainNext]_allVars => [Next]_vars
  <2> SUFFICES ASSUME [DrainNext]_allVars PROVE Next \/ UNCHANGED vars
    OBVIOUS
  <2>1. ASSUME NEW c \in Client,
               Connect(c) \/ Ask(c) \/ LookUp(c) \/ Answer(c) \/ HangUp(c) \/ IdleTimeout(c)
        PROVE  Push \/ UNCHANGED vars
    BY <2>1 DEF Connect, Ask, LookUp, Answer, HangUp, IdleTimeout
  <2>2. CASE Signal \/ QuitRedis \/ SignalAgain
    BY <2>2 DEF Signal, QuitRedis, SignalAgain
  <2>3. ASSUME NEW c \in Caller, DestroyEvents(c) PROVE Next
    BY <2>3 DEF DestroyEvents, Next
  <2>4. ASSUME NEW r \in Run, TcpClosed(r) \/ Leave(r) PROVE Next \/ UNCHANGED vars
    BY <2>4 DEF TcpClosed, Leave, Run, Next
  <2>5. CASE Background
    BY <2>5 DEF Background, Next
  <2>6. CASE UNCHANGED allVars
    BY <2>6 DEF allVars
  <2> QED
    BY <2>1, <2>2, <2>3, <2>4, <2>5, <2>6 DEF DrainNext, Next
<1> QED
  BY <1>1, <1>2, PTL DEF DrainSpec, Spec

(* The type invariant of the log.                                          *)
THEOREM LogTypeCorrect == DrainSpec => []TypeOK
<1>1. LogInv => TypeOK
  BY DEF LogInv
<1> QED
  BY <1>1, ShutdownRunsTheLog, LogInductive, PTL

(* No event is written twice, whatever the timer, the shutdown's three     *)
(* rounds of hooks and the database do, and in whatever order.             *)
THEOREM EventsOnce == DrainSpec => []EachEventOnce
<1>1. LogInv => EachEventOnce
  BY OnceFromInv
<1> QED
  BY <1>1, ShutdownRunsTheLog, LogInductive, PTL

(* The buffer never has a gap and never drops a younger event for an older *)
(* one.                                                                    *)
THEOREM NewestKept == DrainSpec => []KeepsTheNewest
<1>1. LogInv => KeepsTheNewest
  BY DEF LogInv, Newest
<1> QED
  BY <1>1, ShutdownRunsTheLog, LogInductive, PTL

-----------------------------------------------------------------------------
(* A run that has got past tcp.close() finds no connection, and the server *)
(* accepts none: the first run stopped it before.                          *)
StageOK ==
  /\ conn \in [Client -> BOOLEAN]
  /\ stage \in [Caller -> {"off", "tcp", "hooks", "done"}]
  /\ stage["first"] = "off" => stage["second"] = "off"
  /\ stage["nest"] = "off" <=> stage["first"] = "off"
NoneLeft ==
  (phase = "exited" \/ \E r \in Run : stage[r] = "hooks") => Closed
DrainInv == StageOK /\ NoneLeft

LEMMA DrainInductive == DrainSpec => []DrainInv
<1>1. DrainInit => DrainInv
  BY ShutdownAssumption DEF DrainInit, Init, DrainInv, StageOK, NoneLeft, Closed, Run
<1>2. DrainInv /\ [DrainNext]_allVars => DrainInv'
  <2> SUFFICES ASSUME DrainInv, [DrainNext]_allVars PROVE DrainInv'
    OBVIOUS
  <2> USE DEF DrainInv
  <2>1. ASSUME NEW c \in Client, Connect(c) PROVE DrainInv'
    <3>1. /\ phase = "up" /\ stage["first"] = "off" /\ stage["second"] = "off"
          /\ UNCHANGED <<phase, stage>>
          /\ conn' = [conn EXCEPT ![c] = TRUE]
      BY <2>1 DEF Connect, Accepting, vars, StageOK
    <3>2. StageOK'
      BY <3>1 DEF StageOK
    <3>3. NoneLeft'
      BY <3>1, ShutdownAssumption DEF NoneLeft, Run
    <3> QED
      BY <3>2, <3>3
  <2>2. ASSUME NEW c \in Client, HangUp(c) \/ IdleTimeout(c) PROVE DrainInv'
    <3>1. UNCHANGED <<phase, stage>> /\ conn' = [conn EXCEPT ![c] = FALSE]
      BY <2>2 DEF HangUp, IdleTimeout, vars
    <3> QED
      BY <3>1 DEF StageOK, NoneLeft, Closed
  <2>3. ASSUME UNCHANGED <<conn, stage>>, phase' = "exited" => phase = "exited" PROVE DrainInv'
    BY <2>3 DEF StageOK, NoneLeft, Closed
  <2>4. ASSUME NEW c \in Client, Ask(c) \/ LookUp(c) \/ Answer(c) PROVE DrainInv'
    BY <2>3, <2>4 DEF Ask, LookUp, Answer, Push, vars
  <2>5. CASE Signal
    <3>1. /\ phase = "up" /\ stage["nest"] = "off" /\ stage["second"] = "off"
          /\ UNCHANGED <<phase, conn>>
          /\ stage' = [stage EXCEPT !["nest"] = "hooks", !["first"] = "tcp"]
      BY <2>5 DEF Signal, vars, StageOK
    <3> QED
      BY <3>1, ShutdownAssumption DEF StageOK, NoneLeft, Run
  <2>6. ASSUME NEW r \in Run, TcpClosed(r) PROVE DrainInv'
    <3>1. /\ stage[r] = "tcp" /\ Closed /\ UNCHANGED <<phase, conn>>
          /\ stage' = [stage EXCEPT ![r] = "hooks"]
      BY <2>6 DEF TcpClosed, vars
    <3>2. Closed'
      BY <3>1 DEF Closed
    <3>3. r \in {"first", "second"} /\ stage["first"] # "off"
      BY <3>1, ShutdownAssumption DEF StageOK, Run
    <3>4. /\ stage' \in [Caller -> {"off", "tcp", "hooks", "done"}]
          /\ stage'["nest"] = stage["nest"] /\ stage'["first"] # "off"
      BY <3>1, <3>3, ShutdownAssumption DEF StageOK
    <3>5. StageOK'
      BY <3>1, <3>3, <3>4 DEF StageOK
    <3> QED
      BY <3>2, <3>5 DEF NoneLeft
  <2>7. CASE QuitRedis
    BY <2>3, <2>7 DEF QuitRedis, vars
  <2>8. CASE SignalAgain
    <3>1. /\ phase = "up" /\ stage["nest"] = "hooks" /\ UNCHANGED <<phase, conn>>
          /\ stage' = [stage EXCEPT !["nest"] = "done", !["second"] = "tcp"]
      BY <2>8 DEF SignalAgain, HooksDone, vars
    <3>2. /\ stage' \in [Caller -> {"off", "tcp", "hooks", "done"}]
          /\ stage'["nest"] = "done" /\ stage'["second"] = "tcp"
          /\ stage'["first"] = stage["first"] /\ stage["first"] # "off"
      BY <3>1, ShutdownAssumption DEF StageOK
    <3>3. StageOK'
      BY <3>1, <3>2 DEF StageOK
    <3>4. \A r \in Run : stage'[r] = "hooks" => stage[r] = "hooks"
      BY <3>2, ShutdownAssumption DEF Run
    <3>5. NoneLeft'
      BY <3>1, <3>4 DEF NoneLeft, Closed
    <3> QED
      BY <3>3, <3>5
  <2>9. ASSUME NEW c \in Caller, DestroyEvents(c) PROVE DrainInv'
    BY <2>3, <2>9 DEF DestroyEvents, Destroy, drain
  <2>10. ASSUME NEW r \in Run, Leave(r) PROVE DrainInv'
    <3>1. stage[r] = "hooks" /\ UNCHANGED <<conn, stage>>
      BY <2>10 DEF Leave, HooksDone, drain
    <3>2. Closed /\ Closed'
      BY <3>1 DEF NoneLeft, Closed
    <3> QED
      BY <3>1, <3>2 DEF StageOK, NoneLeft
  <2>11. CASE Background
    BY <2>3, <2>11 DEF Background, Flush, Kill, Stored, Refused, drain
  <2>12. CASE UNCHANGED allVars
    BY <2>3, <2>12 DEF allVars, vars, drain
  <2> QED
    BY <2>1, <2>2, <2>4, <2>5, <2>6, <2>7, <2>8, <2>9, <2>10, <2>11, <2>12 DEF DrainNext
<1> QED
  BY <1>1, <1>2, PTL DEF DrainSpec

(* An exit cuts no client off and loses nothing of the buffer that the     *)
(* exiting run found, for any number of clients and any order of hooks.    *)
THEOREM ExitIsGraceful == DrainSpec => []GracefulExit
<1>1. LogInv /\ DrainInv => GracefulExit
  BY DEF LogInv, DrainInv, NoneLeft, Closed, GracefulExit
<1> QED
  BY <1>1, ShutdownRunsTheLog, LogInductive, DrainInductive, PTL
=============================================================================
